----------------------------- MODULE LevelProofs -----------------------------
(***************************************************************************)
(* Proofs about Level, for any finite set of thinkers and sectors, any map *)
(* and any lines, as long as a macro is suspended only while it waits for  *)
(* a delay and does not wait for a combined light.                         *)
(*                                                                         *)
(* To the movers a step is one of four things (Kind): they stay, new ones  *)
(* come to sectors that nothing moves, one goes, or all are gone.  Each    *)
(* kind keeps MoversInv and maps to a step of SectorOwner; a lemma per     *)
(* action says which kind it is and that it keeps the rest of IInv.        *)
(* CombineInv, about the lights and the order of the list, comes last.     *)
(***************************************************************************)
EXTENDS Level, SequencesExt, SequenceTheorems, FiniteSetTheorems, TLAPS

---------------------------------------------------------------------------
(* Lists without repetitions, as the lists of mobjs and of thinkers are:   *)
(* what linking and unlinking do to the set that a list holds.             *)

\* The range of a list is what its places hold.
LEMMA InRange ==
  ASSUME NEW S, NEW l \in Seq(S)
  PROVE  /\ Range(l) \subseteq S
         /\ \A x : x \in Range(l) <=> \E i \in 1 .. Len(l) : x = l[i]
         /\ Len(l) \in Nat /\ DOMAIN l = 1 .. Len(l)
<1>1. Len(l) \in Nat /\ DOMAIN l = 1 .. Len(l) /\ \A i \in 1 .. Len(l) : l[i] \in S
  OBVIOUS
<1>2. \A x : x \in Range(l) <=> \E i \in 1 .. Len(l) : x = l[i]
  BY <1>1, Zenon DEF Range
<1> QED BY <1>1, <1>2

\* P_LinkMobj, P_AddThinker: the list grows by a new member at its end.
LEMMA AppendList ==
  ASSUME NEW S, NEW l \in Seq(S), IsInjective(l), NEW n \in S, n \notin Range(l)
  PROVE  /\ Append(l, n) \in Seq(S)
         /\ IsInjective(Append(l, n))
         /\ Range(Append(l, n)) = Range(l) \cup {n}
<1> DEFINE q == Append(l, n)
<1>1. /\ q \in Seq(S) /\ Len(l) \in Nat /\ Len(q) = Len(l) + 1
      /\ DOMAIN q = 1 .. Len(l) + 1 /\ DOMAIN l = 1 .. Len(l)
      /\ \A i \in 1 .. Len(l) : q[i] = l[i]
      /\ q[Len(l) + 1] = n
  OBVIOUS
<1>2. \A i \in 1 .. Len(l) : l[i] # n
  BY <1>1, InRange
<1> HIDE DEF q
<1>3. IsInjective(q)
  BY <1>1, <1>2 DEF IsInjective
<1>4. Range(q) = Range(l) \cup {n}
  <2>1. \A i \in 1 .. Len(l) + 1 : i = Len(l) + 1 \/ i \in 1 .. Len(l)
    BY <1>1
  <2>2. 1 .. Len(l) \subseteq 1 .. Len(l) + 1 /\ Len(l) + 1 \in 1 .. Len(l) + 1
    BY <1>1
  <2> QED BY <1>1, <2>1, <2>2 DEF Range
<1> QED BY <1>1, <1>3, <1>4 DEF q

\* A sequence without the element at place i.
LEMMA RemoveAtElements ==
  ASSUME NEW S, NEW l \in Seq(S), NEW i \in 1 .. Len(l)
  PROVE  /\ RemoveAt(l, i) \in Seq(S)
         /\ Len(RemoveAt(l, i)) = Len(l) - 1
         /\ DOMAIN RemoveAt(l, i) = 1 .. Len(l) - 1
         /\ \A j \in 1 .. Len(l) - 1 : RemoveAt(l, i)[j] = IF j < i THEN l[j] ELSE l[j + 1]
<1> DEFINE a == SubSeq(l, 1, i - 1)
           b == SubSeq(l, i + 1, Len(l))
           q == a \o b
<1>1. Len(l) \in Nat /\ i \in Nat /\ i >= 1 /\ i <= Len(l) /\ DOMAIN l = 1 .. Len(l)
  OBVIOUS
<1>0. i < Len(l) \/ i = Len(l)
  BY i \in 1 .. Len(l), Len(l) \in Nat
<1>2. a \in Seq(S) /\ Len(a) = i - 1 /\ \A j \in 1 .. i - 1 : a[j] = l[j]
  <2>1. \A j \in 1 .. i - 1 : l[j] \in S
    BY <1>1
  <2>2. /\ SubSeq(l, 1, i - 1) \in Seq(S)
        /\ Len(SubSeq(l, 1, i - 1)) = IF 1 <= i - 1 THEN i - 1 - 1 + 1 ELSE 0
        /\ \A j \in 1 .. i - 1 - 1 + 1 : SubSeq(l, 1, i - 1)[j] = l[1 + j - 1]
    BY <1>1, <2>1, SubSeqProperties
  <2> QED BY <1>1, <2>2
<1>3. /\ b \in Seq(S) /\ Len(b) = Len(l) - i
      /\ \A j \in 1 .. Len(l) - i : b[j] = l[i + j]
  <2>1. \A j \in i + 1 .. Len(l) : l[j] \in S
    BY <1>1
  <2>2. /\ SubSeq(l, i + 1, Len(l)) \in Seq(S)
        /\ Len(SubSeq(l, i + 1, Len(l))) =
               IF i + 1 <= Len(l) THEN Len(l) - (i + 1) + 1 ELSE 0
        /\ \A j \in 1 .. Len(l) - (i + 1) + 1 :
               SubSeq(l, i + 1, Len(l))[j] = l[i + 1 + j - 1]
    BY <1>1, <2>1, SubSeqProperties
  <2>3. Len(l) - (i + 1) + 1 = Len(l) - i
    BY <1>1
  <2>4. \A j \in 1 .. Len(l) - i : i + 1 + j - 1 = i + j
    BY <1>1
  <2>5. Len(b) = Len(l) - i
    <3>1. CASE i < Len(l)
      <4>1. i + 1 <= Len(l)
        BY <1>1, <3>1
      <4> QED BY <2>2, <2>3, <4>1
    <3>2. CASE i = Len(l)
      <4>1. ~(i + 1 <= Len(l)) /\ Len(l) - i = 0
        BY <1>1, <3>2
      <4> QED BY <2>2, <4>1
    <3> QED BY <1>0, <3>1, <3>2
  <2>6. \A j \in 1 .. Len(l) - i : b[j] = l[i + j]
    BY <2>2, <2>3, <2>4
  <2> QED BY <2>2, <2>5, <2>6
<1> HIDE DEF a, b
<1>4. /\ q \in Seq(S) /\ Len(q) = Len(l) - 1 /\ DOMAIN q = 1 .. Len(l) - 1
      /\ \A j \in 1 .. Len(l) - 1 : q[j] = IF j < i THEN l[j] ELSE l[j + 1]
  <2>1. /\ q \in Seq(S) /\ Len(q) = Len(a) + Len(b)
        /\ \A j \in 1 .. Len(a) + Len(b) :
               q[j] = IF j <= Len(a) THEN a[j] ELSE b[j - Len(a)]
    BY <1>2, <1>3, ConcatProperties
  <2>2. Len(a) + Len(b) = Len(l) - 1
    BY <1>1, <1>2, <1>3
  <2>3. ASSUME NEW j \in 1 .. Len(l) - 1
        PROVE  q[j] = IF j < i THEN l[j] ELSE l[j + 1]
    <3>1. CASE j < i
      BY <1>1, <1>2, <2>1, <2>2, <3>1
    <3>2. CASE ~(j < i)
      <4>1. j - (i - 1) \in 1 .. Len(l) - i /\ i + (j - (i - 1)) = j + 1
        BY <1>1, <3>2
      <4>2. q[j] = b[j - (i - 1)]
        BY <1>1, <1>2, <2>1, <2>2, <3>2
      <4> QED BY <1>3, <3>2, <4>1, <4>2
    <3> QED BY <3>1, <3>2
  <2>4. DOMAIN q = 1 .. Len(l) - 1
    BY <2>1, <2>2, LenProperties
  <2> QED BY <2>1, <2>2, <2>3, <2>4
<1> QED BY <1>4 DEF RemoveAt, q, a, b

\* P_UnlinkMobj, P_UnlinkThinker: the list loses a member and keeps the order of
\* the others.
LEMMA RemoveList ==
  ASSUME NEW S, NEW l \in Seq(S), IsInjective(l), NEW i \in 1 .. Len(l)
  PROVE  /\ RemoveAt(l, i) \in Seq(S)
         /\ IsInjective(RemoveAt(l, i))
         /\ Range(RemoveAt(l, i)) = Range(l) \ {l[i]}
         /\ Len(RemoveAt(l, i)) = Len(l) - 1
<1> DEFINE q == RemoveAt(l, i)
<1>1. Len(l) \in Nat /\ i \in Nat /\ i >= 1 /\ i <= Len(l) /\ DOMAIN l = 1 .. Len(l)
  OBVIOUS
<1>4. /\ q \in Seq(S) /\ Len(q) = Len(l) - 1 /\ DOMAIN q = 1 .. Len(l) - 1
      /\ \A j \in 1 .. Len(l) - 1 : q[j] = IF j < i THEN l[j] ELSE l[j + 1]
  BY RemoveAtElements
<1> HIDE DEF q
<1>5. IsInjective(q)
  <2>1. \A j, k \in 1 .. Len(l) : l[j] = l[k] => j = k
    BY <1>1 DEF IsInjective
  <2>2. ASSUME NEW j \in 1 .. Len(l) - 1, NEW k \in 1 .. Len(l) - 1, q[j] = q[k]
        PROVE  j = k
    <3>1. j \in 1 .. Len(l) /\ j + 1 \in 1 .. Len(l)
          /\ k \in 1 .. Len(l) /\ k + 1 \in 1 .. Len(l)
      BY <1>1
    <3>2. CASE j < i /\ k < i
      BY <1>4, <2>1, <2>2, <3>1, <3>2
    <3>3. CASE j < i /\ ~(k < i)
      <4>1. j = k + 1
        BY <1>4, <2>1, <2>2, <3>1, <3>3
      <4> QED BY <1>1, <3>1, <3>3, <4>1
    <3>4. CASE ~(j < i) /\ k < i
      <4>1. j + 1 = k
        BY <1>4, <2>1, <2>2, <3>1, <3>4
      <4> QED BY <1>1, <3>1, <3>4, <4>1
    <3>5. CASE ~(j < i) /\ ~(k < i)
      <4>1. j + 1 = k + 1
        BY <1>4, <2>1, <2>2, <3>1, <3>5
      <4> QED BY <3>1, <4>1
    <3> QED BY <3>2, <3>3, <3>4, <3>5
  <2> QED BY <1>4, <2>2 DEF IsInjective
<1>6. Range(q) = Range(l) \ {l[i]}
  <2>1. ASSUME NEW j \in 1 .. Len(l) - 1
        PROVE  \E k \in 1 .. Len(l) : k # i /\ q[j] = l[k]
    <3>1. CASE j < i
      BY <1>1, <1>4, <3>1
    <3>2. CASE ~(j < i)
      <4>1. j + 1 \in 1 .. Len(l) /\ j + 1 # i
        BY <1>1, <3>2
      <4> QED BY <1>4, <3>2, <4>1
    <3> QED BY <3>1, <3>2
  <2>2. ASSUME NEW k \in 1 .. Len(l), k # i
        PROVE  \E j \in 1 .. Len(l) - 1 : q[j] = l[k]
    <3>1. CASE k < i
      BY <1>1, <1>4, <3>1
    <3>2. CASE k > i
      <4>1. k - 1 \in 1 .. Len(l) - 1 /\ ~(k - 1 < i) /\ k - 1 + 1 = k
        BY <1>1, <3>2
      <4> QED BY <1>4, <4>1
    <3> QED BY <1>1, <2>2, <3>1, <3>2
  <2>3. \A k \in 1 .. Len(l) : k # i <=> l[k] # l[i]
    BY <1>1 DEF IsInjective
  <2>4. \A x : x \in Range(q) <=> \E j \in 1 .. Len(l) - 1 : x = q[j]
    BY <1>4, InRange, LenProperties
  <2>5. \A x : x \in Range(l) <=> \E k \in 1 .. Len(l) : x = l[k]
    BY InRange
  <2>6. ASSUME NEW x \in Range(q) PROVE x \in Range(l) \ {l[i]}
    BY <2>1, <2>3, <2>4, <2>5, <2>6
  <2>7. ASSUME NEW x \in Range(l) \ {l[i]} PROVE x \in Range(q)
    BY <2>2, <2>4, <2>5, <2>7
  <2> QED BY <2>6, <2>7
<1> QED BY <1>4, <1>5, <1>6 DEF q

\* Two lists without a common member make one list.
LEMMA ConcatList ==
  ASSUME NEW S, NEW l \in Seq(S), NEW k \in Seq(S), IsInjective(l), IsInjective(k),
         Range(l) \cap Range(k) = {}
  PROVE  /\ l \o k \in Seq(S)
         /\ IsInjective(l \o k)
         /\ Range(l \o k) = Range(l) \cup Range(k)
         /\ Len(l \o k) = Len(l) + Len(k)
<1> DEFINE q == l \o k
<1>1. /\ q \in Seq(S) /\ Len(q) = Len(l) + Len(k)
      /\ \A i \in 1 .. Len(l) + Len(k) : q[i] = IF i <= Len(l) THEN l[i] ELSE k[i - Len(l)]
  BY ConcatProperties
<1>2. /\ Len(l) \in Nat /\ DOMAIN l = 1 .. Len(l)
      /\ Len(k) \in Nat /\ DOMAIN k = 1 .. Len(k)
      /\ DOMAIN q = 1 .. Len(l) + Len(k)
  BY <1>1, LenProperties
<1> HIDE DEF q
<1>3. ASSUME NEW i \in DOMAIN q
      PROVE  \/ i \in DOMAIN l /\ q[i] = l[i]
             \/ ~(i <= Len(l)) /\ i - Len(l) \in DOMAIN k /\ q[i] = k[i - Len(l)]
  <2>1. CASE i <= Len(l)
    BY <1>1, <1>2, <2>1
  <2>2. CASE ~(i <= Len(l))
    BY <1>1, <1>2, <2>2
  <2> QED BY <2>1, <2>2
<1>4. \A i \in DOMAIN l : i \in DOMAIN q /\ q[i] = l[i]
  BY <1>1, <1>2
<1>5. \A i \in DOMAIN k : i + Len(l) \in DOMAIN q /\ q[i + Len(l)] = k[i]
  <2>1. ASSUME NEW i \in DOMAIN k
        PROVE  /\ i + Len(l) \in 1 .. Len(l) + Len(k) /\ ~(i + Len(l) <= Len(l))
               /\ i + Len(l) - Len(l) = i
    BY <1>2
  <2> QED BY <1>1, <1>2, <2>1
<1>6. Range(q) = Range(l) \cup Range(k)
  <2>1. ASSUME NEW x \in Range(q) PROVE x \in Range(l) \cup Range(k)
    <3>1. PICK i \in DOMAIN q : x = q[i]
      BY DEF Range
    <3> QED BY <1>3, <3>1 DEF Range
  <2>2. ASSUME NEW x \in Range(l) PROVE x \in Range(q)
    BY <1>4 DEF Range
  <2>3. ASSUME NEW x \in Range(k) PROVE x \in Range(q)
    <3>1. PICK i \in DOMAIN k : x = k[i]
      BY DEF Range
    <3>2. i + Len(l) \in DOMAIN q /\ q[i + Len(l)] = x
      BY <1>5, <3>1
    <3> QED BY <3>2, Zenon DEF Range
  <2> QED BY <2>1, <2>2, <2>3
<1>7. ASSUME NEW i \in DOMAIN q, NEW j \in DOMAIN q, q[i] = q[j]
      PROVE  i = j
  <2>1. \A x \in DOMAIN l, y \in DOMAIN k : l[x] # k[y]
    BY DEF Range
  <2>2. CASE i \in DOMAIN l /\ q[i] = l[i] /\ j \in DOMAIN l /\ q[j] = l[j]
    BY <1>7, <2>2 DEF IsInjective
  <2>3. CASE /\ ~(i <= Len(l)) /\ i - Len(l) \in DOMAIN k /\ q[i] = k[i - Len(l)]
             /\ ~(j <= Len(l)) /\ j - Len(l) \in DOMAIN k /\ q[j] = k[j - Len(l)]
    <3>1. i - Len(l) = j - Len(l)
      BY <1>7, <2>3 DEF IsInjective
    <3> QED BY <1>2, <3>1
  <2> QED BY <1>3, <1>7, <2>1, <2>2, <2>3
<1> QED BY <1>1, <1>6, <1>7 DEF IsInjective, q

---------------------------------------------------------------------------
(* Sets of numbers: the least, the greatest, and counting off.             *)

\* A finite set of numbers can be counted off upwards.
LEMMA Ranks ==
  ASSUME NEW D, D \subseteq Nat, IsFiniteSet(D)
  PROVE  \A i \in 1 .. Cardinality(D) : \E s \in D : Cardinality({r \in D : r =< s}) = i
<1> DEFINE n == Cardinality(D)
           rank == [s \in D |-> Cardinality({r \in D : r =< s})]
<1>1. n \in Nat /\ IsFiniteSet(1 .. n) /\ Cardinality(1 .. n) = n
  BY FS_CardinalityType, FS_Interval
<1>2. \A s \in D : rank[s] \in 1 .. n
  <2> TAKE s \in D
  <2>1. {r \in D : r =< s} \in SUBSET D /\ s \in {r \in D : r =< s}
    OBVIOUS
  <2>2. /\ IsFiniteSet({r \in D : r =< s})
        /\ Cardinality({r \in D : r =< s}) =< n
    BY <2>1, FS_Subset
  <2>3. Cardinality({r \in D : r =< s}) \in Nat /\ Cardinality({r \in D : r =< s}) # 0
    BY <2>1, <2>2, FS_CardinalityType, FS_EmptySet
  <2> QED BY <1>1, <2>2, <2>3
<1>3. \A s, t \in D : s < t => rank[s] # rank[t]
  <2> SUFFICES ASSUME NEW s \in D, NEW t \in D, s < t PROVE rank[s] # rank[t]
    OBVIOUS
  <2>0. s \in Nat /\ t \in Nat /\ t =< t /\ ~ (t =< s)
        /\ \A r \in D : r \in Nat /\ (r =< s => r =< t)
    OBVIOUS
  <2>1. /\ {r \in D : r =< s} \in SUBSET {r \in D : r =< t}
        /\ t \in {r \in D : r =< t} /\ t \notin {r \in D : r =< s}
    BY <2>0
  <2>2. IsFiniteSet({r \in D : r =< t})
    BY FS_Subset
  <2> QED BY <2>1, <2>2, FS_Subset
<1>4. rank \in Injection(D, 1 .. n)
  <2>1. \A s, t \in D : rank[s] = rank[t] => s = t
    BY <1>3
  <2>2. rank \in [D -> 1 .. n]
    BY <1>2
  <2> QED BY <2>1, <2>2, Zenon DEF Injection, IsInjective
<1>5. rank \in Surjection(D, 1 .. n)
  BY <1>1, <1>4, FS_Injection
<1> QED BY <1>5 DEF Surjection

\* Ascending(D) has every element of D once, and in their order.
LEMMA AscendingFacts ==
  ASSUME NEW D, D \subseteq Nat, IsFiniteSet(D)
  PROVE  /\ Cardinality(D) \in Nat
         /\ Ascending(D) \in [1 .. Cardinality(D) -> D]
         /\ Ascending(D) \in Seq(D) /\ Len(Ascending(D)) = Cardinality(D)
         /\ \A i, j \in 1 .. Cardinality(D) : i < j => Ascending(D)[i] < Ascending(D)[j]
         /\ \A s \in D : \E i \in 1 .. Cardinality(D) : Ascending(D)[i] = s
<1> DEFINE n == Cardinality(D)
           Rank(s) == Cardinality({r \in D : r =< s})
           a == Ascending(D)
<1>1. n \in Nat /\ IsFiniteSet(1 .. n) /\ Cardinality(1 .. n) = n
  BY FS_CardinalityType, FS_Interval
<1>2. ASSUME NEW i \in 1 .. n PROVE a[i] \in D /\ Rank(a[i]) = i
  <2>1. \E s \in D : Rank(s) = i
    BY Ranks
  <2>2. a[i] = CHOOSE s \in D : Rank(s) = i
    BY DEF Ascending
  <2> HIDE DEF Rank, a
  <2> QED BY <2>1, <2>2
<1>3. a = [i \in 1 .. n |-> a[i]]
  BY DEF Ascending
<1>4. a \in [1 .. n -> D]
  <2> HIDE DEF a
  <2> QED BY <1>2, <1>3
<1>5. a \in Seq(D) /\ Len(a) = n
  <2> HIDE DEF a, n
  <2> QED BY <1>1, <1>4
<1>6. ASSUME NEW i \in 1 .. n, NEW j \in 1 .. n, i < j PROVE a[i] < a[j]
  <2>1. a[i] \in D /\ a[j] \in D /\ Rank(a[i]) = i /\ Rank(a[j]) = j
    BY <1>2
  <2>2. SUFFICES ASSUME ~ (a[i] < a[j]) PROVE FALSE
    OBVIOUS
  <2> HIDE DEF a
  <2>3. ASSUME NEW r \in D PROVE r =< a[j] => r =< a[i]
    <3>1. r \in Nat /\ a[i] \in Nat /\ a[j] \in Nat
      BY <2>1
    <3> QED BY <2>2, <3>1
  <2>4. {r \in D : r =< a[j]} \in SUBSET {r \in D : r =< a[i]}
    BY <2>3
  <2>5. IsFiniteSet({r \in D : r =< a[i]})
    BY FS_Subset
  <2>6. Rank(a[j]) =< Rank(a[i])
    BY <2>4, <2>5, FS_Subset
  <2> HIDE DEF Rank
  <2> QED BY <1>1, <1>6, <2>1, <2>6
<1>7. \A i, j \in 1 .. n : a[i] = a[j] => i = j
  <2> HIDE DEF a
  <2>1. \A i \in 1 .. n : a[i] \in Nat
    BY <1>2
  <2> QED BY <1>1, <1>6, <2>1
<1>8. ASSUME NEW s \in D PROVE \E i \in 1 .. n : a[i] = s
  <2> HIDE DEF a
  <2>1. a \in Injection(1 .. n, D)
    BY <1>4, <1>7 DEF Injection, IsInjective
  <2>2. a \in Surjection(1 .. n, D)
    BY <1>1, <2>1, FS_Injection
  <2> QED BY <2>2 DEF Surjection
<1> QED BY <1>1, <1>4, <1>5, <1>6, <1>8

---------------------------------------------------------------------------
(* InOrder(at) has every element of at once.                               *)

\* seq is at in the order in which pick counts off D.
Follows(pick, seq, at, D, R) ==
    /\ pick \in [1 .. Cardinality(D) -> D]
    /\ \A i, j \in 1 .. Cardinality(D) : pick[i] = pick[j] => i = j
    /\ \A s \in D : \E i \in 1 .. Cardinality(D) : pick[i] = s
    /\ seq \in Seq(R)
    /\ Len(seq) = Cardinality(D)
    /\ \A i \in 1 .. Cardinality(D) : seq[i] = at[pick[i]]

\* InOrder(at) is at, in the order of some such counting.
LEMMA InOrderFacts ==
    ASSUME NEW D, D \subseteq Nat, IsFiniteSet(D), NEW R, NEW at \in [D -> R]
    PROVE  \E pick : Follows(pick, InOrder(at), at, D, R)
<1> DEFINE n == Cardinality(D)
           pick == Ascending(D)
<1>1. n \in Nat /\ pick \in [1 .. n -> D]
    BY AscendingFacts
<1>2. \A i, j \in 1 .. n : i < j => pick[i] < pick[j]
    BY AscendingFacts
<1>3. \A s \in D : \E i \in 1 .. n : pick[i] = s
    BY AscendingFacts
<1>4. InOrder(at) = [i \in 1 .. n |-> at[pick[i]]]
    BY DEF InOrder
<1> HIDE DEF n, pick
<1>5. ASSUME NEW i \in 1 .. n PROVE i \in Int /\ pick[i] \in Nat
    <2>1. i \in Int
        BY <1>1
    <2>2. pick[i] \in D
        BY <1>1
    <2> QED BY <2>1, <2>2
<1>6. ASSUME NEW i \in 1 .. n, NEW j \in 1 .. n, pick[i] = pick[j]
      PROVE  i = j
    <2>1. ~ (i < j) /\ ~ (j < i)
        BY <1>2, <1>5, <1>6
    <2> QED BY <1>5, <2>1
<1>7. \A i \in 1 .. n : at[pick[i]] \in R
    BY <1>1
<1>8. InOrder(at) \in Seq(R) /\ Len(InOrder(at)) = n
    BY <1>1, <1>4, <1>7
<1>9. \A i \in 1 .. n : InOrder(at)[i] = at[pick[i]]
    BY <1>4
<1>10. Follows(pick, InOrder(at), at, D, R)
    <2> USE DEF n
    <2> QED BY <1>1, <1>3, <1>6, <1>8, <1>9 DEF Follows
<1> QED BY <1>10

\* The new thinkers of some sectors are a list without repetitions.
LEMMA InOrderList ==
    ASSUME NEW D, D \subseteq Nat, IsFiniteSet(D), NEW R, NEW at \in [D -> R],
           \A s, r \in D : at[s] = at[r] => s = r
    PROVE  /\ InOrder(at) \in Seq(R)
           /\ IsInjective(InOrder(at))
           /\ Range(InOrder(at)) = {at[s] : s \in D}
<1>0. PICK pick : Follows(pick, InOrder(at), at, D, R)
    BY InOrderFacts
<1> DEFINE n == Cardinality(D)
<1>1. /\ pick \in [1 .. n -> D]
      /\ \A i, j \in 1 .. n : pick[i] = pick[j] => i = j
      /\ \A s \in D : \E i \in 1 .. n : pick[i] = s
      /\ InOrder(at) \in Seq(R)
      /\ Len(InOrder(at)) = n
      /\ \A i \in 1 .. n : InOrder(at)[i] = at[pick[i]]
    BY <1>0 DEF Follows
<1> HIDE DEF n
<1>2. DOMAIN InOrder(at) = 1 .. n
    BY <1>1, LenProperties
<1>3. ASSUME NEW i \in 1 .. n, NEW j \in 1 .. n, InOrder(at)[i] = InOrder(at)[j]
      PROVE  i = j
    <2>1. pick[i] \in D /\ pick[j] \in D /\ at[pick[i]] = at[pick[j]]
        BY <1>1, <1>3
    <2>2. pick[i] = pick[j]
        BY <2>1
    <2> QED BY <1>1, <2>2
<1>4. ASSUME NEW x \in Range(InOrder(at)) PROVE x \in {at[s] : s \in D}
    <2>1. PICK i \in 1 .. n : x = InOrder(at)[i]
        BY <1>2 DEF Range
    <2> QED BY <1>1, <2>1
<1>5. ASSUME NEW s \in D PROVE at[s] \in Range(InOrder(at))
    <2>1. PICK i \in 1 .. n : pick[i] = s
        BY <1>1
    <2>2. InOrder(at)[i] = at[s]
        BY <1>1, <2>1
    <2> QED BY <1>2, <2>2 DEF Range
<1> QED BY <1>1, <1>2, <1>3, <1>4, <1>5 DEF IsInjective
---------------------------------------------------------------------------
(* The inductive invariant.                                                *)

\* The types, and that a saved game is read while nothing else happens.
Shapes ==
    /\ list \in Seq(Thinker) /\ cursor \in 0 .. Len(list)
    /\ fn \in [Thinker -> {"run", "stasis", "unlink", "free"}]
    /\ DOMAIN type = Thinker /\ DOMAIN move = Thinker
    /\ DOMAIN old = Thinker /\ DOMAIN peer = Thinker
    /\ home \in [Thinker -> Sector \cup {None}]
    /\ watch \in Thinker \cup {None}
    /\ specialdata \in [Sector -> Thinker \cup {None}]
    /\ special \in [Sector -> LightTypes \cup {"none"}]
    /\ todo \subseteq Sector
    /\ \E map \in Maps : lines \subseteq map
    /\ file \in Seq(ToSet(file))
    /\ file # <<>> => cursor = 0 /\ todo = {}

\* The list holds every thinker that is allocated, once.
Linked == IsInjective(list) /\ \A t \in Thinker : t \in ToSet(list) <=> fn[t] # "free"

\* A mover has a sector; the thinkers that have none are free or timers; what
\* moves a sector behind a line with special 1 or 117 is a door.
Homes ==
    /\ \A t \in Thinker : fn[t] = "free" \/ type[t] = "timer" => home[t] = None
    /\ \A t \in MoverThinkers : home[t] \in Sector
    /\ \A t \in MoverThinkers : home[t] \in ManualRaise => type[t] \in Doors

\* WatchIsLive does not survive a load by itself: a combined light that was the
\* watched thinker is read into one that is removed at once.
Watched == watch # None => watch \in Live /\ type[watch] # "combine"

\* What the records of a saved game say is what a level can be in.
Records ==
    /\ \A i \in 1 .. Len(file) :
        LET r == file[i]
        IN /\ r.home \in Sector \cup {None}
           /\ r.type \in Movers => r.home \in Sector
           /\ r.type \in Movers /\ r.home \in ManualRaise => r.type \in Doors
           /\ r.type = "timer" => r.home = None
           /\ ~ r.running => r.type \in Ceilings /\ r.move = "stasis"
           /\ r.watched => r.running /\ r.type # "combine"
           /\ r.type \in Movers => \A t \in MoverThinkers :
                  home[t] = r.home => r.home \in ManualOpen
    /\ \A i, j \in 1 .. Len(file) :
        /\ i # j /\ file[i].type \in Movers /\ file[j].type \in Movers
        /\ file[i].home = file[j].home
        => file[i].home \in ManualOpen

\* What the movers, their sectors and their slots are to each other.
MoversInv == Homes /\ BusyIsLive /\ OneMover /\ SlotsExact

\* Each part needs the others: HeldByMover needs Records, or loading would give a
\* sector a second mover; SlotsExact needs Homes, or a monster that turns round a
\* plat would start one that is stopped.
IInv == Shapes /\ Linked /\ MoversInv /\ Watched /\ Records

---------------------------------------------------------------------------
(* What a step does to the movers: nothing, new ones, one ends, or all are  *)
(* gone.                                                                   *)

\* A mover stays a mover of that sector.
Kept(t) == type'[t] = type[t] /\ home'[t] = home[t]

\* A thinker without a function is one that was stopped.
StoppedOnly == \A t \in Thinker : fn'[t] = "stasis" =>
                    t \in plats \cup ceilings /\ move'[t] = "stasis"

\* Movers move, wait, are stopped or start again.
MoversStay ==
    /\ \A t \in Thinker : t \in MoverThinkers' <=> t \in MoverThinkers
    /\ \A t \in MoverThinkers : Kept(t)
    /\ \A t \in Thinker : fn'[t] = "free" \/ type'[t] = "timer" => home'[t] = None
    /\ UNCHANGED <<specialdata, plats, ceilings>>
    /\ StoppedOnly

\* New ones of type ty, at[s] for each s in S.
MoversComeTo(S, at, ty) ==
    /\ S \in SUBSET Sector /\ at \in [S -> Free] /\ ty \in Movers
    /\ \A s \in S : specialdata[s] = None \/ s \in ManualOpen
    /\ \A s, r \in S : at[s] = at[r] => s = r
    /\ \A s \in S : at[s] \in MoverThinkers' /\ type'[at[s]] = ty /\ home'[at[s]] = s
    /\ \A s \in S : s \in ManualRaise => ty \in Doors
    /\ \A t \in Thinker : t \in MoverThinkers' <=>
                t \in MoverThinkers \/ \E s \in S : t = at[s]
    /\ \A t \in MoverThinkers : Kept(t)
    /\ \A t \in Thinker : fn'[t] = "free" \/ type'[t] = "timer" => home'[t] = None
    /\ specialdata' = [s \in Sector |-> IF s \in S THEN at[s] ELSE specialdata[s]]
    /\ plats' = IF ty \in Plats THEN plats \cup {at[s] : s \in S} ELSE plats
    /\ ceilings' = IF ty \in Ceilings THEN ceilings \cup {at[s] : s \in S} ELSE ceilings
    /\ \A t \in Thinker : fn'[t] = "stasis" =>
            t \in plats' \cup ceilings' /\ move'[t] = "stasis"

\* One ends and lets go of its sector and of its slot.
MoverGoes(t) ==
    /\ t \in MoverThinkers
    /\ \A u \in Thinker : u \in MoverThinkers' <=> u \in MoverThinkers /\ u # t
    /\ UNCHANGED <<type, home>>
    /\ fn' = [fn EXCEPT ![t] = "unlink"]
    /\ move' = move
    /\ specialdata' = [s \in Sector |-> IF s = home[t] THEN None ELSE specialdata[s]]
    /\ plats' = plats \ {t} /\ ceilings' = ceilings \ {t}

\* The tables in terms of movers.
LEMMA SlotsOfMovers ==
    SlotsExact <=> /\ plats = {t \in MoverThinkers : type[t] \in Plats}
                   /\ ceilings = {t \in MoverThinkers : type[t] \in Ceilings}
                   /\ \A t \in Thinker : fn[t] = "stasis" =>
                        t \in plats \cup ceilings /\ move[t] = "stasis"
BY DEF SlotsExact, MoverThinkers, Movers

\* The same after a step.
LEMMA SlotsOfMoversNext ==
    SlotsExact' <=> /\ plats' = {t \in MoverThinkers' : type'[t] \in Plats}
                    /\ ceilings' = {t \in MoverThinkers' : type'[t] \in Ceilings}
                    /\ \A t \in Thinker : fn'[t] = "stasis" =>
                         t \in plats' \cup ceilings' /\ move'[t] = "stasis"
BY DEF SlotsExact, MoverThinkers, Movers

\* Movers are allocated thinkers.
LEMMA MoverThinkersAre ==
    /\ MoverThinkers \subseteq Thinker /\ MoverThinkers' \subseteq Thinker
    /\ \A t \in MoverThinkers : fn[t] # "free"
BY DEF MoverThinkers, Live

\* Each kind of step keeps what the movers are to their sectors and slots.
LEMMA StayKeeps ==
    ASSUME MoversInv, MoversStay
    PROVE  MoversInv'
<1> USE MoverThinkersAre
<1>1. Homes'
    BY DEF MoversInv, MoversStay, Homes, Kept
<1>2. BusyIsLive'
    BY DEF MoversInv, MoversStay, BusyIsLive, Kept
<1>3. OneMover'
    BY DEF MoversInv, MoversStay, OneMover, Kept
<1>4. SlotsExact'
    BY SlotsOfMovers, SlotsOfMoversNext DEF MoversInv, MoversStay, Kept, StoppedOnly
<1> QED BY <1>1, <1>2, <1>3, <1>4 DEF MoversInv

\* New movers have a sector that nothing moves, or one behind a manual line.
LEMMA ComeKeeps ==
    ASSUME MoversInv, NEW S, NEW at, NEW ty, MoversComeTo(S, at, ty)
    PROVE  MoversInv'
<1> USE MoverThinkersAre
<1>0. \A s \in S : at[s] \in Thinker /\ at[s] \notin MoverThinkers /\ s \in Sector
    BY DEF MoversComeTo, Free
<1>1. Homes'
    BY <1>0 DEF MoversInv, MoversComeTo, Homes, Kept
<1>2. BusyIsLive'
    BY <1>0 DEF MoversInv, MoversComeTo, BusyIsLive, Kept
<1>3. OneMover'
    <2> SUFFICES ASSUME NEW t \in MoverThinkers', home'[t] \notin ManualOpen
                 PROVE  specialdata'[home'[t]] = t
        BY DEF OneMover
    <2>1. CASE \E s \in S : t = at[s]
        BY <1>0, <2>1 DEF MoversComeTo
    <2>2. CASE t \in MoverThinkers
        <3>1. home'[t] = home[t] /\ specialdata[home[t]] = t /\ home[t] \in Sector
            BY <2>2 DEF MoversInv, MoversComeTo, OneMover, Kept, Homes
        <3>2. t # None
            BY ThinkersFinite
        <3>3. home[t] \notin S
            BY <3>1, <3>2 DEF MoversComeTo
        <3> QED BY <3>1, <3>3 DEF MoversComeTo
    <2> QED BY <2>1, <2>2 DEF MoversComeTo
<1>4. SlotsExact'
    <2>1. plats' = {t \in MoverThinkers' : type'[t] \in Plats}
        BY <1>0, SlotsOfMovers DEF MoversInv, MoversComeTo, Kept, Plats
    <2>2. ceilings' = {t \in MoverThinkers' : type'[t] \in Ceilings}
        BY <1>0, SlotsOfMovers DEF MoversInv, MoversComeTo, Kept, Ceilings
    <2> QED BY <2>1, <2>2, SlotsOfMoversNext DEF MoversComeTo
<1> QED BY <1>1, <1>2, <1>3, <1>4 DEF MoversInv

\* Nothing else points to a mover that ends.
LEMMA GoKeeps ==
    ASSUME MoversInv, NEW t, MoverGoes(t), DOMAIN fn = Thinker
    PROVE  MoversInv'
<1> USE MoverThinkersAre
<1>0. t \in Thinker /\ fn' = [fn EXCEPT ![t] = "unlink"]
    BY DEF MoverGoes
<1>1. Homes'
    BY <1>0 DEF MoversInv, MoverGoes, Homes
<1>2. BusyIsLive'
    BY DEF MoversInv, MoverGoes, BusyIsLive
<1>3. OneMover'
    BY DEF MoversInv, MoverGoes, OneMover, Homes
<1>4. SlotsExact'
    BY <1>0, SlotsOfMovers, SlotsOfMoversNext DEF MoversInv, MoverGoes
<1> QED BY <1>1, <1>2, <1>3, <1>4 DEF MoversInv

\* A level that is loaded starts without movers.
LEMMA GoneKeeps ==
    ASSUME NoThinkers
    PROVE  MoversInv' /\ MoverThinkers' = {}
<1>1. MoverThinkers' = {}
    BY DEF NoThinkers, MoverThinkers, Live
<1>2. Homes' /\ BusyIsLive' /\ OneMover'
    BY <1>1 DEF NoThinkers, Homes, BusyIsLive, OneMover
<1>3. SlotsExact'
    BY <1>1, SlotsOfMoversNext DEF NoThinkers
<1> QED BY <1>1, <1>2, <1>3 DEF MoversInv

---------------------------------------------------------------------------
(* The same steps, seen as owners of sectors.                              *)

\* Movers that stay own what they owned.
LEMMA StayOwns ==
    ASSUME MoversInv, MoversStay
    PROVE  UNCHANGED Owners
<1>1. \A s \in Sector : {t \in MoverThinkers' : home'[t] = s} = {t \in MoverThinkers : home[t] = s}
    BY MoverThinkersAre DEF MoversStay, Kept
<1> QED BY <1>1 DEF Owners

\* New movers claim their sectors, those behind manual lines left aside.
LEMMA ComeOwns ==
    ASSUME MoversInv, NEW S, NEW at, NEW ty, MoversComeTo(S, at, ty)
    PROVE  Owner!Next \/ UNCHANGED Owners
<1> DEFINE T == S \ ManualOpen
           by == [s \in T |-> at[s]]
           Own == Sector \ ManualOpen
<1>1. /\ S \subseteq Sector
      /\ \A s \in S : at[s] \in Thinker /\ at[s] \notin MoverThinkers /\ at[s] \in MoverThinkers'
                        /\ home'[at[s]] = s
      /\ \A s, r \in S : at[s] = at[r] => s = r
      /\ \A t \in MoverThinkers : t \in MoverThinkers' /\ home'[t] = home[t]
      /\ \A t \in MoverThinkers' : t \in MoverThinkers \/ \E s \in S : t = at[s]
    BY MoverThinkersAre DEF MoversComeTo, Free, Kept
<1>2. \A s \in T : {t \in MoverThinkers : home[t] = s} = {}
    BY ThinkersFinite, MoverThinkersAre DEF MoversComeTo, MoversInv, OneMover
<1>3. \A s \in Own : {t \in MoverThinkers' : home'[t] = s} =
                        IF s \in T THEN {by[s]} ELSE {t \in MoverThinkers : home[t] = s}
    <2> TAKE s \in Own
    <2>1. CASE s \in T
        BY <1>1, <1>2, <2>1
    <2>2. CASE s \notin T
        BY <1>1, <2>2
    <2> QED BY <2>1, <2>2
<1>4. Owners' = [s \in Own |-> IF s \in T THEN {by[s]} ELSE Owners[s]]
    BY <1>3 DEF Owners
<1>5. CASE T = {}
    <2>1. Owners' = [s \in Own |-> Owners[s]]
        BY <1>4, <1>5
    <2> QED BY <2>1 DEF Owners
<1>6. CASE T # {}
    <2>1. T \in SUBSET Own /\ by \in [T -> Thinker]
        BY <1>1
    <2>2. \A s \in T : Owners[s] = {}
        BY <1>1, <1>2 DEF Owners
    <2>3. \A s \in T, r \in Own : by[s] \notin Owners[r]
        BY <1>1 DEF Owners
    <2>4. \A s, r \in T : by[s] = by[r] => s = r
        BY <1>1
    <2> HIDE DEF T, by
    <2>5. Owner!Claim
        BY <1>4, <1>6, <2>1, <2>2, <2>3, <2>4 DEF Owner!Claim
    <2> QED BY <2>5 DEF Owner!Next
<1> QED BY <1>5, <1>6

\* A mover that ends releases its sector.
LEMMA GoOwns ==
    ASSUME MoversInv, NEW t, MoverGoes(t)
    PROVE  Owner!Next \/ UNCHANGED Owners
<1> DEFINE Own == Sector \ ManualOpen
<1>1. /\ t \in MoverThinkers /\ home' = home
      /\ \A u : u \in MoverThinkers' <=> u \in MoverThinkers /\ u # t
    BY MoverThinkersAre DEF MoverGoes
<1>2. CASE home[t] \notin Own
    <2>1. \A s \in Own : {u \in MoverThinkers' : home'[u] = s} = {u \in MoverThinkers : home[u] = s}
        BY <1>1, <1>2
    <2> QED BY <2>1 DEF Owners
<1>3. CASE home[t] \in Own
    <2>1. \A u \in MoverThinkers : home[u] = home[t] => u = t
        BY <1>1, <1>3 DEF MoversInv, OneMover
    <2>2. \A s \in Own : {u \in MoverThinkers' : home'[u] = s} =
                            IF s = home[t] THEN {} ELSE {u \in MoverThinkers : home[u] = s}
        BY <1>1, <2>1
    <2>3. Owners' = [Owners EXCEPT ![home[t]] = {}]
        BY <2>2 DEF Owners
    <2>4. Owners[home[t]] # {}
        BY <1>1, <1>3 DEF Owners
    <2>5. Owner!Release
        BY <1>3, <2>3, <2>4 DEF Owner!Release
    <2> QED BY <2>5 DEF Owner!Next
<1> QED BY <1>2, <1>3

\* All sectors are released when the thinkers are freed.
LEMMA GoneOwns ==
    ASSUME MoverThinkers' = {}
    PROVE  Owner!Next
<1>1. Owners' = [s \in Sector \ ManualOpen |-> {}]
    BY DEF Owners
<1> QED BY <1>1 DEF Owner!Next, Owner!Reset

---------------------------------------------------------------------------
(* Steps of the list of thinkers.                                          *)

\* New thinkers of the sectors of S go to the end of the list.
LEMMA ListGrows ==
    ASSUME Shapes, Linked, NEW S \in SUBSET Sector, NEW at \in Where(S),
           list' = list \o InOrder(at)
    PROVE  /\ at \in [S -> Thinker] /\ at \in [S -> Free] /\ DOMAIN at = S
           /\ \A s \in S : at[s] \in Thinker /\ fn[at[s]] = "free"
           /\ \A s, r \in S : at[s] = at[r] => s = r
           /\ list' \in Seq(Thinker) /\ IsInjective(list')
           /\ Len(list) \in Nat /\ Len(list') \in Nat /\ Len(list') >= Len(list)
           /\ \A t : t \in ToSet(list') <=> t \in ToSet(list) \/ \E s \in S : t = at[s]
<1>1. at \in [S -> Free] /\ \A s, r \in S : at[s] = at[r] => s = r
    BY DEF Where
<1>2. \A s \in S : at[s] \in Thinker /\ fn[at[s]] = "free"
    BY <1>1 DEF Free
<1>3. S \subseteq Nat /\ IsFiniteSet(S)
    BY SectorsAreNumbers, FS_Subset
<1>4. at \in [S -> Thinker]
    BY <1>1, <1>2
<1>5. /\ InOrder(at) \in Seq(Thinker)
      /\ IsInjective(InOrder(at))
      /\ Range(InOrder(at)) = {at[s] : s \in S}
    BY <1>1, <1>3, <1>4, InOrderList
<1>6. list \in Seq(Thinker) /\ IsInjective(list) /\ Range(list) = ToSet(list)
    BY DEF Shapes, Linked, Range, ToSet
<1>7. Range(list) \cap Range(InOrder(at)) = {}
    BY <1>2, <1>5, <1>6 DEF Linked
<1>8. /\ list' \in Seq(Thinker) /\ IsInjective(list')
      /\ Range(list') = Range(list) \cup Range(InOrder(at))
      /\ Len(list') = Len(list) + Len(InOrder(at))
    BY <1>5, <1>6, <1>7, ConcatList
<1>9. Range(list') = ToSet(list')
    BY DEF Range, ToSet
<1>10. Len(list) \in Nat /\ Len(InOrder(at)) \in Nat
    BY <1>5, <1>6
<1> QED BY <1>1, <1>2, <1>4, <1>5, <1>6, <1>8, <1>9, <1>10

\* The list grows by one new thinker.
LEMMA ListGrowsByOne ==
    ASSUME Shapes, Linked, NEW t \in Free, list' = Append(list, t)
    PROVE  /\ t \in Thinker /\ fn[t] = "free"
           /\ list' \in Seq(Thinker) /\ IsInjective(list')
           /\ Len(list) \in Nat /\ Len(list') = Len(list) + 1
           /\ \A u : u \in ToSet(list') <=> u \in ToSet(list) \/ u = t
<1>1. t \in Thinker /\ fn[t] = "free"
    BY DEF Free
<1>2. list \in Seq(Thinker) /\ IsInjective(list) /\ Range(list) = ToSet(list)
    BY DEF Shapes, Linked, Range, ToSet
<1>3. t \notin Range(list)
    BY <1>1, <1>2 DEF Linked
<1>4. /\ list' \in Seq(Thinker) /\ IsInjective(list') /\ Range(list') = Range(list) \cup {t}
    BY <1>1, <1>2, <1>3, AppendList
<1>5. Range(list') = ToSet(list')
    BY DEF Range, ToSet
<1>6. Len(list) \in Nat /\ Len(list') = Len(list) + 1
    BY <1>1, <1>2
<1> QED BY <1>1, <1>2, <1>4, <1>5, <1>6

\* The list loses the thinker at the cursor.
LEMMA ListShrinks ==
    ASSUME Shapes, Linked, NEW t \in Thinker, AtTurn(t), list' = RemoveAt(list, cursor)
    PROVE  /\ list' \in Seq(Thinker) /\ IsInjective(list')
           /\ Len(list) \in Nat /\ Len(list') = Len(list) - 1
           /\ cursor \in 1 .. Len(list)
           /\ \A u : u \in ToSet(list') <=> u \in ToSet(list) /\ u # t
<1>1. list \in Seq(Thinker) /\ IsInjective(list) /\ Range(list) = ToSet(list)
    BY DEF Shapes, Linked, Range, ToSet
<1>2. Len(list) \in Nat /\ cursor \in 1 .. Len(list) /\ list[cursor] = t
    BY <1>1 DEF Shapes, AtTurn
<1>3. /\ list' \in Seq(Thinker) /\ IsInjective(list') /\ Range(list') = Range(list) \ {t}
    BY <1>1, <1>2, RemoveList
<1>4. Range(list') = ToSet(list')
    BY DEF Range, ToSet
<1>5. Len(list') = Len(list) - 1
    BY <1>1, <1>2, RemoveList
<1> QED BY <1>1, <1>2, <1>3, <1>4, <1>5

---------------------------------------------------------------------------
(* The steps.  Every one is of one of the four kinds and keeps the rest.   *)

\* What is not about movers.
Rest == Shapes /\ Linked /\ Watched /\ Records

\* What a step is to the movers.
Kind ==
    \/ MoversStay
    \/ \E S, at, ty : MoversComeTo(S, at, ty)
    \/ \E t : MoverGoes(t)
    \/ NoThinkers

\* Outside of loading there is no record.
LEMMA NoRecords ==
    ASSUME file' = <<>>
    PROVE  Records' /\ file' \in Seq(ToSet(file'))
<1>1. Len(file') = 0 /\ file' \in Seq(ToSet(file'))
    BY EmptySeq
<1> QED BY <1>1 DEF Records

\* Sectors behind a manual line are moved by doors only.
LEMMA ManualLine ==
    ASSUME Shapes, NEW line \in lines, NEW s \in ManualRaise, TagOf[s] = line[1]
    PROVE  line[2] \notin (Movers \ Doors) \cup {"stairs"}
BY ManualSectorsAreDoors DEF Shapes

\* The thinker a macro waits for stays one it may wait for.
LEMMA MovedStaysWatched ==
    ASSUME Shapes, Watched, watch' = watch,
           \A t \in Live : t \in Live' /\ type'[t] = type[t]
    PROVE  Watched'
BY DEF Watched

\* The kinds of thinkers are disjoint.
LEMMA TypeSets ==
    /\ Movers \cap (LightTypes \cup {"combine", "timer", "none"}) = {}
    /\ Doors \subseteq Movers /\ Plats \subseteq Movers /\ Ceilings \subseteq Movers
    /\ Floors \subseteq Movers
    /\ Doors \cap Plats = {} /\ Doors \cap Ceilings = {} /\ Plats \cap Ceilings = {}
    /\ Floors \cap Plats = {} /\ Floors \cap Ceilings = {}
BY DEF Movers, LightTypes, Doors, Plats, Ceilings, Floors

\* AddThinkers links new thinkers and leaves all others as they are.
LEMMA AddThinkersStep ==
    ASSUME Shapes, Linked, NEW S \in SUBSET Sector, NEW at \in Where(S),
           NEW ty, NEW start, NEW before, NEW by,
           AddThinkers(at, ty, start, before, by)
    PROVE  /\ at \in [S -> Free] /\ DOMAIN at = S /\ list' \in Seq(Thinker)
           /\ Len(list) \in Nat /\ Len(list') \in Nat /\ Len(list') >= Len(list)
           /\ \A s, r \in S : at[s] = at[r] => s = r
           /\ \A s \in S : /\ at[s] \in Thinker /\ fn[at[s]] = "free" /\ fn'[at[s]] = "run"
                            /\ type'[at[s]] = ty /\ home'[at[s]] = s
           /\ \A t \in Thinker : (\A s \in S : t # at[s]) =>
                /\ fn'[t] = fn[t] /\ type'[t] = type[t] /\ move'[t] = move[t]
                /\ home'[t] = home[t]
           /\ fn' \in [Thinker -> {"run", "stasis", "unlink", "free"}]
           /\ DOMAIN type' = Thinker /\ DOMAIN move' = Thinker /\ DOMAIN old' = Thinker
           /\ DOMAIN peer' = Thinker
           /\ home' \in [Thinker -> Sector \cup {None}]
           /\ Linked'
<1>1. list' = list \o InOrder(at)
    BY DEF AddThinkers
<1>2. /\ at \in [S -> Thinker] /\ at \in [S -> Free] /\ DOMAIN at = S
      /\ \A s \in S : at[s] \in Thinker /\ fn[at[s]] = "free"
      /\ \A s, r \in S : at[s] = at[r] => s = r
      /\ list' \in Seq(Thinker) /\ IsInjective(list')
      /\ Len(list) \in Nat /\ Len(list') \in Nat /\ Len(list') >= Len(list)
      /\ \A t : t \in ToSet(list') <=> t \in ToSet(list) \/ \E s \in S : t = at[s]
    BY <1>1, ListGrows
<1> DEFINE new == {at[s] : s \in S}
<1>3. /\ fn' = [t \in Thinker |-> IF t \in new THEN "run" ELSE fn[t]]
      /\ type' = [t \in Thinker |-> IF t \in new THEN ty ELSE type[t]]
      /\ move' = [t \in Thinker |-> IF t \in new THEN start ELSE move[t]]
      /\ old' = [t \in Thinker |-> IF t \in new THEN before ELSE old[t]]
      /\ home' = [t \in Thinker |->
                    IF t \in new THEN CHOOSE s \in S : at[s] = t ELSE home[t]]
      /\ peer' = [t \in Thinker |-> IF t \in new THEN by ELSE peer[t]]
    BY <1>2 DEF AddThinkers
<1>4. \A t : t \in new <=> \E s \in S : t = at[s]
    OBVIOUS
<1> HIDE DEF new
<1>5. \A s \in S : (CHOOSE r \in S : at[r] = at[s]) = s
    BY <1>2
<1>6. \A s \in S : fn'[at[s]] = "run" /\ type'[at[s]] = ty /\ home'[at[s]] = s
    BY <1>2, <1>3, <1>4, <1>5
<1>7. \A t \in Thinker : (\A s \in S : t # at[s]) =>
            /\ fn'[t] = fn[t] /\ type'[t] = type[t] /\ move'[t] = move[t] /\ home'[t] = home[t]
    BY <1>3, <1>4
<1>8. /\ fn' \in [Thinker -> {"run", "stasis", "unlink", "free"}]
      /\ home' \in [Thinker -> Sector \cup {None}]
    <2>1. \A t \in Thinker : home'[t] \in Sector \cup {None}
        BY <1>2, <1>4, <1>6, <1>7 DEF Shapes
    <2> QED BY <1>3, <2>1 DEF Shapes
<1>9. Linked'
    <2>1. \A t \in Thinker : t \in ToSet(list') <=> fn'[t] # "free"
        BY <1>2, <1>3, <1>4 DEF Linked
    <2> QED BY <1>2, <2>1 DEF Linked
<1> QED BY <1>2, <1>3, <1>6, <1>7, <1>8, <1>9

\* Doors, floors, split sectors and stairs: new movers without a slot.
LEMMA AddMoversStep ==
    ASSUME IInv, NEW S \in SUBSET Sector, NEW at \in Where(S),
           NEW ty \in Doors \cup Floors, NEW start, NEW before, NEW by,
           AddThinkers(at, ty, start, before, by), Claims(at),
           \A s \in S : specialdata[s] = None \/ s \in ManualOpen,
           \A s \in S : s \in ManualRaise => ty \in Doors,
           UNCHANGED <<cursor, watch, plats, ceilings, lightVars, file>>,
           lines' \subseteq lines, file = <<>>
    PROVE  Kind /\ Rest'
<1>1. Shapes /\ Linked /\ Watched /\ MoversInv
    BY DEF IInv
<1>2. /\ at \in [S -> Free] /\ DOMAIN at = S /\ list' \in Seq(Thinker)
      /\ Len(list) \in Nat /\ Len(list') \in Nat /\ Len(list') >= Len(list)
      /\ \A s, r \in S : at[s] = at[r] => s = r
      /\ \A s \in S : /\ at[s] \in Thinker /\ fn[at[s]] = "free" /\ fn'[at[s]] = "run"
                       /\ type'[at[s]] = ty /\ home'[at[s]] = s
      /\ \A t \in Thinker : (\A s \in S : t # at[s]) =>
           /\ fn'[t] = fn[t] /\ type'[t] = type[t] /\ move'[t] = move[t]
           /\ home'[t] = home[t]
      /\ fn' \in [Thinker -> {"run", "stasis", "unlink", "free"}]
      /\ DOMAIN type' = Thinker /\ DOMAIN move' = Thinker /\ DOMAIN old' = Thinker
      /\ DOMAIN peer' = Thinker
      /\ home' \in [Thinker -> Sector \cup {None}]
      /\ Linked'
    BY <1>1, AddThinkersStep
<1>3. \A t \in Live : t \in Thinker /\ fn'[t] = fn[t] /\ type'[t] = type[t] /\ home'[t] = home[t]
                       /\ t \in Live'
    BY <1>2 DEF Live
<1>4. ty \in Movers /\ ty \notin Plats /\ ty \notin Ceilings /\ ty # "timer"
    BY TypeSets
<1>5. specialdata' = [s \in Sector |-> IF s \in S THEN at[s] ELSE specialdata[s]]
    BY <1>2 DEF Claims
<1>6. MoversComeTo(S, at, ty)
    <2>1. \A s \in S : at[s] \in MoverThinkers'
        BY <1>2, <1>4 DEF MoverThinkers, Live
    <2>2. \A t \in Thinker : t \in MoverThinkers' <=>
                t \in MoverThinkers \/ \E s \in S : t = at[s]
        BY <1>2, <1>3, <2>1 DEF MoverThinkers, Live
    <2>3. \A t \in MoverThinkers : Kept(t)
        BY <1>3 DEF MoverThinkers, Kept
    <2>4. \A t \in Thinker : fn'[t] = "free" \/ type'[t] = "timer" => home'[t] = None
        BY <1>1, <1>2, <1>4 DEF MoversInv, Homes
    <2>5. \A t \in Thinker : fn'[t] = "stasis" => t \in plats' \cup ceilings' /\ move'[t] = "stasis"
        BY <1>1, <1>2 DEF MoversInv, SlotsExact
    <2> QED BY <1>2, <1>4, <1>5, <2>1, <2>2, <2>3, <2>4, <2>5 DEF MoversComeTo
<1>7. Watched'
    BY <1>1, <1>3, MovedStaysWatched
<1>8. file' = <<>>
    OBVIOUS
<1>9. Shapes'
    <2>1. specialdata' \in [Sector -> Thinker \cup {None}]
        BY <1>1, <1>2, <1>5 DEF Shapes
    <2>2. cursor' \in 0 .. Len(list')
        BY <1>1, <1>2 DEF Shapes
    <2>3. special' \in [Sector -> LightTypes \cup {"none"}] /\ todo' \subseteq Sector
        BY <1>1 DEF Shapes, lightVars
    <2>4. \E map \in Maps : lines' \subseteq map
        BY <1>1 DEF Shapes
    <2>5. watch' \in Thinker \cup {None}
        BY <1>1 DEF Shapes
    <2> QED BY <1>2, <1>8, <2>1, <2>2, <2>3, <2>4, <2>5, NoRecords DEF Shapes
<1> QED BY <1>2, <1>6, <1>7, <1>8, <1>9, NoRecords DEF Kind, Rest

\* Lights: new thinkers that move nothing.
LEMMA AddLightsStep ==
    ASSUME IInv, NEW S \in SUBSET Sector, NEW at \in Where(S),
           NEW ty \in LightTypes \cup {"combine"}, NEW start, NEW before, NEW by,
           AddThinkers(at, ty, start, before, by),
           UNCHANGED <<moverVars, watch, file>>,
           file = <<>>, cursor' \in 0 .. Len(list'),
           special' \in [Sector -> LightTypes \cup {"none"}], todo' \subseteq Sector
    PROVE  MoversStay /\ Rest'
<1>1. Shapes /\ Linked /\ Watched /\ MoversInv
    BY DEF IInv
<1>2. /\ at \in [S -> Free] /\ DOMAIN at = S /\ list' \in Seq(Thinker)
      /\ \A s \in S : /\ at[s] \in Thinker /\ fn[at[s]] = "free" /\ fn'[at[s]] = "run"
                       /\ type'[at[s]] = ty /\ home'[at[s]] = s
      /\ \A t \in Thinker : (\A s \in S : t # at[s]) =>
           /\ fn'[t] = fn[t] /\ type'[t] = type[t] /\ move'[t] = move[t]
           /\ home'[t] = home[t]
      /\ fn' \in [Thinker -> {"run", "stasis", "unlink", "free"}]
      /\ DOMAIN type' = Thinker /\ DOMAIN move' = Thinker /\ DOMAIN old' = Thinker
      /\ DOMAIN peer' = Thinker
      /\ home' \in [Thinker -> Sector \cup {None}]
      /\ Linked'
    BY <1>1, AddThinkersStep
<1>3. \A t \in Live : t \in Thinker /\ fn'[t] = fn[t] /\ type'[t] = type[t] /\ home'[t] = home[t]
                       /\ t \in Live'
    BY <1>2 DEF Live
<1>4. ty \notin Movers /\ ty # "timer"
    BY TypeSets DEF LightTypes
<1>5. MoversStay
    <2>1. \A t \in Thinker : t \in MoverThinkers' <=> t \in MoverThinkers
        BY <1>2, <1>3, <1>4 DEF MoverThinkers, Live
    <2>2. \A t \in MoverThinkers : Kept(t)
        BY <1>3 DEF MoverThinkers, Kept
    <2>3. \A t \in Thinker : fn'[t] = "free" \/ type'[t] = "timer" => home'[t] = None
        BY <1>1, <1>2, <1>4 DEF MoversInv, Homes
    <2>4. StoppedOnly
        BY <1>1, <1>2 DEF MoversInv, SlotsExact, StoppedOnly
    <2> QED BY <2>1, <2>2, <2>3, <2>4 DEF MoversStay, moverVars
<1>6. Watched'
    BY <1>1, <1>3, MovedStaysWatched
<1>7. file' = <<>>
    OBVIOUS
<1>8. Shapes'
    <2>1. /\ specialdata' \in [Sector -> Thinker \cup {None}]
          /\ \E map \in Maps : lines' \subseteq map
          /\ watch' \in Thinker \cup {None}
        BY <1>1 DEF Shapes, moverVars
    <2> QED BY <1>2, <1>7, <2>1, NoRecords DEF Shapes
<1> QED BY <1>2, <1>5, <1>6, <1>7, <1>8, NoRecords DEF Rest

\* A new mover of a kind without a slot for the tagged sectors nothing moves.
LEMMA NewMoversStep ==
    ASSUME IInv, Idle, NEW line \in lines, line[2] \in Doors \cup Floors,
           NewMovers(line[1], line[2]), UNCHANGED <<lightVars, file>>
    PROVE  Kind /\ Rest'
<1> DEFINE S == Unclaimed(Tagged(line[1]))
<1>1. PICK at \in Where(S), start \in Start(line[2]) :
            /\ AddThinkers(at, line[2], start, "none", None)
            /\ Claims(at)
    BY DEF NewMovers
<1>2. UNCHANGED <<cursor, watch, plats, ceilings, lines>> /\ file = <<>>
    BY DEF NewMovers, Idle
<1>3. S \in SUBSET Sector /\ \A s \in S : specialdata[s] = None /\ TagOf[s] = line[1]
    BY DEF Unclaimed, Tagged
<1>4. \A s \in S : s \in ManualRaise => line[2] \in Doors
    BY <1>3, ManualLine, TypeSets DEF IInv
<1> HIDE DEF S
<1> QED BY <1>1, <1>2, <1>3, <1>4, AddMoversStep

\* A flight of stairs: a floor in each sector of it.
LEMMA StairsStep ==
    ASSUME IInv, Idle, NEW line \in lines, line[2] = "stairs",
           EV_BuildStairs(line[1]), UNCHANGED <<lightVars, file>>
    PROVE  Kind /\ Rest'
<1>1. PICK S \in SUBSET Unclaimed(Sector) :
        /\ \A s \in S \ Tagged(line[1]) : \E r \in S : s \in Stair[r]
        /\ \E at \in Where(S) :
            /\ AddThinkers(at, "floor", "moving", "none", None)
            /\ Claims(at)
        /\ UNCHANGED <<cursor, watch, plats, ceilings, lines>>
    BY DEF EV_BuildStairs
<1>2. PICK at \in Where(S) : AddThinkers(at, "floor", "moving", "none", None) /\ Claims(at)
    BY <1>1
<1>3. S \in SUBSET Sector /\ \A s \in S : specialdata[s] = None
    BY DEF Unclaimed
<1>4. \A s \in S : s \notin ManualRaise
    <2> SUFFICES ASSUME NEW s \in S, s \in ManualRaise PROVE FALSE
        OBVIOUS
    <2>1. CASE s \in Tagged(line[1])
        BY <2>1, ManualLine DEF Tagged, IInv
    <2>2. CASE s \notin Tagged(line[1])
        BY <1>1, <1>3, <2>2, ManualSectorsAreDoors
    <2> QED BY <2>1, <2>2
<1>5. file = <<>> /\ "floor" \in Doors \cup Floors
    BY DEF Idle, Floors
<1> QED BY <1>1, <1>2, <1>3, <1>4, <1>5, AddMoversStep

\* A manual line that opens a door for good, even where one is moving.
LEMMA VerticalOpenStep ==
    ASSUME IInv, Idle, NEW s \in Sector, EV_VerticalDoorOpen(s), UNCHANGED <<lightVars, file>>
    PROVE  Kind /\ Rest'
<1>1. PICK at \in Where({s}) : AddThinkers(at, "open", "up", "none", None) /\ Claims(at)
    BY DEF EV_VerticalDoorOpen
<1>2. /\ s \in ManualOpen /\ lines' \subseteq lines
      /\ UNCHANGED <<cursor, watch, plats, ceilings>>
    BY DEF EV_VerticalDoorOpen
<1>3. file = <<>> /\ "open" \in Doors
    BY DEF Idle, Doors
<1>4. {s} \in SUBSET Sector /\ \A r \in {s} : r \in ManualOpen
    BY <1>2
<1> QED BY <1>1, <1>2, <1>3, <1>4, AddMoversStep

\* A step of the movers' fields that changes no list, function, type or sector.
LEMMA TurnStep ==
    ASSUME IInv, file = <<>>, UNCHANGED <<list, fn, type, home, watch, specialdata, plats, ceilings, file>>,
           cursor' \in 0 .. Len(list), DOMAIN move' = Thinker, DOMAIN old' = Thinker,
           DOMAIN peer' = Thinker, \A t \in Thinker : fn[t] = "stasis" => move'[t] = move[t],
           special' \in [Sector -> LightTypes \cup {"none"}], todo' \subseteq Sector,
           lines' \subseteq lines
    PROVE  MoversStay /\ Rest'
<1>1. Shapes /\ Linked /\ Watched /\ MoversInv
    BY DEF IInv
<1>2. MoversStay
    <2>1. \A t \in Thinker : t \in MoverThinkers' <=> t \in MoverThinkers
        BY DEF MoverThinkers, Live
    <2>2. \A t \in MoverThinkers : Kept(t)
        BY DEF Kept
    <2>3. \A t \in Thinker : fn'[t] = "free" \/ type'[t] = "timer" => home'[t] = None
        BY <1>1 DEF MoversInv, Homes
    <2>4. StoppedOnly
        BY <1>1 DEF MoversInv, SlotsExact, StoppedOnly
    <2> QED BY <2>1, <2>2, <2>3, <2>4 DEF MoversStay
<1>3. Watched'
    BY <1>1 DEF Watched, Live
<1>4. Linked'
    BY <1>1 DEF Linked
<1>5. file' = <<>>
    OBVIOUS
<1>6. Shapes'
    <2>1. \E map \in Maps : lines' \subseteq map
        BY <1>1 DEF Shapes
    <2> QED BY <1>1, <1>5, <2>1, NoRecords DEF Shapes
<1> QED BY <1>2, <1>3, <1>4, <1>5, <1>6, NoRecords DEF Rest

\* A manual line turns round the door it finds, which is no stopped plat.
LEMMA VerticalRaiseStep ==
    ASSUME IInv, Idle, NEW s \in Sector, NEW player, EV_VerticalDoorRaise(s, player),
           UNCHANGED <<lightVars, file>>
    PROVE  Kind /\ Rest'
<1>1. s \in ManualRaise /\ UNCHANGED <<cursor, watch, plats, ceilings, lines>> /\ file = <<>>
    BY DEF EV_VerticalDoorRaise, Idle
<1>2. CASE specialdata[s] # None
    <2>1. UNCHANGED <<list, fn, type, old, home, peer, specialdata>>
        BY <1>2 DEF EV_VerticalDoorRaise
    <2>2. \E m : move' = [move EXCEPT ![specialdata[s]] = m]
        BY <1>2 DEF EV_VerticalDoorRaise
    <2>3. fn[specialdata[s]] # "stasis"
        <3>1. specialdata[s] \in MoverThinkers /\ home[specialdata[s]] = s
            BY <1>2 DEF IInv, MoversInv, BusyIsLive
        <3>2. type[specialdata[s]] \in Doors
            BY <1>1, <3>1 DEF IInv, MoversInv, Homes
        <3>3. specialdata[s] \notin plats \cup ceilings
            BY <3>2, TypeSets DEF IInv, MoversInv, SlotsExact
        <3> QED BY <3>1, <3>3, MoverThinkersAre DEF IInv, MoversInv, SlotsExact
    <2>4. DOMAIN move' = Thinker /\ \A t \in Thinker : fn[t] = "stasis" => move'[t] = move[t]
        BY <2>2, <2>3 DEF IInv, Shapes
    <2>5. /\ cursor' \in 0 .. Len(list)
          /\ special' \in [Sector -> LightTypes \cup {"none"}] /\ todo' \subseteq Sector
          /\ DOMAIN old' = Thinker /\ DOMAIN peer' = Thinker /\ lines' \subseteq lines
        BY <1>1, <2>1 DEF IInv, Shapes, lightVars
    <2> QED BY <1>1, <2>1, <2>4, <2>5, TurnStep DEF Kind
<1>3. CASE specialdata[s] = None
    <2>1. PICK at \in Where({s}) : AddThinkers(at, "raise", "up", "none", None) /\ Claims(at)
        BY <1>3 DEF EV_VerticalDoorRaise
    <2>2. {s} \in SUBSET Sector /\ (\A r \in {s} : specialdata[r] = None) /\ "raise" \in Doors
        BY <1>3 DEF Doors
    <2> QED BY <1>1, <2>1, <2>2, AddMoversStep
<1> QED BY <1>2, <1>3

\* Plats and ceilings: new ones for the tagged sectors nothing moves, and again
\* those that were stopped.
LEMMA NewActiveStep ==
    ASSUME IInv, Idle, NEW line \in lines, NEW ty \in Plats \cup Ceilings, line[2] = ty,
           NEW again \in SUBSET Live, NEW table, NEW max,
           NewActive(line[1], ty, again, table, max), UNCHANGED <<lightVars, file>>
    PROVE  Kind /\ Rest'
<1> DEFINE S == Unclaimed(Tagged(line[1]))
<1>0. Shapes /\ Linked /\ Watched /\ MoversInv
    BY DEF IInv
<1>1. PICK at \in Where(S), start \in Start(ty) :
            LET new == {at[s] : s \in S}
            IN /\ list' = list \o InOrder(at)
               /\ fn' = [t \in Thinker |->
                            IF t \in new \cup again THEN "run" ELSE fn[t]]
               /\ type' = [t \in Thinker |-> IF t \in new THEN ty ELSE type[t]]
               /\ move' = [t \in Thinker |-> IF t \in new THEN start
                                             ELSE IF t \in again THEN old[t]
                                             ELSE move[t]]
               /\ home' = [t \in Thinker |->
                            IF t \in new THEN CHOOSE s \in S : at[s] = t
                                         ELSE home[t]]
               /\ Claims(at)
               /\ plats' = IF ty \in Plats THEN plats \cup new ELSE plats
               /\ ceilings' = IF ty \in Ceilings THEN ceilings \cup new ELSE ceilings
    BY DEF NewActive
<1>2. UNCHANGED <<cursor, watch, old, peer, lines, lightVars, file>> /\ file = <<>>
    BY DEF NewActive, Idle
<1>3. S \in SUBSET Sector /\ \A s \in S : specialdata[s] = None /\ TagOf[s] = line[1]
    BY DEF Unclaimed, Tagged
<1>4. \A s \in S : s \in ManualRaise => ty \in Doors
    BY <1>0, <1>3, ManualLine, TypeSets
<1>5. ty \in Movers /\ ty # "timer"
    BY TypeSets
<1> HIDE DEF S
<1>6. /\ at \in [S -> Thinker] /\ at \in [S -> Free] /\ DOMAIN at = S
      /\ \A s \in S : at[s] \in Thinker /\ fn[at[s]] = "free"
      /\ \A s, r \in S : at[s] = at[r] => s = r
      /\ list' \in Seq(Thinker) /\ IsInjective(list')
      /\ Len(list) \in Nat /\ Len(list') \in Nat /\ Len(list') >= Len(list)
      /\ \A t : t \in ToSet(list') <=> t \in ToSet(list) \/ \E s \in S : t = at[s]
    <2>1. list' = list \o InOrder(at)
        BY <1>1
    <2>2. S \in SUBSET Sector
        BY <1>3
    <2> QED BY <1>0, <2>1, <2>2, ListGrows
<1> DEFINE new == {at[s] : s \in S}
<1>7. \A t : t \in new <=> \E s \in S : t = at[s]
    OBVIOUS
<1>8. /\ fn' = [t \in Thinker |-> IF t \in new \cup again THEN "run" ELSE fn[t]]
      /\ type' = [t \in Thinker |-> IF t \in new THEN ty ELSE type[t]]
      /\ move' = [t \in Thinker |-> IF t \in new THEN start
                                     ELSE IF t \in again THEN old[t] ELSE move[t]]
      /\ home' = [t \in Thinker |->
                    IF t \in new THEN CHOOSE s \in S : at[s] = t ELSE home[t]]
      /\ plats' = IF ty \in Plats THEN plats \cup new ELSE plats
      /\ ceilings' = IF ty \in Ceilings THEN ceilings \cup new ELSE ceilings
    BY <1>1
<1>9. specialdata' = [s \in Sector |-> IF s \in S THEN at[s] ELSE specialdata[s]]
    BY <1>1, <1>6 DEF Claims
<1>10. plats' = IF ty \in Plats THEN plats \cup {at[s] : s \in S} ELSE plats
    BY <1>8
<1>11. ceilings' = IF ty \in Ceilings THEN ceilings \cup {at[s] : s \in S} ELSE ceilings
    BY <1>8
<1> HIDE DEF new
<1>12. \A s \in S : (CHOOSE r \in S : at[r] = at[s]) = s
    BY <1>6
<1>13. \A s \in S : fn'[at[s]] = "run" /\ type'[at[s]] = ty /\ home'[at[s]] = s
    BY <1>6, <1>7, <1>8, <1>12
<1>14. \A t \in Thinker : (\A s \in S : t # at[s]) =>
            /\ type'[t] = type[t] /\ home'[t] = home[t]
            /\ fn'[t] = IF t \in again THEN "run" ELSE fn[t]
            /\ t \notin again => move'[t] = move[t]
    BY <1>7, <1>8
<1>15. \A t \in Live : t \in Thinker /\ t \in Live' /\ type'[t] = type[t] /\ home'[t] = home[t]
    BY <1>6, <1>14 DEF Live
<1>16. MoversComeTo(S, at, ty)
    <2>1. \A s \in S : at[s] \in MoverThinkers'
        BY <1>5, <1>6, <1>13 DEF MoverThinkers, Live
    <2>2. \A t \in Thinker : t \in MoverThinkers' <=>
                t \in MoverThinkers \/ \E s \in S : t = at[s]
        <3> TAKE t \in Thinker
        <3>1. CASE \E s \in S : t = at[s]
            BY <2>1, <3>1
        <3>2. CASE \A s \in S : t # at[s]
            BY <1>14, <3>2 DEF MoverThinkers, Live
        <3> QED BY <3>1, <3>2
    <2>3. \A t \in MoverThinkers : Kept(t)
        BY <1>15 DEF MoverThinkers, Kept
    <2>4. \A t \in Thinker : fn'[t] = "free" \/ type'[t] = "timer" => home'[t] = None
        <3> TAKE t \in Thinker
        <3>1. CASE \E s \in S : t = at[s]
            BY <1>5, <1>13, <3>1
        <3>2. CASE \A s \in S : t # at[s]
            BY <1>0, <1>14, <3>2 DEF MoversInv, Homes
        <3> QED BY <3>1, <3>2
    <2>5. \A t \in Thinker : fn'[t] = "stasis" => t \in plats' \cup ceilings' /\ move'[t] = "stasis"
        <3> TAKE t \in Thinker
        <3>1. CASE \E s \in S : t = at[s]
            BY <1>13, <3>1
        <3>2. CASE \A s \in S : t # at[s]
            BY <1>0, <1>8, <1>14, <3>2 DEF MoversInv, SlotsExact
        <3> QED BY <3>1, <3>2
    <2>6. \A s \in S : specialdata[s] = None \/ s \in ManualOpen
        BY <1>3
    <2> QED BY <1>3, <1>4, <1>5, <1>6, <1>9, <1>10, <1>11, <1>13, <2>1, <2>2, <2>3, <2>4, <2>5, <2>6
            DEF MoversComeTo
<1>17. Linked'
    <2>1. \A t \in Thinker : t \in ToSet(list') <=> fn'[t] # "free"
        BY <1>0, <1>6, <1>13, <1>14 DEF Linked, Live
    <2> QED BY <1>6, <2>1 DEF Linked
<1>18. Watched'
    BY <1>0, <1>2, <1>15, MovedStaysWatched
<1>19. Shapes'
    <2>1. specialdata' \in [Sector -> Thinker \cup {None}]
        BY <1>0, <1>6, <1>9 DEF Shapes
    <2>2. cursor' \in 0 .. Len(list')
        BY <1>0, <1>2, <1>6 DEF Shapes
    <2>3. home' \in [Thinker -> Sector \cup {None}]
        <3>1. \A t \in Thinker : home'[t] \in Sector \cup {None}
            BY <1>0, <1>3, <1>13, <1>14 DEF Shapes
        <3> QED BY <1>8, <3>1
    <2>4. fn' \in [Thinker -> {"run", "stasis", "unlink", "free"}]
        BY <1>0, <1>8 DEF Shapes
    <2>5. DOMAIN type' = Thinker /\ DOMAIN move' = Thinker
        BY <1>8
    <2>6. /\ special' \in [Sector -> LightTypes \cup {"none"}] /\ todo' \subseteq Sector
          /\ watch' \in Thinker \cup {None} /\ DOMAIN old' = Thinker /\ DOMAIN peer' = Thinker
          /\ \E map \in Maps : lines' \subseteq map
        BY <1>0, <1>2 DEF Shapes, lightVars
    <2> QED BY <1>2, <1>6, <2>1, <2>2, <2>3, <2>4, <2>5, <2>6, NoRecords DEF Shapes
<1> QED BY <1>2, <1>16, <1>17, <1>18, <1>19, NoRecords DEF Kind, Rest

\* Plats or ceilings are stopped: they keep their sectors and their slots.
LEMMA StopStep ==
    ASSUME IInv, Idle, NEW tag, NEW table \in {plats, ceilings}, EV_Stop(tag, table),
           UNCHANGED <<lightVars, file>>
    PROVE  Kind /\ Rest'
<1> DEFINE S == {t \in table : TagOf[home[t]] = tag /\ move[t] # "stasis"}
<1>0. Shapes /\ Linked /\ Watched /\ MoversInv
    BY DEF IInv
<1>1. /\ old' = [t \in Thinker |-> IF t \in S THEN move[t] ELSE old[t]]
      /\ move' = [t \in Thinker |-> IF t \in S THEN "stasis" ELSE move[t]]
      /\ fn' = [t \in Thinker |-> IF t \in S THEN "stasis" ELSE fn[t]]
      /\ UNCHANGED <<list, cursor, type, home, peer, watch, moverVars>>
    BY DEF EV_Stop
<1>2. S \subseteq plats \cup ceilings /\ S \subseteq Live /\ S \subseteq Thinker
    BY <1>0 DEF MoversInv, SlotsExact, Live
<1> HIDE DEF S
<1>3. \A t \in Thinker : t \in Live' <=> t \in Live
    BY <1>1, <1>2 DEF Live
<1>4. MoversStay
    <2>1. \A t \in Thinker : t \in MoverThinkers' <=> t \in MoverThinkers
        BY <1>1, <1>3 DEF MoverThinkers
    <2>2. \A t \in MoverThinkers : Kept(t)
        BY <1>1 DEF Kept
    <2>3. \A t \in Thinker : fn'[t] = "free" \/ type'[t] = "timer" => home'[t] = None
        BY <1>0, <1>1 DEF MoversInv, Homes
    <2>4. StoppedOnly
        BY <1>0, <1>1, <1>2 DEF MoversInv, SlotsExact, StoppedOnly
    <2> QED BY <1>1, <2>1, <2>2, <2>3, <2>4 DEF MoversStay, moverVars
<1>5. Watched'
    BY <1>0, <1>1, <1>3, MovedStaysWatched DEF Live
<1>6. Linked'
    BY <1>0, <1>1, <1>2 DEF Linked, Live
<1>7. file' = <<>>
    BY DEF Idle
<1>8. Shapes'
    <2>1. fn' \in [Thinker -> {"run", "stasis", "unlink", "free"}]
        BY <1>0, <1>1 DEF Shapes
    <2> QED BY <1>0, <1>1, <1>7, <2>1, NoRecords DEF Shapes, moverVars, lightVars
<1> QED BY <1>4, <1>5, <1>6, <1>7, <1>8, NoRecords DEF Kind, Rest

\* A delay, a quake or a camera has no sector.
LEMMA TimerStep ==
    ASSUME IInv, Idle, P_SpawnTimer, UNCHANGED <<lightVars, file>>
    PROVE  Kind /\ Rest'
<1>0. Shapes /\ Linked /\ Watched /\ MoversInv
    BY DEF IInv
<1>1. PICK t \in Free : AddThinker(t, "timer")
    BY DEF P_SpawnTimer
<1>2. UNCHANGED <<cursor, watch, moverVars, lightVars, file>> /\ file = <<>>
    BY DEF P_SpawnTimer, Idle
<1>3. /\ list' = Append(list, t)
      /\ fn' = [fn EXCEPT ![t] = "run"]
      /\ type' = [type EXCEPT ![t] = "timer"]
      /\ move' = [move EXCEPT ![t] = "moving"]
      /\ UNCHANGED <<old, home, peer>>
    BY <1>1 DEF AddThinker
<1>4. /\ t \in Thinker /\ fn[t] = "free"
      /\ list' \in Seq(Thinker) /\ IsInjective(list')
      /\ Len(list) \in Nat /\ Len(list') = Len(list) + 1
      /\ \A u : u \in ToSet(list') <=> u \in ToSet(list) \/ u = t
    BY <1>0, <1>3, ListGrowsByOne
<1>5. \A u \in Thinker : u # t => fn'[u] = fn[u] /\ type'[u] = type[u] /\ move'[u] = move[u]
    BY <1>3, <1>4 DEF Shapes
<1>6. fn'[t] = "run" /\ type'[t] = "timer" /\ home'[t] = None /\ "timer" \notin Movers
    BY <1>0, <1>3, <1>4, TypeSets DEF Shapes, MoversInv, Homes
<1>7. MoversStay
    <2>1. \A u \in Thinker : u \in MoverThinkers' <=> u \in MoverThinkers
        BY <1>4, <1>5, <1>6 DEF MoverThinkers, Live
    <2>2. \A u \in MoverThinkers : Kept(u)
        BY <1>3, <1>4, <1>5 DEF MoverThinkers, Live, Kept
    <2>3. \A u \in Thinker : fn'[u] = "free" \/ type'[u] = "timer" => home'[u] = None
        BY <1>0, <1>3, <1>5, <1>6 DEF MoversInv, Homes
    <2>4. StoppedOnly
        BY <1>0, <1>5, <1>6 DEF MoversInv, SlotsExact, StoppedOnly
    <2> QED BY <1>2, <2>1, <2>2, <2>3, <2>4 DEF MoversStay, moverVars
<1>8. Watched'
    <2>1. \A u \in Live : u \in Live' /\ type'[u] = type[u]
        BY <1>4, <1>5 DEF Live
    <2> QED BY <1>0, <1>2, <2>1, MovedStaysWatched
<1>9. Linked'
    BY <1>0, <1>4, <1>5, <1>6 DEF Linked
<1>10. Shapes'
    <2>1. cursor' \in 0 .. Len(list')
        BY <1>0, <1>2, <1>4 DEF Shapes
    <2>2. fn' \in [Thinker -> {"run", "stasis", "unlink", "free"}]
        BY <1>0, <1>3 DEF Shapes
    <2> QED BY <1>0, <1>2, <1>3, <1>4, <2>1, <2>2, NoRecords DEF Shapes, moverVars, lightVars
<1> QED BY <1>2, <1>7, <1>8, <1>9, <1>10, NoRecords DEF Kind, Rest

\* A thinker that moves no sector is marked for removal.
LEMMA RemoveStep ==
    ASSUME IInv, file = <<>>, NEW t \in Live, type[t] \notin Movers, P_RemoveThinker(t),
           UNCHANGED <<list, type, move, old, home, peer, moverVars, file>>,
           cursor' \in 0 .. Len(list),
           special' \in [Sector -> LightTypes \cup {"none"}], todo' \subseteq Sector
    PROVE  MoversStay /\ Rest'
<1>0. Shapes /\ Linked /\ Watched /\ MoversInv
    BY DEF IInv
<1>1. /\ fn' = [fn EXCEPT ![t] = "unlink"] /\ t \in Thinker /\ fn[t] # "free"
      /\ watch' = IF watch = t THEN None ELSE watch
    BY DEF P_RemoveThinker, Live
<1>2. MoversStay
    <2>1. \A u \in Thinker : u \in MoverThinkers' <=> u \in MoverThinkers
        BY <1>0, <1>1 DEF MoverThinkers, Live, Shapes
    <2>2. \A u \in MoverThinkers : Kept(u)
        BY DEF Kept
    <2>3. \A u \in Thinker : fn'[u] = "free" \/ type'[u] = "timer" => home'[u] = None
        BY <1>0, <1>1 DEF MoversInv, Homes, Shapes
    <2>4. StoppedOnly
        BY <1>0, <1>1 DEF MoversInv, SlotsExact, StoppedOnly, Shapes
    <2> QED BY <2>1, <2>2, <2>3, <2>4 DEF MoversStay, moverVars
<1>3. Watched'
    BY <1>0, <1>1 DEF Watched, Live, Shapes
<1>4. Linked'
    BY <1>0, <1>1 DEF Linked, Shapes
<1>5. file' = <<>>
    OBVIOUS
<1>6. Shapes'
    BY <1>0, <1>1, <1>5, NoRecords DEF Shapes, moverVars
<1> QED BY <1>2, <1>3, <1>4, <1>5, <1>6, NoRecords DEF Rest

\* A thinker that was marked is unlinked and freed.
LEMMA UnlinkStep ==
    ASSUME IInv, NEW t \in Thinker, P_UnlinkThinker(t), UNCHANGED <<moverVars, lightVars, file>>
    PROVE  Kind /\ Rest'
<1>0. Shapes /\ Linked /\ Watched /\ MoversInv
    BY DEF IInv
<1>1. /\ AtTurn(t) /\ fn[t] = "unlink"
      /\ list' = RemoveAt(list, cursor)
      /\ cursor' = IF cursor = Len(list) THEN 0 ELSE cursor
      /\ fn' = [fn EXCEPT ![t] = "free"]
      /\ type' = [type EXCEPT ![t] = "none"]
      /\ move' = [move EXCEPT ![t] = "none"]
      /\ old' = [old EXCEPT ![t] = "none"]
      /\ home' = [home EXCEPT ![t] = None]
      /\ peer' = [peer EXCEPT ![t] = None]
      /\ UNCHANGED watch
    BY DEF P_UnlinkThinker
<1>2. /\ list' \in Seq(Thinker) /\ IsInjective(list')
      /\ Len(list) \in Nat /\ Len(list') = Len(list) - 1
      /\ cursor \in 1 .. Len(list)
      /\ \A u : u \in ToSet(list') <=> u \in ToSet(list) /\ u # t
    BY <1>0, <1>1, ListShrinks
<1>3. file = <<>> /\ file' = <<>>
    BY <1>0, <1>1 DEF Shapes, AtTurn
<1>4. \A u \in Thinker : u # t => /\ fn'[u] = fn[u] /\ type'[u] = type[u]
                                   /\ move'[u] = move[u] /\ home'[u] = home[u]
    BY <1>0, <1>1 DEF Shapes
<1>5. fn'[t] = "free" /\ home'[t] = None
    BY <1>0, <1>1 DEF Shapes
<1>6. MoversStay
    <2>1. \A u \in Thinker : u \in MoverThinkers' <=> u \in MoverThinkers
        BY <1>1, <1>4, <1>5 DEF MoverThinkers, Live
    <2>2. \A u \in MoverThinkers : Kept(u)
        BY <1>1, <1>4 DEF MoverThinkers, Live, Kept
    <2>3. \A u \in Thinker : fn'[u] = "free" \/ type'[u] = "timer" => home'[u] = None
        BY <1>0, <1>4, <1>5 DEF MoversInv, Homes
    <2>4. StoppedOnly
        BY <1>0, <1>4, <1>5 DEF MoversInv, SlotsExact, StoppedOnly
    <2> QED BY <2>1, <2>2, <2>3, <2>4 DEF MoversStay, moverVars
<1>7. Watched'
    <2>1. \A u \in Live : u \in Live' /\ type'[u] = type[u]
        BY <1>1, <1>4 DEF Live
    <2> QED BY <1>0, <1>1, <2>1, MovedStaysWatched
<1>8. Linked'
    BY <1>0, <1>2, <1>4, <1>5 DEF Linked
<1>9. Shapes'
    <2>1. cursor' \in 0 .. Len(list')
        BY <1>1, <1>2
    <2>2. /\ fn' \in [Thinker -> {"run", "stasis", "unlink", "free"}]
          /\ home' \in [Thinker -> Sector \cup {None}]
        BY <1>0, <1>1 DEF Shapes
    <2> QED BY <1>0, <1>1, <1>2, <1>3, <2>1, <2>2, NoRecords DEF Shapes, moverVars, lightVars
<1> QED BY <1>3, <1>6, <1>7, <1>8, <1>9, NoRecords DEF Kind, Rest

\* One turn of a mover or a timer.
LEMMA MoveStep ==
    ASSUME IInv, NEW t \in Thinker, T_Move(t), UNCHANGED <<lightVars, file>>
    PROVE  Kind /\ Rest'
<1>0. Shapes /\ Linked /\ Watched /\ MoversInv
    BY DEF IInv
<1>1. /\ AtTurn(t) /\ fn[t] = "run" /\ type[t] \in Movers \cup {"timer"}
      /\ NextTurn(Len(list))
      /\ UNCHANGED <<list, type, old, home, peer, lines>>
    BY DEF T_Move
<1>2. file = <<>> /\ file' = <<>>
    BY <1>0, <1>1 DEF Shapes, AtTurn
<1>3. cursor' \in 0 .. Len(list)
    <2>1. Len(list) \in Nat
        BY <1>0 DEF Shapes
    <2> QED BY <1>0, <1>1, <2>1 DEF Shapes, NextTurn
<1>4. special' \in [Sector -> LightTypes \cup {"none"}] /\ todo' \subseteq Sector
    BY <1>0 DEF Shapes, lightVars
<1>5. CASE /\ \E m : move' = [move EXCEPT ![t] = m]
           /\ UNCHANGED <<fn, watch, specialdata, plats, ceilings>>
    <2>1. DOMAIN move' = Thinker /\ \A u \in Thinker : fn[u] = "stasis" => move'[u] = move[u]
        BY <1>0, <1>1, <1>5 DEF Shapes
    <2>2. DOMAIN old' = Thinker /\ DOMAIN peer' = Thinker /\ lines' \subseteq lines
        BY <1>0, <1>1 DEF Shapes
    <2> QED BY <1>1, <1>2, <1>3, <1>4, <1>5, <2>1, <2>2, TurnStep DEF Kind
<1>6. CASE /\ P_RemoveThinker(t)
           /\ specialdata' = [s \in Sector |->
                  IF s = home[t] THEN None ELSE specialdata[s]]
           /\ RemoveActive(t)
           /\ UNCHANGED move
    <2>1. /\ fn' = [fn EXCEPT ![t] = "unlink"]
          /\ watch' = IF watch = t THEN None ELSE watch
          /\ plats' = plats \ {t} /\ ceilings' = ceilings \ {t}
        BY <1>6 DEF P_RemoveThinker, RemoveActive
    <2>2. CASE type[t] \in Movers
        <3>1. t \in MoverThinkers
            BY <1>1, <2>2 DEF MoverThinkers, Live
        <3>2. \A u \in Thinker : u \in MoverThinkers' <=> u \in MoverThinkers /\ u # t
            BY <1>0, <1>1, <2>1 DEF MoverThinkers, Live, Shapes
        <3>3. MoverGoes(t)
            BY <1>1, <1>6, <2>1, <3>1, <3>2 DEF MoverGoes
        <3>4. Watched'
            BY <1>0, <1>1, <2>1 DEF Watched, Live, Shapes
        <3>5. Linked'
            BY <1>0, <1>1, <2>1 DEF Linked, Shapes
        <3>6. Shapes'
            <4>1. specialdata' \in [Sector -> Thinker \cup {None}]
                BY <1>0, <1>6 DEF Shapes
            <4>2. fn' \in [Thinker -> {"run", "stasis", "unlink", "free"}]
                BY <1>0, <2>1 DEF Shapes
            <4>3. watch' \in Thinker \cup {None}
                BY <1>0, <2>1 DEF Shapes
            <4> QED BY <1>0, <1>1, <1>2, <1>3, <1>4, <1>6, <4>1, <4>2, <4>3, NoRecords DEF Shapes
        <3> QED BY <1>2, <3>3, <3>4, <3>5, <3>6, NoRecords DEF Kind, Rest
    <2>3. CASE type[t] \notin Movers
        <3>1. home[t] = None /\ None \notin Sector
            BY <1>0, <1>1, <2>3, NoneIsNoSector DEF MoversInv, Homes
        <3>2. specialdata' = specialdata
            BY <1>0, <1>6, <3>1 DEF Shapes
        <3>3. t \notin plats /\ t \notin ceilings
            BY <1>0, <2>3, TypeSets DEF MoversInv, SlotsExact
        <3>4. plats' = plats /\ ceilings' = ceilings
            BY <2>1, <3>3
        <3>5. t \in Live
            BY <1>1 DEF Live
        <3> QED BY <1>1, <1>2, <1>3, <1>4, <1>6, <2>3, <3>2, <3>4, <3>5, RemoveStep DEF Kind, moverVars
    <2> QED BY <2>2, <2>3
<1> QED BY <1>5, <1>6 DEF T_Move

\* One sector's special is added: nothing, a combined light or one of its own.
LEMMA AddSpecialStep ==
    ASSUME IInv, AddNextSpecial, UNCHANGED file
    PROVE  Kind /\ Rest'
<1>0. Shapes
    BY DEF IInv
<1>1. PICK s \in todo : /\ todo' = todo \ {s}
                        /\ P_AddSectorSpecial(s)
                        /\ UNCHANGED <<cursor, watch, special, moverVars>>
    BY DEF AddNextSpecial
<1>2. file = <<>> /\ {s} \in SUBSET Sector
    BY <1>0 DEF Shapes
<1>3. /\ special' \in [Sector -> LightTypes \cup {"none"}] /\ todo' \subseteq Sector
    BY <1>0, <1>1, <1>2 DEF Shapes
<1>4. CASE UNCHANGED <<list, fn, type, move, old, home, peer>>
    <2>1. /\ DOMAIN move' = Thinker /\ DOMAIN old' = Thinker /\ DOMAIN peer' = Thinker
          /\ cursor' \in 0 .. Len(list) /\ lines' \subseteq lines
          /\ \A t \in Thinker : fn[t] = "stasis" => move'[t] = move[t]
        BY <1>0, <1>1, <1>4 DEF Shapes, moverVars
    <2> QED BY <1>1, <1>2, <1>3, <1>4, <2>1, TurnStep DEF Kind, moverVars
<1>5. CASE \E at \in Where({s}) : \E ty \in LightTypes \cup {"combine"} : \E start, by :
                AddThinkers(at, ty, start, "none", by)
    <2>1. PICK at \in Where({s}), ty \in LightTypes \cup {"combine"} : \E start, by :
                AddThinkers(at, ty, start, "none", by)
        BY <1>5
    <2>2. PICK start, by : AddThinkers(at, ty, start, "none", by)
        BY <2>1
    <2>3. Len(list) \in Nat /\ Len(list') \in Nat /\ Len(list') >= Len(list)
        BY <1>2, <2>2, AddThinkersStep DEF IInv
    <2>4. cursor' \in 0 .. Len(list')
        BY <1>0, <1>1, <2>3 DEF Shapes
    <2> QED BY <1>1, <1>2, <1>3, <2>2, <2>4, AddLightsStep DEF Kind
<1>6. CASE special[s] = "none"
    BY <1>1, <1>4, <1>6 DEF P_AddSectorSpecial
<1>7. CASE special[s] # "none" /\ s \in Sync
    <2>1. P_CombineLightSpecials(s)
        BY <1>1, <1>7 DEF P_AddSectorSpecial
    <2>2. CASE Combiners(special[s]) = {}
        BY <1>4, <2>1, <2>2 DEF P_CombineLightSpecials
    <2>3. CASE Combiners(special[s]) # {}
        <3>1. \E i : \E at \in Where({s}) : AddThinkers(at, "combine", special[s], "none", list[i])
            BY <2>1, <2>3 DEF P_CombineLightSpecials
        <3> QED BY <1>5, <3>1
    <2> QED BY <2>2, <2>3
<1>8. CASE special[s] # "none" /\ s \notin Sync
    <2>1. \E at \in Where({s}) : AddThinkers(at, special[s], "moving", "none", None)
        BY <1>1, <1>8 DEF P_AddSectorSpecial
    <2>2. special[s] \in LightTypes
        BY <1>0, <1>8 DEF Shapes
    <2> QED BY <1>5, <2>1, <2>2
<1> QED BY <1>6, <1>7, <1>8

\* AddThinkers for one sector adds one thinker.
LEMMA OneMore ==
    ASSUME Shapes, NEW s \in Sector, NEW at \in Where({s}),
           NEW ty, NEW start, NEW before, NEW by,
           AddThinkers(at, ty, start, before, by)
    PROVE  Len(list) \in Nat /\ Len(list') = Len(list) + 1
<1>1. at \in [{s} -> Free] /\ list' = list \o InOrder(at)
    BY DEF AddThinkers, Where
<1>2. {s} \subseteq Nat /\ IsFiniteSet({s}) /\ Cardinality({s}) = 1
    BY SectorsAreNumbers, FS_Singleton
<1>3. PICK pick : Follows(pick, InOrder(at), at, {s}, Thinker)
    <2>1. at \in [{s} -> Thinker]
        BY <1>1 DEF Free
    <2> QED BY <1>2, <2>1, InOrderFacts
<1>4. InOrder(at) \in Seq(Thinker) /\ Len(InOrder(at)) = 1
    BY <1>2, <1>3 DEF Follows
<1>5. list \in Seq(Thinker) /\ Len(list) \in Nat
    BY DEF Shapes
<1>6. Len(list \o InOrder(at)) = Len(list) + Len(InOrder(at))
    BY <1>4, <1>5, ConcatProperties
<1> QED BY <1>1, <1>4, <1>5, <1>6

\* The cursor stays in the list.
LEMMA TurnsStay ==
    ASSUME NEW len \in Nat, NEW max \in Nat, len =< max, cursor \in 0 .. max, NextTurn(len)
    PROVE  cursor' \in 0 .. max
<1>1. CASE cursor >= len
    BY <1>1 DEF NextTurn
<1>2. CASE ~ (cursor >= len)
    BY <1>2 DEF NextTurn
<1> QED BY <1>1, <1>2

\* A light goes on.
LEMMA GoOnStep ==
    ASSUME IInv, file = <<>>, GoOn, UNCHANGED <<moverVars, todo, file>>
    PROVE  Kind /\ Rest'
<1>0. Shapes
    BY DEF IInv
<1>1. NextTurn(Len(list)) /\ UNCHANGED <<list, fn, type, move, old, home, peer, watch, special>>
    BY DEF GoOn
<1>2. cursor' \in 0 .. Len(list)
    BY <1>0, <1>1, TurnsStay DEF Shapes
<1>3. /\ DOMAIN move' = Thinker /\ DOMAIN old' = Thinker /\ DOMAIN peer' = Thinker
      /\ special' \in [Sector -> LightTypes \cup {"none"}] /\ todo' \subseteq Sector
      /\ lines' \subseteq lines
    BY <1>0, <1>1 DEF Shapes, moverVars
<1> QED BY <1>1, <1>2, <1>3, TurnStep DEF Kind, moverVars

\* A light ends.
LEMMA EndLightStep ==
    ASSUME IInv, NEW t \in Thinker, AtTurn(t), fn[t] = "run", type[t] \notin Movers,
           P_RemoveThinker(t), NextTurn(Len(list)),
           UNCHANGED <<list, type, move, old, home, peer>>,
           special' \in [Sector -> LightTypes \cup {"none"}],
           UNCHANGED <<moverVars, todo, file>>
    PROVE  Kind /\ Rest'
<1>0. Shapes
    BY DEF IInv
<1>1. cursor' \in 0 .. Len(list) /\ file = <<>> /\ todo' \subseteq Sector
    BY <1>0, TurnsStay DEF Shapes, AtTurn
<1>2. t \in Live
    BY DEF Live
<1> QED BY <1>1, <1>2, RemoveStep DEF Kind, moverVars

\* One turn of a light.
LEMMA LightStep ==
    ASSUME IInv, NEW t \in Thinker, T_Light(t), UNCHANGED file
    PROVE  Kind /\ Rest'
<1>0. Shapes
    BY DEF IInv
<1>1. /\ AtTurn(t) /\ fn[t] = "run" /\ type[t] \in {"strobe", "glow"}
      /\ UNCHANGED <<moverVars, todo>>
    BY DEF T_Light
<1>2. type[t] \notin Movers /\ file = <<>>
    BY <1>0, <1>1, TypeSets DEF LightTypes, Shapes, AtTurn
<1>3. CASE GoOn
    BY <1>1, <1>2, <1>3, GoOnStep
<1>4. CASE EndLight(t)
    BY <1>0, <1>1, <1>2, <1>4, EndLightStep DEF EndLight, Shapes
<1> QED BY <1>3, <1>4 DEF T_Light

\* One turn of a combined light.
LEMMA CombineStep ==
    ASSUME IInv, NEW t \in Thinker, T_Combine(t), UNCHANGED file
    PROVE  Kind /\ Rest'
<1>0. Shapes
    BY DEF IInv
<1>1. /\ AtTurn(t) /\ fn[t] = "run" /\ type[t] = "combine"
      /\ UNCHANGED <<moverVars, todo>>
    BY DEF T_Combine
<1>2. type[t] \notin Movers /\ file = <<>>
    BY <1>0, <1>1, TypeSets DEF Shapes, AtTurn
<1>3. CASE GoOn
    BY <1>1, <1>2, <1>3, GoOnStep
<1>4. CASE EndLight(t)
    BY <1>0, <1>1, <1>2, <1>4, EndLightStep DEF EndLight, Shapes
<1> QED BY <1>3, <1>4 DEF T_Combine

\* One turn of a light that walks over the sectors.
LEMMA SequenceStep ==
    ASSUME IInv, NEW t \in Thinker, T_Sequence(t), UNCHANGED file
    PROVE  Kind /\ Rest'
<1>0. Shapes
    BY DEF IInv
<1>1. /\ AtTurn(t) /\ fn[t] = "run" /\ type[t] = "sequence"
      /\ UNCHANGED <<moverVars, todo>>
    BY DEF T_Sequence
<1>2. type[t] \notin Movers /\ file = <<>>
    BY <1>0, <1>1, TypeSets DEF LightTypes, Shapes, AtTurn
<1>3. CASE GoOn
    BY <1>1, <1>2, <1>3, GoOnStep
<1>4. CASE EndLight(t)
    BY <1>0, <1>1, <1>2, <1>4, EndLightStep DEF EndLight, Shapes
<1>5. CASE /\ P_RemoveThinker(t)
           /\ special' = [special EXCEPT ![home[t]] = "none"]
           /\ NextTurn(Len(list))
           /\ UNCHANGED <<list, type, move, old, home, peer>>
    <2>1. special' \in [Sector -> LightTypes \cup {"none"}]
        BY <1>0, <1>5 DEF Shapes
    <2> QED BY <1>1, <1>2, <1>5, <2>1, EndLightStep
<1>6. CASE \E s \in Sector :
            /\ special' = [special EXCEPT ![s] = "sequence"]
            /\ \E at \in Where({s}) : AddThinkers(at, "sequence", "moving", "none", None)
            /\ NextTurn(Len(list) + 1)
            /\ UNCHANGED watch
    <2>1. PICK s \in Sector :
            /\ special' = [special EXCEPT ![s] = "sequence"]
            /\ \E at \in Where({s}) : AddThinkers(at, "sequence", "moving", "none", None)
            /\ NextTurn(Len(list) + 1)
            /\ UNCHANGED watch
        BY <1>6
    <2>2. PICK at \in Where({s}) : AddThinkers(at, "sequence", "moving", "none", None)
        BY <2>1
    <2>3. {s} \in SUBSET Sector /\ "sequence" \in LightTypes \cup {"combine"}
        BY DEF LightTypes
    <2>5. Len(list) \in Nat /\ Len(list') = Len(list) + 1
        BY <1>0, <2>2, OneMore
    <2>6. cursor' \in 0 .. Len(list')
        <3>1. cursor \in 0 .. Len(list) + 1
            BY <1>0, <2>5 DEF Shapes
        <3> QED BY <2>1, <2>5, <3>1, TurnsStay
    <2>7. /\ special' \in [Sector -> LightTypes \cup {"none"}] /\ todo' \subseteq Sector
          /\ UNCHANGED <<moverVars, watch, file>>
        BY <1>0, <1>1, <2>1 DEF Shapes, LightTypes
    <2> HIDE DEF Kind
    <2> QED BY <1>2, <2>2, <2>3, <2>6, <2>7, AddLightsStep DEF Kind
<1>7. \/ GoOn
      \/ EndLight(t)
      \/ /\ P_RemoveThinker(t)
         /\ special' = [special EXCEPT ![home[t]] = "none"]
         /\ NextTurn(Len(list))
         /\ UNCHANGED <<list, type, move, old, home, peer>>
      \/ \E s \in Sector :
            /\ special' = [special EXCEPT ![s] = "sequence"]
            /\ \E at \in Where({s}) : AddThinkers(at, "sequence", "moving", "none", None)
            /\ NextTurn(Len(list) + 1)
            /\ UNCHANGED watch
    BY DEF T_Sequence
<1> QED BY <1>3, <1>4, <1>5, <1>6, <1>7

\* The special of tagged sectors is changed.
LEMMA ModifySpecialStep ==
    ASSUME IInv, Idle, NEW line \in lines, line[2] \in LightTypes \cup {"none"},
           P_ModifySpecial(line[1], line[2]), UNCHANGED <<file, saved>>
    PROVE  Kind /\ Rest'
<1>0. Shapes /\ file = <<>>
    BY DEF IInv, Idle
<1>1. /\ special' = [s \in Sector |-> IF s \in Tagged(line[1]) THEN line[2] ELSE special[s]]
      /\ todo' = Tagged(line[1])
      /\ UNCHANGED <<thinkerVars, moverVars>>
    BY DEF P_ModifySpecial
<1>2. /\ special' \in [Sector -> LightTypes \cup {"none"}] /\ todo' \subseteq Sector
    BY <1>0, <1>1 DEF Shapes, Tagged
<1>3. /\ DOMAIN move' = Thinker /\ DOMAIN old' = Thinker /\ DOMAIN peer' = Thinker
      /\ cursor' \in 0 .. Len(list) /\ lines' \subseteq lines
    BY <1>0, <1>1 DEF Shapes, thinkerVars, moverVars
<1>4. UNCHANGED <<list, fn, type, move, home, watch, specialdata, plats, ceilings>>
    BY <1>1 DEF thinkerVars, moverVars
<1> QED BY <1>0, <1>2, <1>3, <1>4, TurnStep DEF Kind

\* A round of turns starts.
LEMMA StartRoundStep ==
    ASSUME IInv, Idle, StartRound, UNCHANGED <<moverVars, lightVars, file>>
    PROVE  Kind /\ Rest'
<1>0. Shapes /\ file = <<>>
    BY DEF IInv, Idle
<1>1. /\ list # <<>> /\ cursor' = 1
      /\ UNCHANGED <<list, fn, type, move, old, home, peer, watch>>
    BY DEF StartRound
<1>2. cursor' \in 0 .. Len(list)
    <2>1. Len(list) \in Nat /\ Len(list) # 0
        BY <1>0, <1>1, EmptySeq DEF Shapes
    <2> QED BY <1>1, <2>1
<1>3. /\ DOMAIN move' = Thinker /\ DOMAIN old' = Thinker /\ DOMAIN peer' = Thinker
      /\ special' \in [Sector -> LightTypes \cup {"none"}] /\ todo' \subseteq Sector
      /\ lines' \subseteq lines /\ UNCHANGED <<specialdata, plats, ceilings>>
    BY <1>0, <1>1 DEF Shapes, moverVars, lightVars
<1> QED BY <1>0, <1>1, <1>2, <1>3, TurnStep DEF Kind

\* A stopped thinker is passed over.
LEMMA SkipStep ==
    ASSUME IInv, NEW t \in Thinker, Skip(t), UNCHANGED <<moverVars, lightVars, file>>
    PROVE  Kind /\ Rest'
<1>0. Shapes
    BY DEF IInv
<1>1. /\ AtTurn(t) /\ NextTurn(Len(list))
      /\ UNCHANGED <<list, fn, type, move, old, home, peer, watch>>
    BY DEF Skip
<1>2. file = <<>> /\ cursor' \in 0 .. Len(list)
    BY <1>0, <1>1, TurnsStay DEF Shapes, AtTurn
<1>3. /\ DOMAIN move' = Thinker /\ DOMAIN old' = Thinker /\ DOMAIN peer' = Thinker
      /\ special' \in [Sector -> LightTypes \cup {"none"}] /\ todo' \subseteq Sector
      /\ lines' \subseteq lines /\ UNCHANGED <<specialdata, plats, ceilings>>
    BY <1>0, <1>1 DEF Shapes, moverVars, lightVars
<1> QED BY <1>1, <1>2, <1>3, TurnStep DEF Kind

\* A macro starts to wait for the last thinker.
LEMMA WatchStep ==
    ASSUME IInv, Watch, ~ WatchCombined
    PROVE  Kind /\ Rest'
<1>0. Shapes /\ Linked /\ Watched /\ MoversInv
    BY DEF IInv
<1>1. PICK t \in Thinker : fn[t] = "run" /\ type[t] # "combine" /\ watch' = t
    BY DEF Watch
<1>2. /\ UNCHANGED <<list, cursor, fn, type, move, old, home, peer, moverVars, lightVars, file>>
      /\ file = <<>> /\ file' = <<>>
    BY DEF Watch, Idle
<1>3. MoversStay
    <2>1. \A u \in Thinker : u \in MoverThinkers' <=> u \in MoverThinkers
        BY <1>2 DEF MoverThinkers, Live
    <2>2. \A u \in MoverThinkers : Kept(u)
        BY <1>2 DEF Kept
    <2>3. \A u \in Thinker : fn'[u] = "free" \/ type'[u] = "timer" => home'[u] = None
        BY <1>0, <1>2 DEF MoversInv, Homes
    <2>4. StoppedOnly
        BY <1>0, <1>2 DEF MoversInv, SlotsExact, StoppedOnly
    <2> QED BY <1>2, <2>1, <2>2, <2>3, <2>4 DEF MoversStay, moverVars
<1>4. Watched'
    BY <1>1, <1>2 DEF Watched, Live
<1>5. Linked'
    BY <1>0, <1>2 DEF Linked
<1>6. Shapes'
    BY <1>0, <1>1, <1>2, NoRecords DEF Shapes, moverVars, lightVars
<1> QED BY <1>2, <1>3, <1>4, <1>5, <1>6, NoRecords DEF Kind, Rest

\* A macro that waits for a delay is suspended: the delay ends.
LEMMA SuspendStep ==
    ASSUME IInv, P_SuspendMacro, ~ SuspendMovers
    PROVE  Kind /\ Rest'
<1>0. Shapes /\ Watched
    BY DEF IInv
<1>1. /\ watch # None /\ type[watch] = "timer" /\ P_RemoveThinker(watch)
      /\ UNCHANGED <<list, cursor, type, move, old, home, peer, moverVars, lightVars, file>>
      /\ file = <<>>
    BY DEF P_SuspendMacro, Idle
<1>2. watch \in Live /\ type[watch] \notin Movers
    BY <1>0, <1>1, TypeSets DEF Watched
<1>3. /\ cursor' \in 0 .. Len(list)
      /\ special' \in [Sector -> LightTypes \cup {"none"}] /\ todo' \subseteq Sector
    BY <1>0, <1>1 DEF Shapes, lightVars
<1> QED BY <1>1, <1>2, <1>3, RemoveStep DEF Kind

\* What lines do to movers.
LEMMA LineStep ==
    ASSUME IInv, Idle, LineMovers, UNCHANGED <<lightVars, file>>
    PROVE  Kind /\ Rest'
<1>1. CASE \E line \in lines : EV_DoDoor(line[1], line[2])
    BY <1>1, NewMoversStep DEF EV_DoDoor
<1>2. CASE \E line \in lines : EV_DoFloor(line[1], line[2])
    BY <1>2, NewMoversStep DEF EV_DoFloor, Floors
<1>3. CASE \E line \in lines : EV_SplitSector(line[1], line[2])
    BY <1>3, NewMoversStep DEF EV_SplitSector, Floors
<1>4. plats \subseteq Live /\ ceilings \subseteq Live
    BY DEF IInv, MoversInv, SlotsExact
<1>5. CASE \E line \in lines : EV_DoPlat(line[1], line[2])
    <2>1. PICK line \in lines : EV_DoPlat(line[1], line[2])
        BY <1>5
    <2> DEFINE again == IF line[2] = "perpetual" THEN Stopped(plats, line[1]) ELSE {}
    <2>2. again \in SUBSET Live
        BY <1>4 DEF Stopped
    <2>3. line[2] \in Plats \cup Ceilings /\ NewActive(line[1], line[2], again, plats, MaxPlats)
        BY <2>1 DEF EV_DoPlat
    <2> QED BY <2>2, <2>3, NewActiveStep
<1>6. CASE \E line \in lines : EV_DoCeiling(line[1], line[2])
    <2>1. PICK line \in lines : EV_DoCeiling(line[1], line[2])
        BY <1>6
    <2> DEFINE again == IF line[2] = "crush" THEN Stopped(ceilings, line[1]) ELSE {}
    <2>2. again \in SUBSET Live
        BY <1>4 DEF Stopped
    <2>3. line[2] \in Plats \cup Ceilings /\ NewActive(line[1], line[2], again, ceilings, MaxCeilings)
        BY <2>1 DEF EV_DoCeiling
    <2> QED BY <2>2, <2>3, NewActiveStep
<1>7. CASE \E line \in lines : line[2] = "stopPlats" /\ EV_StopPlat(line[1])
    BY <1>7, StopStep DEF EV_StopPlat
<1>8. CASE \E line \in lines : line[2] = "stopCeilings" /\ EV_CeilingCrushStop(line[1])
    BY <1>8, StopStep DEF EV_CeilingCrushStop
<1>9. CASE \E line \in lines : line[2] = "stairs" /\ EV_BuildStairs(line[1])
    BY <1>9, StairsStep
<1>10. CASE \E s \in Sector, player \in BOOLEAN : EV_VerticalDoorRaise(s, player)
    BY <1>10, VerticalRaiseStep
<1>11. CASE \E s \in Sector : EV_VerticalDoorOpen(s)
    BY <1>11, VerticalOpenStep
<1>12. CASE \E line \in lines : line[2] = "timer" /\ P_SpawnTimer
    BY <1>12, TimerStep
<1> QED BY <1>1, <1>2, <1>3, <1>5, <1>6, <1>7, <1>8, <1>9, <1>10, <1>11, <1>12 DEF LineMovers

---------------------------------------------------------------------------
(* Saving and loading a game.                                              *)

\* A sequence is one over the set of its elements.
LEMMA OverItsSet ==
    ASSUME NEW R, NEW s \in Seq(R)
    PROVE  s \in Seq(ToSet(s))
<1>1. Len(s) \in Nat /\ DOMAIN s = 1 .. Len(s)
    OBVIOUS
<1>2. \A i \in 1 .. Len(s) : s[i] \in ToSet(s)
    BY <1>1 DEF ToSet
<1>3. s = [i \in 1 .. Len(s) |-> s[i]]
    BY <1>1
<1> QED BY <1>1, <1>2, <1>3, SeqDef

\* The first record is read, the others stay.
LEMMA ReadOne ==
    ASSUME file \in Seq(ToSet(file)), file # <<>>, file' = Tail(file)
    PROVE  /\ Len(file) \in Nat /\ 1 \in 1 .. Len(file) /\ Head(file) = file[1]
           /\ \A i \in 1 .. Len(file') : /\ i \in Nat /\ i + 1 \in 1 .. Len(file)
                                         /\ i + 1 # 1 /\ file'[i] = file[i + 1]
           /\ file' \in Seq(ToSet(file'))
<1>1. Len(file) \in Nat /\ Len(file) # 0 /\ Head(file) = file[1]
    BY EmptySeq
<1>2. /\ file' \in Seq(ToSet(file)) /\ Len(file') = Len(file) - 1
      /\ \A i \in 1 .. Len(file) - 1 : file'[i] = file[i + 1]
    BY HeadTailProperties
<1>3. \A i \in 1 .. Len(file) - 1 : i \in Nat /\ i + 1 \in 1 .. Len(file) /\ i + 1 # 1
    BY <1>1
<1>4. file' \in Seq(ToSet(file'))
    BY <1>2, OverItsSet
<1>5. \A i \in 1 .. Len(file') : /\ i \in Nat /\ i + 1 \in 1 .. Len(file)
                                 /\ i + 1 # 1 /\ file'[i] = file[i + 1]
    BY <1>2, <1>3
<1>6. 1 \in 1 .. Len(file)
    BY <1>1
<1> QED BY <1>1, <1>4, <1>5, <1>6

\* What is left to be read still says what a level can be in.
LEMMA RecordsLeft ==
    ASSUME Shapes, Records, file # <<>>, file' = Tail(file),
           \A t \in MoverThinkers' :
              \/ t \in MoverThinkers /\ home'[t] = home[t]
              \/ Head(file).type \in Movers /\ home'[t] = Head(file).home
    PROVE  Records' /\ file' \in Seq(ToSet(file'))
<1>1. /\ Len(file) \in Nat /\ 1 \in 1 .. Len(file) /\ Head(file) = file[1]
      /\ \A i \in 1 .. Len(file') : /\ i \in Nat /\ i + 1 \in 1 .. Len(file)
                                    /\ i + 1 # 1 /\ file'[i] = file[i + 1]
      /\ file' \in Seq(ToSet(file'))
    BY ReadOne DEF Shapes
<1>2. ASSUME NEW i \in 1 .. Len(file'), file'[i].type \in Movers,
             NEW t \in MoverThinkers', home'[t] = file'[i].home
      PROVE  file'[i].home \in ManualOpen
    <2>1. CASE t \in MoverThinkers /\ home'[t] = home[t]
        BY <1>1, <1>2, <2>1 DEF Records
    <2>2. CASE Head(file).type \in Movers /\ home'[t] = Head(file).home
        BY <1>1, <1>2, <2>2 DEF Records
    <2> QED BY <2>1, <2>2
<1>3. ASSUME NEW i \in 1 .. Len(file'), NEW j \in 1 .. Len(file'), i # j,
             file'[i].type \in Movers, file'[j].type \in Movers, file'[i].home = file'[j].home
      PROVE  file'[i].home \in ManualOpen
    <2>1. i + 1 # j + 1
        BY <1>1, <1>3
    <2> QED BY <1>1, <1>3, <2>1 DEF Records
<1>4. \A i \in 1 .. Len(file') :
        LET r == file'[i]
        IN /\ r.home \in Sector \cup {None}
           /\ r.type \in Movers => r.home \in Sector
           /\ r.type \in Movers /\ r.home \in ManualRaise => r.type \in Doors
           /\ r.type = "timer" => r.home = None
           /\ ~ r.running => r.type \in Ceilings /\ r.move = "stasis"
           /\ r.watched => r.running /\ r.type # "combine"
    BY <1>1 DEF Records
<1> QED BY <1>1, <1>2, <1>3, <1>4 DEF Records

\* The record of a thinker of the list.
LEMMA RecordOf ==
    ASSUME Shapes, Linked, Watched, MoversInv, NEW x \in ToSet(list), Archived(x)
    PROVE  LET r == Record(x)
           IN /\ r.home \in Sector \cup {None}
              /\ r.type \in Movers => x \in MoverThinkers /\ r.home = home[x] /\ r.home \in Sector
              /\ r.type \in Movers /\ r.home \in ManualRaise => r.type \in Doors
              /\ r.type = "timer" => r.home = None
              /\ ~ r.running => r.type \in Ceilings /\ r.move = "stasis"
              /\ r.watched => r.running /\ r.type # "combine"
<1>1. x \in Thinker
    <2>1. Range(list) \subseteq Thinker
        BY InRange DEF Shapes
    <2> QED BY <2>1 DEF Range, ToSet
<1>0. x # None
    BY ThinkersFinite, <1>1
<1>2. x \in Live
    BY <1>1 DEF Archived, Live
<1>3. type[x] \in Movers => x \in MoverThinkers
    BY <1>2 DEF MoverThinkers
<1>4. fn[x] # "run" => type[x] \in Ceilings /\ move[x] = "stasis"
    BY <1>1 DEF Archived, MoversInv, SlotsExact
<1>5. home[x] \in Sector \cup {None}
    BY <1>1 DEF Shapes
<1> DEFINE r == Record(x)
<1>6. r.type = type[x] /\ r.home = home[x] /\ r.move = move[x]
    BY DEF Record
<1>7. (r.running <=> fn[x] = "run") /\ (r.watched <=> fn[x] = "run" /\ x = watch)
    BY DEF Record
<1>8. watch = x => type[x] # "combine"
    BY <1>0 DEF Watched
<1>9. type[x] \in Movers => home[x] \in Sector /\ (home[x] \in ManualRaise => type[x] \in Doors)
    BY <1>3 DEF MoversInv, Homes
<1>10. type[x] = "timer" => home[x] = None
    BY <1>1 DEF MoversInv, Homes
<1> HIDE DEF r
<1>11. /\ r.home \in Sector \cup {None}
       /\ r.type \in Movers => x \in MoverThinkers /\ r.home = home[x] /\ r.home \in Sector
       /\ r.type \in Movers /\ r.home \in ManualRaise => r.type \in Doors
       /\ r.type = "timer" => r.home = None
       /\ ~ r.running => r.type \in Ceilings /\ r.move = "stasis"
       /\ r.watched => r.running /\ r.type # "combine"
    BY <1>3, <1>4, <1>5, <1>6, <1>7, <1>8, <1>9, <1>10
<1> QED BY <1>11 DEF r

\* The records of A are those of the thinkers at the places that pick counts off.
Written(pick, A) ==
    /\ A \in Seq(ToSet(A))
    /\ \A i, j \in 1 .. Len(A) : pick[i] = pick[j] => i = j
    /\ \A i \in 1 .. Len(A) :
        /\ pick[i] \in 1 .. Len(list) /\ list[pick[i]] \in ToSet(list)
        /\ Archived(list[pick[i]]) /\ A[i] = Record(list[pick[i]])
    /\ \A j \in 1 .. Len(list) : Archived(list[j]) => \E i \in 1 .. Len(A) : pick[i] = j

\* A saved game has records of the thinkers of the list that are archived, each once.
LEMMA RecordsAreOf ==
    ASSUME Shapes
    PROVE  \E pick : Written(pick, P_ArchiveSpecials)
<1> DEFINE A == P_ArchiveSpecials
           D == {j \in 1 .. Len(list) : Archived(list[j])}
           R == {Record(x) : x \in ToSet(list)}
           at == [i \in D |-> Record(list[i])]
<1>2. Len(list) \in Nat /\ DOMAIN list = 1 .. Len(list)
    BY DEF Shapes
<1>3. D \subseteq Nat /\ IsFiniteSet(D)
    <2>1. IsFiniteSet(1 .. Len(list)) /\ D \in SUBSET (1 .. Len(list))
        BY <1>2, FS_Interval
    <2>2. IsFiniteSet(D)
        BY <2>1, FS_Subset
    <2> QED BY <1>2, <2>2
<1>4. at \in [D -> R] /\ A = InOrder(at)
    BY <1>2 DEF ToSet, P_ArchiveSpecials
<1> HIDE DEF at, R, A
<1>5. PICK pick : Follows(pick, A, at, D, R)
    BY <1>3, <1>4, InOrderFacts
<1>6. /\ pick \in [1 .. Cardinality(D) -> D]
      /\ \A i, j \in 1 .. Cardinality(D) : pick[i] = pick[j] => i = j
      /\ A \in Seq(R) /\ Len(A) = Cardinality(D)
      /\ \A i \in 1 .. Cardinality(D) : A[i] = at[pick[i]]
      /\ \A j \in D : \E i \in 1 .. Cardinality(D) : pick[i] = j
    BY <1>5 DEF Follows
<1>7. \A i \in 1 .. Len(A) :
        /\ list[pick[i]] \in ToSet(list) /\ Archived(list[pick[i]])
        /\ pick[i] \in 1 .. Len(list) /\ A[i] = Record(list[pick[i]])
    BY <1>2, <1>6 DEF ToSet, at
<1>8. A \in Seq(ToSet(A))
    BY <1>6, OverItsSet
<1>10. \A j \in 1 .. Len(list) : Archived(list[j]) => \E i \in 1 .. Len(A) : pick[i] = j
    BY <1>6
<1>9. Written(pick, A)
    BY <1>6, <1>7, <1>8, <1>10 DEF Written
<1> QED BY <1>9 DEF A

\* A game is saved and loaded again: all thinkers are gone, their records left.
LEMMA ReloadStep ==
    ASSUME IInv, Reload
    PROVE  Kind /\ Rest'
<1>0. Shapes /\ Linked /\ Watched /\ MoversInv
    BY DEF IInv
<1>1. /\ cursor = 0 /\ todo = {} /\ NoThinkers /\ file' = P_ArchiveSpecials
      /\ UNCHANGED <<cursor, special, todo, lines>>
    BY DEF Reload, Idle
<1>5. PICK pick : Written(pick, file')
    BY <1>0, <1>1, RecordsAreOf
<1>6. \A i, j \in 1 .. Len(file') : pick[i] = pick[j] => i = j
    BY <1>5 DEF Written
<1>7. \A i \in 1 .. Len(file') :
        /\ list[pick[i]] \in ToSet(list) /\ Archived(list[pick[i]])
        /\ pick[i] \in 1 .. Len(list) /\ file'[i] = Record(list[pick[i]])
    BY <1>5 DEF Written
<1>2. Len(list) \in Nat /\ DOMAIN list = 1 .. Len(list)
    BY <1>0 DEF Shapes
<1>8. file' \in Seq(ToSet(file'))
    BY <1>5 DEF Written
<1>9. MoverThinkers' = {}
    BY <1>1, GoneKeeps
<1>10. Records'
    <2>1. ASSUME NEW i \in 1 .. Len(file')
          PROVE  LET r == file'[i]
                 IN /\ r.home \in Sector \cup {None}
                    /\ r.type \in Movers => r.home \in Sector
                    /\ r.type \in Movers /\ r.home \in ManualRaise => r.type \in Doors
                    /\ r.type = "timer" => r.home = None
                    /\ ~ r.running => r.type \in Ceilings /\ r.move = "stasis"
                    /\ r.watched => r.running /\ r.type # "combine"
        BY <1>0, <1>7, RecordOf
    <2>2. ASSUME NEW i \in 1 .. Len(file'), NEW j \in 1 .. Len(file'), i # j,
                 file'[i].type \in Movers, file'[j].type \in Movers,
                 file'[i].home = file'[j].home
          PROVE  file'[i].home \in ManualOpen
        <3> DEFINE x == list[pick[i]]
                   y == list[pick[j]]
        <3>1. x \in MoverThinkers /\ y \in MoverThinkers /\ home[x] = home[y]
              /\ file'[i].home = home[x]
            BY <1>0, <1>7, <2>2, RecordOf
        <3>2. pick[i] # pick[j]
            BY <1>6, <2>2
        <3>3. x # y
            BY <1>0, <1>2, <1>7, <3>2 DEF Linked, IsInjective
        <3> QED BY <1>0, <3>1, <3>3 DEF MoversInv, OneMover
    <2> QED BY <1>9, <2>1, <2>2 DEF Records
<1>11. list' = <<>> /\ Len(list') = 0 /\ ToSet(list') = {} /\ IsInjective(list')
       /\ list' \in Seq(Thinker)
    BY <1>1, EmptySeq DEF NoThinkers, ToSet, IsInjective
<1>12. Linked'
    BY <1>1, <1>11 DEF NoThinkers, Linked
<1>13. Watched'
    BY <1>1 DEF NoThinkers, Watched
<1>14. Shapes'
    <2>1. /\ fn' \in [Thinker -> {"run", "stasis", "unlink", "free"}]
          /\ DOMAIN type' = Thinker /\ DOMAIN move' = Thinker
          /\ DOMAIN old' = Thinker /\ DOMAIN peer' = Thinker
          /\ home' \in [Thinker -> Sector \cup {None}]
          /\ watch' \in Thinker \cup {None}
          /\ specialdata' \in [Sector -> Thinker \cup {None}]
        BY <1>1 DEF NoThinkers
    <2>2. /\ special' \in [Sector -> LightTypes \cup {"none"}]
          /\ todo' \subseteq Sector
          /\ \E map \in Maps : lines' \subseteq map
        BY <1>0, <1>1 DEF Shapes
    <2>3. cursor' \in 0 .. Len(list')
        BY <1>1, <1>11
    <2> QED BY <1>1, <1>8, <1>11, <2>1, <2>2, <2>3 DEF Shapes
<1> QED BY <1>1, <1>10, <1>12, <1>13, <1>14 DEF Kind, Rest

\* One thinker is read: a mover takes its sector and its slot again.
LEMMA ReadStep ==
    ASSUME IInv, ReadThinker
    PROVE  Kind /\ Rest'
<1>0. Shapes /\ Linked /\ Watched /\ MoversInv /\ Records
    BY DEF IInv
<1> DEFINE r == Head(file)
<1>1. PICK t \in Free :
        /\ list' = Append(list, t)
        /\ fn' = [fn EXCEPT ![t] = IF r.running THEN "run" ELSE "stasis"]
        /\ type' = [type EXCEPT ![t] = r.type]
        /\ move' = [move EXCEPT ![t] = r.move]
        /\ old' = [old EXCEPT ![t] = r.old]
        /\ home' = [home EXCEPT ![t] = r.home]
        /\ watch' = IF r.watched THEN t ELSE watch
        /\ specialdata' = [s \in Sector |->
               IF r.type \in Movers /\ s = r.home THEN t ELSE specialdata[s]]
        /\ plats' = IF r.type \in Plats THEN plats \cup {t} ELSE plats
        /\ ceilings' = IF r.type \in Ceilings THEN ceilings \cup {t} ELSE ceilings
    BY DEF ReadThinker
<1>2. /\ file # <<>> /\ file' = Tail(file) /\ r.type # "combine"
      /\ UNCHANGED <<cursor, peer, lines, special, todo>>
    BY DEF ReadThinker
<1>3. 1 \in 1 .. Len(file) /\ r = file[1]
    BY <1>0, <1>2, ReadOne DEF Shapes
<1>4. /\ r.home \in Sector \cup {None}
      /\ r.type \in Movers => r.home \in Sector
      /\ r.type \in Movers /\ r.home \in ManualRaise => r.type \in Doors
      /\ r.type = "timer" => r.home = None
      /\ ~ r.running => r.type \in Ceilings /\ r.move = "stasis"
      /\ r.watched => r.running /\ r.type # "combine"
      /\ r.type \in Movers => \A u \in MoverThinkers :
             home[u] = r.home => r.home \in ManualOpen
    BY <1>0, <1>3 DEF Records
<1> HIDE DEF r
<1>5. /\ t \in Thinker /\ fn[t] = "free"
      /\ list' \in Seq(Thinker) /\ IsInjective(list')
      /\ Len(list) \in Nat /\ Len(list') = Len(list) + 1
      /\ \A u : u \in ToSet(list') <=> u \in ToSet(list) \/ u = t
    BY <1>0, <1>1, ListGrowsByOne
<1>6. \A u \in Thinker : u # t => /\ fn'[u] = fn[u] /\ type'[u] = type[u]
                                   /\ move'[u] = move[u] /\ home'[u] = home[u]
    BY <1>0, <1>1, <1>5 DEF Shapes
<1>7. /\ fn'[t] = IF r.running THEN "run" ELSE "stasis"
      /\ type'[t] = r.type /\ move'[t] = r.move /\ home'[t] = r.home
    BY <1>0, <1>1, <1>5 DEF Shapes
<1>8. t \in Live' /\ \A u \in Live : u # t /\ u \in Live' /\ type'[u] = type[u] /\ home'[u] = home[u]
    BY <1>5, <1>6, <1>7 DEF Live
<1>9. \A u \in Thinker : fn'[u] = "free" \/ type'[u] = "timer" => home'[u] = None
    <2> TAKE u \in Thinker
    <2>1. CASE u = t
        BY <1>4, <1>7, <2>1
    <2>2. CASE u # t
        BY <1>0, <1>6, <2>2 DEF MoversInv, Homes
    <2> QED BY <2>1, <2>2
<1>10. \A u \in Thinker : fn'[u] = "stasis" => u \in plats' \cup ceilings' /\ move'[u] = "stasis"
    <2> TAKE u \in Thinker
    <2>1. CASE u = t
        BY <1>1, <1>4, <1>7, <2>1
    <2>2. CASE u # t
        BY <1>0, <1>1, <1>6, <2>2 DEF MoversInv, SlotsExact
    <2> QED BY <2>1, <2>2
<1>11. \A u \in MoverThinkers : Kept(u)
    BY <1>8 DEF MoverThinkers, Kept
<1>12. ASSUME r.type \in Movers PROVE Kind
    <2> DEFINE S == {r.home}
               at == [s \in S |-> t]
    <2>1. S \in SUBSET Sector /\ at \in [S -> Free] /\ \A s \in S : at[s] = t /\ s = r.home
        BY <1>4, <1>12
    <2>2. specialdata[r.home] = None \/ r.home \in ManualOpen
        BY <1>0, <1>4, <1>12 DEF MoversInv, BusyIsLive
    <2>3. t \in MoverThinkers'
        BY <1>7, <1>8, <1>12 DEF MoverThinkers
    <2>4. \A u \in Thinker : u \in MoverThinkers' <=> u \in MoverThinkers \/ u = t
        BY <1>6, <2>3 DEF MoverThinkers, Live
    <2>5. /\ specialdata' = [s \in Sector |-> IF s \in S THEN at[s] ELSE specialdata[s]]
          /\ plats' = IF r.type \in Plats THEN plats \cup {at[s] : s \in S} ELSE plats
          /\ ceilings' = IF r.type \in Ceilings THEN ceilings \cup {at[s] : s \in S} ELSE ceilings
        <3>1. \A s \in Sector : (r.type \in Movers /\ s = r.home) <=> s \in S
            BY <1>12
        <3>2. {at[s] : s \in S} = {t}
            OBVIOUS
        <3> QED BY <1>1, <2>1, <3>1, <3>2
    <2> HIDE DEF S, at
    <2>6. MoversComeTo(S, at, r.type)
        <3>1. /\ \A s \in S : specialdata[s] = None \/ s \in ManualOpen
              /\ \A s, q \in S : at[s] = at[q] => s = q
              /\ \A s \in S : at[s] \in MoverThinkers' /\ type'[at[s]] = r.type /\ home'[at[s]] = s
              /\ \A s \in S : s \in ManualRaise => r.type \in Doors
            BY <1>4, <1>7, <1>12, <2>1, <2>2, <2>3
        <3>2. \A u \in Thinker : u \in MoverThinkers' <=>
                    u \in MoverThinkers \/ \E s \in S : u = at[s]
            <4>1. \A u : (\E s \in S : u = at[s]) <=> u = t
                BY <2>1 DEF S
            <4> QED BY <2>4, <4>1
        <3>3. S \in SUBSET Sector /\ at \in [S -> Free]
            BY <2>1
        <3> QED BY <1>9, <1>10, <1>11, <1>12, <2>5, <3>1, <3>2, <3>3 DEF MoversComeTo
    <2> QED BY <2>6 DEF Kind
<1>13. ASSUME r.type \notin Movers PROVE Kind
    <2>1. r.type \notin Plats /\ r.type \notin Ceilings
        BY <1>13, TypeSets
    <2>2. UNCHANGED <<specialdata, plats, ceilings>>
        BY <1>0, <1>1, <1>13, <2>1 DEF Shapes
    <2>3. \A u \in Thinker : u \in MoverThinkers' <=> u \in MoverThinkers
        BY <1>5, <1>6, <1>7, <1>13 DEF MoverThinkers, Live
    <2>4. StoppedOnly
        BY <1>10, <2>2 DEF StoppedOnly
    <2>5. MoversStay
        BY <1>9, <1>11, <2>2, <2>3, <2>4 DEF MoversStay
    <2> QED BY <2>5 DEF Kind
<1>14. Watched'
    <2>1. CASE r.watched
        BY <1>1, <1>4, <1>7, <1>8, <2>1 DEF Watched
    <2>2. CASE ~ r.watched
        BY <1>0, <1>1, <1>8, <2>2, MovedStaysWatched
    <2> QED BY <2>1, <2>2
<1>15. Linked'
    BY <1>0, <1>5, <1>6, <1>7 DEF Linked
<1>16. Records' /\ file' \in Seq(ToSet(file'))
    <2>1. \A u \in MoverThinkers' :
              \/ u \in MoverThinkers /\ home'[u] = home[u]
              \/ r.type \in Movers /\ home'[u] = r.home
        BY <1>6, <1>7 DEF MoverThinkers, Live
    <2> QED BY <1>0, <1>2, <2>1, RecordsLeft DEF r
<1>17. Shapes'
    <2>1. cursor' \in 0 .. Len(list') /\ cursor' = 0 /\ todo' = {}
        BY <1>0, <1>2, <1>5 DEF Shapes
    <2>2. fn' \in [Thinker -> {"run", "stasis", "unlink", "free"}]
        BY <1>0, <1>1 DEF Shapes
    <2>3. home' \in [Thinker -> Sector \cup {None}]
        BY <1>0, <1>1, <1>4 DEF Shapes
    <2>4. specialdata' \in [Sector -> Thinker \cup {None}]
        BY <1>0, <1>1, <1>5 DEF Shapes
    <2>5. watch' \in Thinker \cup {None}
        BY <1>0, <1>1, <1>5 DEF Shapes
    <2>6. /\ DOMAIN type' = Thinker /\ DOMAIN move' = Thinker
          /\ DOMAIN old' = Thinker /\ DOMAIN peer' = Thinker
        BY <1>0, <1>1, <1>2 DEF Shapes
    <2>7. /\ special' \in [Sector -> LightTypes \cup {"none"}] /\ todo' \subseteq Sector
          /\ \E map \in Maps : lines' \subseteq map
        BY <1>0, <1>2 DEF Shapes
    <2> QED BY <1>5, <1>16, <2>1, <2>2, <2>3, <2>4, <2>5, <2>6, <2>7 DEF Shapes
<1> QED BY <1>12, <1>13, <1>14, <1>15, <1>16, <1>17 DEF Rest

\* A combined light is read: a thinker that is removed at once, and perhaps a
\* new light.
LEMMA ReadCombineStep ==
    ASSUME IInv, ReadCombine
    PROVE  Kind /\ Rest'
<1>0. Shapes /\ Linked /\ Watched /\ MoversInv /\ Records
    BY DEF IInv
<1> DEFINE r == Head(file)
           found == Combiners(special[r.home])
<1> DEFINE Made(t, u) ==
        /\ list' = IF found = {} THEN Append(list, t) ELSE list \o <<t, u>>
        /\ fn' = [x \in Thinker |-> IF x = t THEN "unlink"
                                    ELSE IF x = u /\ found # {} THEN "run"
                                    ELSE fn[x]]
        /\ type' = [x \in Thinker |-> IF x = u /\ found # {} THEN "combine" ELSE type[x]]
        /\ move' = [x \in Thinker |-> IF x = u /\ found # {} THEN special[r.home]
                                                             ELSE move[x]]
        /\ home' = [x \in Thinker |-> IF x = u /\ found # {} THEN r.home ELSE home[x]]
        /\ \/ found = {} /\ UNCHANGED peer
           \/ \E i \in found : /\ IsLeast(i, found)
                               /\ peer' = [peer EXCEPT ![u] = list[i]]
        /\ watch' = IF r.watched THEN t ELSE watch
<1>1. PICK t \in Free : \E u \in Free \ {t} : Made(t, u)
    BY DEF ReadCombine
<1>20. PICK u \in Free \ {t} : Made(t, u)
    BY <1>1
<1>2. /\ file # <<>> /\ file' = Tail(file) /\ r.type = "combine"
      /\ UNCHANGED <<cursor, old, moverVars, special, todo>>
    BY DEF ReadCombine
<1>3. 1 \in 1 .. Len(file) /\ r = file[1]
    BY <1>0, <1>2, ReadOne DEF Shapes
<1>4. r.home \in Sector \cup {None} /\ ~ r.watched
    BY <1>0, <1>2, <1>3 DEF Records
<1> HIDE DEF r, found
<1>5. /\ t \in Thinker /\ u \in Thinker /\ t # u /\ fn[t] = "free" /\ fn[u] = "free"
      /\ watch' = watch
    BY <1>20, <1>4 DEF Free
<1>6. \A x \in Thinker : x # t /\ x # u => /\ fn'[x] = fn[x] /\ type'[x] = type[x]
                                            /\ move'[x] = move[x] /\ home'[x] = home[x]
    BY <1>20
<1>7. /\ fn'[t] = "unlink" /\ home'[t] = home[t]
      /\ found # {} => fn'[u] = "run" /\ type'[u] = "combine"
      /\ found = {} => fn'[u] = "free" /\ home'[u] = home[u]
    BY <1>20, <1>5
<1>8. "combine" \notin Movers
    BY TypeSets
<1>9. \A x \in Live : x # t /\ x # u /\ x \in Live' /\ type'[x] = type[x] /\ home'[x] = home[x]
    BY <1>5, <1>6 DEF Live
<1>10. \A x \in Thinker : x \in MoverThinkers' <=> x \in MoverThinkers
    <2> TAKE x \in Thinker
    <2>1. CASE x = t
        BY <1>5, <1>7, <2>1 DEF MoverThinkers, Live
    <2>2. CASE x = u
        BY <1>5, <1>7, <1>8, <2>2 DEF MoverThinkers, Live
    <2>3. CASE x # t /\ x # u
        BY <1>6, <2>3 DEF MoverThinkers, Live
    <2> QED BY <2>1, <2>2, <2>3
<1>11. MoversStay
    <2>1. \A x \in MoverThinkers : Kept(x)
        BY <1>9 DEF MoverThinkers, Kept
    <2>2. \A x \in Thinker : fn'[x] = "free" \/ type'[x] = "timer" => home'[x] = None
        <3> TAKE x \in Thinker
        <3>1. CASE x = t
            BY <1>0, <1>5, <1>7, <3>1 DEF MoversInv, Homes
        <3>2. CASE x = u
            BY <1>0, <1>5, <1>7, <3>2 DEF MoversInv, Homes
        <3>3. CASE x # t /\ x # u
            BY <1>0, <1>6, <3>3 DEF MoversInv, Homes
        <3> QED BY <3>1, <3>2, <3>3
    <2>3. StoppedOnly
        <3>1. \A x \in Thinker : fn'[x] = "stasis" => x # t /\ x # u
            BY <1>7
        <3> QED BY <1>0, <1>2, <1>6, <3>1 DEF MoversInv, SlotsExact, StoppedOnly, moverVars
    <2> QED BY <1>2, <1>10, <2>1, <2>2, <2>3 DEF MoversStay, moverVars
<1>12. Watched'
    BY <1>0, <1>5, <1>9, MovedStaysWatched
<1>13. /\ list' \in Seq(Thinker) /\ IsInjective(list')
       /\ Len(list) \in Nat /\ Len(list') \in Nat /\ Len(list') >= Len(list)
       /\ \A x : x \in ToSet(list') <=> \/ x \in ToSet(list) \/ x = t
                                        \/ found # {} /\ x = u
    <2>1. CASE found = {}
        <3>1. list' = Append(list, t)
            BY <1>20, <2>1
        <3> QED BY <1>0, <2>1, <3>1, ListGrowsByOne
    <2>2. CASE found # {}
        <3> DEFINE k == <<t, u>>
        <3>1. list' = list \o k
            BY <1>20, <2>2
        <3>2. k \in Seq(Thinker) /\ Len(k) = 2 /\ DOMAIN k = 1 .. 2 /\ k[1] = t /\ k[2] = u
            BY <1>5
        <3> HIDE DEF k
        <3>3. \A i \in 1 .. 2 : i = 1 \/ i = 2
            OBVIOUS
        <3>4. IsInjective(k) /\ Range(k) = {t, u}
            BY <1>5, <3>2, <3>3 DEF IsInjective, Range
        <3>5. list \in Seq(Thinker) /\ IsInjective(list) /\ Range(list) = ToSet(list)
            BY <1>0 DEF Shapes, Linked, Range, ToSet
        <3>6. t \notin ToSet(list) /\ u \notin ToSet(list)
            BY <1>0, <1>5 DEF Linked
        <3>7. Range(list) \cap Range(k) = {}
            BY <3>4, <3>5, <3>6
        <3>8. /\ list' \in Seq(Thinker) /\ IsInjective(list')
              /\ Range(list') = Range(list) \cup Range(k) /\ Len(list') = Len(list) + Len(k)
            <4>1. /\ list \o k \in Seq(Thinker) /\ IsInjective(list \o k)
                  /\ Range(list \o k) = Range(list) \cup Range(k)
                  /\ Len(list \o k) = Len(list) + Len(k)
                <5>1. k \in Seq(Thinker) /\ list \in Seq(Thinker)
                    BY <3>2, <3>5
                <5>2. IsInjective(k) /\ IsInjective(list)
                    BY <3>4, <3>5
                <5> HIDE DEF Made
                <5> QED BY <5>1, <5>2, <3>7, ConcatList
            <4> QED BY <3>1, <4>1
        <3>9. Range(list') = ToSet(list') /\ Len(list) \in Nat
            BY <3>5 DEF Range, ToSet
        <3> QED BY <2>2, <3>2, <3>4, <3>5, <3>8, <3>9
    <2> QED BY <2>1, <2>2
<1>14. Linked'
    <2>1. ASSUME NEW x \in Thinker PROVE x \in ToSet(list') <=> fn'[x] # "free"
        <3>1. CASE x = t
            BY <1>7, <1>13, <3>1
        <3>2. CASE x = u
            BY <1>0, <1>5, <1>7, <1>13, <3>2 DEF Linked
        <3>3. CASE x # t /\ x # u
            BY <1>0, <1>6, <1>13, <3>3 DEF Linked
        <3> QED BY <3>1, <3>2, <3>3
    <2> QED BY <1>13, <2>1 DEF Linked
<1>15. Records' /\ file' \in Seq(ToSet(file'))
    <2>1. \A x \in MoverThinkers' : x \in MoverThinkers /\ home'[x] = home[x]
        BY <1>9, <1>10, MoverThinkersAre DEF MoverThinkers
    <2> QED BY <1>0, <1>2, <2>1, RecordsLeft
<1>16. Shapes'
    <2>1. cursor' \in 0 .. Len(list') /\ cursor' = 0 /\ todo' = {}
        BY <1>0, <1>2, <1>13 DEF Shapes
    <2>2. fn' \in [Thinker -> {"run", "stasis", "unlink", "free"}]
        BY <1>0, <1>20 DEF Shapes
    <2>3. home' \in [Thinker -> Sector \cup {None}]
        BY <1>0, <1>20, <1>4 DEF Shapes
    <2>4. /\ DOMAIN type' = Thinker /\ DOMAIN move' = Thinker
          /\ DOMAIN old' = Thinker /\ DOMAIN peer' = Thinker
        BY <1>0, <1>20, <1>2 DEF Shapes
    <2>5. /\ special' \in [Sector -> LightTypes \cup {"none"}] /\ todo' \subseteq Sector
          /\ \E map \in Maps : lines' \subseteq map
          /\ specialdata' \in [Sector -> Thinker \cup {None}]
          /\ watch' \in Thinker \cup {None}
        BY <1>0, <1>2, <1>5 DEF Shapes, moverVars
    <2> QED BY <1>13, <1>15, <2>1, <2>2, <2>3, <2>4, <2>5 DEF Shapes
<1> QED BY <1>11, <1>12, <1>14, <1>15, <1>16 DEF Kind, Rest

---------------------------------------------------------------------------
(* The invariant and what follows from it.                                 *)

\* The level starts without thinkers.
LEMMA InitInv ==
    ASSUME Init
    PROVE  IInv
<1>1. /\ list = <<>> /\ cursor = 0 /\ watch = None /\ todo = Sector /\ file = <<>>
      /\ special = SpecialAt
      /\ fn = [t \in Thinker |-> "free"]
      /\ type = [t \in Thinker |-> "none"] /\ move = [t \in Thinker |-> "none"]
      /\ old = [t \in Thinker |-> "none"] /\ home = [t \in Thinker |-> None]
      /\ peer = [t \in Thinker |-> None]
      /\ specialdata = [s \in Sector |-> None] /\ plats = {} /\ ceilings = {}
      /\ lines \in Maps
    BY DEF Init, InitMovers
<1>2. MoverThinkers = {} /\ Live = {}
    BY <1>1 DEF MoverThinkers, Live
<1>3. /\ list \in Seq(Thinker) /\ Len(list) = 0 /\ ToSet(list) = {} /\ IsInjective(list)
      /\ file \in Seq(ToSet(file)) /\ Len(file) = 0
    BY <1>1, EmptySeq DEF ToSet, IsInjective
<1>4. Shapes
    BY <1>1, <1>3, SpecialsAreLights DEF Shapes
<1>5. Linked /\ Watched /\ Records
    BY <1>1, <1>3 DEF Linked, Watched, Records
<1>6. Homes /\ BusyIsLive /\ OneMover
    BY <1>1, <1>2 DEF Homes, BusyIsLive, OneMover
<1>7. SlotsExact
    BY <1>1, <1>2 DEF SlotsExact
<1> QED BY <1>4, <1>5, <1>6, <1>7 DEF IInv, MoversInv

\* Every step is of one of the four kinds.
LEMMA NextIsKind ==
    ASSUME IInv, Next, ~ SuspendMovers, ~ WatchCombined
    PROVE  Kind /\ Rest'
<1>1. CASE Idle /\ LineMovers /\ UNCHANGED <<lightVars, file, saved>>
    BY <1>1, LineStep
<1>2. CASE /\ Idle
           /\ \E line \in lines :
                line[2] \in LightTypes \cup {"none"} /\ P_ModifySpecial(line[1], line[2])
           /\ UNCHANGED <<file, saved>>
    BY <1>2, ModifySpecialStep
<1>3. CASE AddNextSpecial /\ UNCHANGED <<file, saved>>
    BY <1>3, AddSpecialStep
<1>4. CASE Idle /\ StartRound /\ UNCHANGED <<moverVars, lightVars, file, saved>>
    BY <1>4, StartRoundStep
<1>5. CASE ThinkerTurn /\ UNCHANGED <<file, saved>>
    <2>1. PICK t \in Thinker :
            \/ (P_UnlinkThinker(t) \/ Skip(t)) /\ UNCHANGED <<moverVars, lightVars>>
            \/ T_Move(t) /\ UNCHANGED lightVars
            \/ T_Light(t) \/ T_Sequence(t) \/ T_Combine(t)
        BY <1>5 DEF ThinkerTurn
    <2>2. UNCHANGED file
        BY <1>5
    <2> QED BY <2>1, <2>2, UnlinkStep, SkipStep, MoveStep, LightStep, SequenceStep, CombineStep
<1>6. CASE Reload
    BY <1>6, ReloadStep
<1>7. CASE ReadThinker
    BY <1>7, ReadStep
<1>8. CASE ReadCombine
    BY <1>8, ReadCombineStep
<1>9. CASE Watch
    BY <1>9, WatchStep
<1>10. CASE P_SuspendMacro
    BY <1>10, SuspendStep
<1> QED BY <1>1, <1>2, <1>3, <1>4, <1>5, <1>6, <1>7, <1>8, <1>9, <1>10 DEF Next

\* A step that changes nothing keeps everything.
LEMMA StutterKeeps ==
    ASSUME IInv, UNCHANGED vars
    PROVE  IInv' /\ UNCHANGED Owners
<1>1. UNCHANGED <<list, cursor, fn, type, move, old, home, peer, watch, specialdata, plats,
                  ceilings, lines, special, todo, file>>
    BY DEF vars, thinkerVars, moverVars, lightVars
<1>2. Live' = Live /\ MoverThinkers' = MoverThinkers
    BY <1>1 DEF Live, MoverThinkers
<1>3. Shapes' /\ Linked' /\ Watched' /\ Records'
    BY <1>1, <1>2 DEF IInv, Shapes, Linked, Watched, Records
<1>4. Homes' /\ BusyIsLive' /\ OneMover' /\ SlotsExact'
    BY <1>1, <1>2 DEF IInv, MoversInv, Homes, BusyIsLive, OneMover, SlotsExact
<1> QED BY <1>1, <1>2, <1>3, <1>4 DEF IInv, MoversInv, Owners

\* The invariant is inductive.
LEMMA NextInv ==
    ASSUME IInv, [Next]_vars, ~ SuspendMovers, ~ WatchCombined
    PROVE  IInv'
<1>1. CASE Next
    <2>1. Kind /\ Rest' /\ MoversInv /\ DOMAIN fn = Thinker
        BY <1>1, NextIsKind DEF IInv, Shapes
    <2>2. MoversInv'
        BY <2>1, StayKeeps, ComeKeeps, GoKeeps, GoneKeeps DEF Kind
    <2> QED BY <2>1, <2>2 DEF IInv, Rest
<1>2. CASE UNCHANGED vars
    BY <1>2, StutterKeeps
<1> QED BY <1>1, <1>2

\* In every reachable state.
THEOREM InvHolds ==
    ASSUME ~ SuspendMovers, ~ WatchCombined
    PROVE  Spec => []IInv
<1>1. Init => IInv
    BY InitInv
<1>2. IInv /\ [Next]_vars => IInv'
    BY NextInv
<1> QED BY <1>1, <1>2, PTL DEF Spec

\* The thinkers that are allocated are those of the list, and every mover has a
\* sector.
THEOREM TypesHold ==
    ASSUME ~ SuspendMovers, ~ WatchCombined
    PROVE  Spec => []TypeOK
<1>1. IInv => TypeOK
    <2> SUFFICES ASSUME IInv PROVE TypeOK
        OBVIOUS
    <2>1. plats \subseteq Thinker /\ ceilings \subseteq Thinker
        BY DEF IInv, MoversInv, SlotsExact, Live
    <2> QED BY <2>1 DEF IInv, MoversInv, Shapes, Linked, Homes, TypeOK
<1> QED BY <1>1, InvHolds, PTL

\* sector->specialdata tells what moves a sector, and that alone: no line turns
\* round a door that is gone or starts a second mover in a sector that has one.
THEOREM SectorsAreHeld ==
    ASSUME ~ SuspendMovers, ~ WatchCombined
    PROVE  Spec => []HeldByMover
<1>1. IInv => HeldByMover
    BY DEF IInv, MoversInv, HeldByMover
<1> QED BY <1>1, InvHolds, PTL

\* The tables of active plats and ceilings hold those that exist.
THEOREM SlotsAreExact ==
    ASSUME ~ SuspendMovers, ~ WatchCombined
    PROVE  Spec => []SlotsExact
<1>1. IInv => SlotsExact
    BY DEF IInv, MoversInv
<1> QED BY <1>1, InvHolds, PTL

\* A macro never waits for a thinker that was freed.
THEOREM WatchedAreLive ==
    ASSUME ~ SuspendMovers, ~ WatchCombined
    PROVE  Spec => []WatchIsLive
<1>1. IInv => WatchIsLive
    BY DEF IInv, Watched, WatchIsLive
<1> QED BY <1>1, InvHolds, PTL

\* Movers own the sectors they move: lines, turns, saving and loading are claims,
\* releases and resets of SectorOwner.
THEOREM MoversOwnSectors ==
    ASSUME ~ SuspendMovers, ~ WatchCombined
    PROVE  Spec => ImplementsOwner
<1>1. Init => Owner!Init
    <2> SUFFICES ASSUME Init PROVE Owner!Init
        OBVIOUS
    <2>1. MoverThinkers = {}
        BY DEF Init, MoverThinkers, Live
    <2> QED BY <2>1 DEF Owner!Init, Owners
<1>2. IInv /\ [Next]_vars => [Owner!Next]_Owners
    <2> SUFFICES ASSUME IInv, [Next]_vars PROVE Owner!Next \/ UNCHANGED Owners
        OBVIOUS
    <2>1. CASE Next
        <3>1. Kind /\ MoversInv
            BY <2>1, NextIsKind DEF IInv
        <3> QED BY <3>1, StayOwns, ComeOwns, GoOwns, GoneKeeps, GoneOwns DEF Kind
    <2>2. CASE UNCHANGED vars
        BY <2>2, StutterKeeps
    <2> QED BY <2>1, <2>2
<1> QED BY <1>1, <1>2, InvHolds, PTL DEF Spec, ImplementsOwner, Owner!Spec

---------------------------------------------------------------------------
(* Combined lights.  CombinerLives is about the turn of a combined light   *)
(* only; CombineInv says where the light it copies is at any time.         *)

\* The combined light t, at place j, copies a light at an earlier place i.  That one
\* may only have been marked if its turn has passed in this round and t's has not.
CopiesFrom(t, i, j) ==
    /\ i < j
    /\ list[i] = peer[t] /\ list[j] = t
    /\ type[list[i]] \notin Movers \cup {"timer"}
    /\ fn[list[i]] = "run" \/ (fn[list[i]] = "unlink" /\ i < cursor /\ cursor =< j)

CombineInv ==
    /\ \A t \in Thinker : fn[t] = "run" /\ type[t] = "combine" =>
            /\ home[t] \in Sector
            /\ \E i, j \in 1 .. Len(list) : CopiesFrom(t, i, j)
    /\ \A i \in 1 .. Len(file) : file[i].type = "combine" => file[i].home \in Sector

\* What is allocated keeps its type, its sector and the light it copies.
KeepsAll ==
    \A t \in Thinker : fn[t] # "free" =>
        type'[t] = type[t] /\ home'[t] = home[t] /\ peer'[t] = peer[t]

\* New thinkers come to the end of the list.
Extends ==
    /\ list' \in Seq(Thinker)
    /\ Len(list) =< Len(list')
    /\ \A k \in 1 .. Len(list) : list'[k] = list[k]

\* A new combined light copies a light that runs.
NewCopies ==
    \A t \in Thinker : fn[t] = "free" /\ fn'[t] = "run" /\ type'[t] = "combine" =>
        /\ home'[t] \in Sector
        /\ \E i \in 1 .. Len(list) :
            /\ fn[list[i]] = "run" /\ type[list[i]] \notin Movers \cup {"timer"}
            /\ peer'[t] = list[i]

\* Every light goes on.
LightsGoOn ==
    \A t \in Thinker :
        fn[t] # "free" /\ type[t] \notin Movers \cup {"timer"} => fn'[t] = fn[t]

RecordsOfLights ==
    \A i \in 1 .. Len(file) : file[i].type = "combine" => file[i].home \in Sector

\* The thinkers of the list are allocated.
LEMMA ListFactsOf ==
    ASSUME Shapes, Linked
    PROVE  /\ Len(list) \in Nat /\ DOMAIN list = 1 .. Len(list)
           /\ \A i \in 1 .. Len(list) : list[i] \in Thinker /\ fn[list[i]] # "free"
           /\ \A i, j \in 1 .. Len(list) : list[i] = list[j] => i = j
           /\ \A t \in Thinker : fn[t] # "free" => \E i \in 1 .. Len(list) : list[i] = t
<1>1. list \in Seq(Thinker) /\ Len(list) \in Nat /\ DOMAIN list = 1 .. Len(list)
    BY DEF Shapes
<1>2. \A i \in 1 .. Len(list) : list[i] \in Thinker /\ list[i] \in ToSet(list)
    BY <1>1 DEF ToSet
<1>3. \A t \in ToSet(list) : \E i \in 1 .. Len(list) : list[i] = t
    BY <1>1 DEF ToSet
<1> QED BY <1>1, <1>2, <1>3 DEF Linked, IsInjective

\* The light that a combined light copies is allocated, so that CombinerLives holds.
LEMMA CopiedIsAllocated ==
    ASSUME IInv, CombineInv
    PROVE  CombinerLives
<1> SUFFICES ASSUME NEW t \in Thinker, AtTurn(t), fn[t] = "run", type[t] = "combine"
             PROVE  peer[t] \notin Free
    BY DEF CombinerLives
<1>1. PICK i, j \in 1 .. Len(list) : CopiesFrom(t, i, j)
    BY DEF CombineInv
<1> QED BY <1>1 DEF CopiesFrom, Free

\* Whoever is allocated in a step that leaves the lights to go on still copies
\* what it copied, and whoever is new copies a light before it.
LEMMA BesideKeeps ==
    ASSUME IInv, IInv', CombineInv, Extends, KeepsAll, NewCopies, LightsGoOn,
           cursor' = cursor \/ cursor = 0, RecordsOfLights'
    PROVE  CombineInv'
<1>1. Shapes /\ Linked /\ (Shapes /\ Linked)'
    BY DEF IInv
<1>2. /\ Len(list) \in Nat /\ DOMAIN list = 1 .. Len(list)
      /\ \A i \in 1 .. Len(list) : list[i] \in Thinker /\ fn[list[i]] # "free"
    BY <1>1, ListFactsOf
<1>3. /\ Len(list') \in Nat
      /\ \A t \in Thinker : fn'[t] # "free" => \E i \in 1 .. Len(list') : list'[i] = t
    <2>1. list' \in Seq(Thinker) /\ Len(list') \in Nat /\ DOMAIN list' = 1 .. Len(list')
        BY <1>1 DEF Shapes
    <2>2. \A t \in ToSet(list') : \E i \in 1 .. Len(list') : list'[i] = t
        BY <2>1 DEF ToSet
    <2> QED BY <1>1, <2>1, <2>2 DEF Linked
<1>4. \A i \in 1 .. Len(list) : i \in 1 .. Len(list') /\ list'[i] = list[i] /\ i \in Nat
    BY <1>2, <1>3 DEF Extends
<1>5. cursor \in Nat /\ cursor' \in Nat
    BY <1>1, <1>2 DEF Shapes
<1>6. "combine" \notin Movers \cup {"timer"}
    BY TypeSets
<1>7. ASSUME NEW t \in Thinker, fn'[t] = "run", type'[t] = "combine", fn[t] # "free"
      PROVE  home'[t] \in Sector /\ \E i, j \in 1 .. Len(list') : CopiesFrom(t, i, j)'
    <2>1. type[t] = "combine" /\ home'[t] = home[t] /\ peer'[t] = peer[t] /\ fn[t] = "run"
        BY <1>6, <1>7 DEF KeepsAll, LightsGoOn
    <2>2. PICK i, j \in 1 .. Len(list) : CopiesFrom(t, i, j)
        BY <2>1 DEF CombineInv
    <2>3. /\ i < j /\ list[i] = peer[t] /\ list[j] = t
          /\ type[list[i]] \notin Movers \cup {"timer"}
          /\ fn[list[i]] = "run" \/ (fn[list[i]] = "unlink" /\ i < cursor /\ cursor =< j)
        BY <2>2 DEF CopiesFrom
    <2>4. type'[list[i]] = type[list[i]] /\ fn'[list[i]] = fn[list[i]]
        BY <1>2, <2>3 DEF KeepsAll, LightsGoOn
    <2>5. i < cursor => cursor' = cursor
        BY <1>2, <1>5
    <2>6. i \in 1 .. Len(list') /\ j \in 1 .. Len(list') /\ list'[i] = list[i] /\ list'[j] = list[j]
        BY <1>4
    <2>7. fn'[list'[i]] = "run" \/ (fn'[list'[i]] = "unlink" /\ i < cursor' /\ cursor' =< j)
        BY <2>3, <2>4, <2>5, <2>6
    <2>8. CopiesFrom(t, i, j)'
        BY <2>1, <2>3, <2>4, <2>6, <2>7 DEF CopiesFrom
    <2>9. home[t] \in Sector
        BY <2>1 DEF CombineInv
    <2> QED BY <2>1, <2>6, <2>8, <2>9
<1>8. ASSUME NEW t \in Thinker, fn'[t] = "run", type'[t] = "combine", fn[t] = "free"
      PROVE  home'[t] \in Sector /\ \E i, j \in 1 .. Len(list') : CopiesFrom(t, i, j)'
    <2>1. PICK i \in 1 .. Len(list) :
            /\ fn[list[i]] = "run" /\ type[list[i]] \notin Movers \cup {"timer"}
            /\ peer'[t] = list[i]
        BY <1>8 DEF NewCopies
    <2>2. PICK j \in 1 .. Len(list') : list'[j] = t
        BY <1>3, <1>8
    <2>3. ~ (j \in 1 .. Len(list))
        BY <1>2, <1>4, <1>8, <2>2
    <2>4. i < j
        BY <1>2, <1>3, <2>3
    <2>5. type'[list[i]] = type[list[i]] /\ fn'[list[i]] = fn[list[i]]
        BY <1>2, <2>1 DEF KeepsAll, LightsGoOn
    <2>6. i \in 1 .. Len(list') /\ list'[i] = list[i]
        BY <1>4
    <2>7. CopiesFrom(t, i, j)'
        BY <2>1, <2>2, <2>4, <2>5, <2>6 DEF CopiesFrom
    <2>8. home'[t] \in Sector
        BY <1>8 DEF NewCopies
    <2> QED BY <2>6, <2>7, <2>8
<1> QED BY <1>7, <1>8 DEF CombineInv, RecordsOfLights

\* The turn of x, which may end x, and new thinkers that are not combined lights.
\* A combined light ends with it if the light it copies has ended.
LEMMA TurnKeeps ==
    ASSUME IInv, IInv', CombineInv, Extends, KeepsAll, NEW x \in Thinker, AtTurn(x),
           NextTurn(Len(list')), fn[x] # "unlink", fn'[x] \in {fn[x], "unlink"},
           \A t \in Thinker : fn[t] # "free" /\ t # x => fn'[t] = fn[t],
           \A t \in Thinker : fn[t] = "free" => fn'[t] = "free" \/ type'[t] # "combine",
           fn[x] = "run" /\ type[x] = "combine" /\ fn[peer[x]] # "run" => fn'[x] = "unlink",
           RecordsOfLights'
    PROVE  CombineInv'
<1>1. Shapes /\ Linked
    BY DEF IInv
<1>2. /\ Len(list) \in Nat /\ DOMAIN list = 1 .. Len(list)
      /\ \A i \in 1 .. Len(list) : list[i] \in Thinker /\ fn[list[i]] # "free"
      /\ \A i, j \in 1 .. Len(list) : list[i] = list[j] => i = j
    BY <1>1, ListFactsOf
<1>3. Len(list') \in Nat /\ Len(list) =< Len(list')
    BY DEF Extends
<1>4. \A i \in 1 .. Len(list) : i \in 1 .. Len(list') /\ list'[i] = list[i] /\ i \in Nat
    BY <1>2, <1>3 DEF Extends
<1>5. cursor \in 1 .. Len(list) /\ list[cursor] = x
    BY <1>1, <1>2 DEF Shapes, AtTurn
<1>6. ASSUME NEW t \in Thinker, fn'[t] = "run", type'[t] = "combine"
      PROVE  home'[t] \in Sector /\ \E i, j \in 1 .. Len(list') : CopiesFrom(t, i, j)'
    <2>0. fn[t] # "free"
        BY <1>6
    <2>1. type[t] = "combine" /\ home'[t] = home[t] /\ peer'[t] = peer[t]
        BY <1>6, <2>0 DEF KeepsAll
    <2>2. fn[t] = "run"
        BY <1>6, <2>0
    <2>3. PICK i, j \in 1 .. Len(list) : CopiesFrom(t, i, j)
        BY <2>1, <2>2 DEF CombineInv
    <2>4. /\ i < j /\ list[i] = peer[t] /\ list[j] = t
          /\ type[list[i]] \notin Movers \cup {"timer"}
          /\ fn[list[i]] = "run" \/ (fn[list[i]] = "unlink" /\ i < cursor /\ cursor =< j)
        BY <2>3 DEF CopiesFrom
    <2>5. type'[list[i]] = type[list[i]]
        BY <1>2 DEF KeepsAll
    <2>6. i \in 1 .. Len(list') /\ j \in 1 .. Len(list') /\ list'[i] = list[i] /\ list'[j] = list[j]
        BY <1>4
    <2>7. cursor < Len(list) => cursor' = cursor + 1
        BY <1>2, <1>3, <1>5 DEF NextTurn
    <2>8. fn'[list'[i]] = "run" \/ (fn'[list'[i]] = "unlink" /\ i < cursor' /\ cursor' =< j)
        <3>1. CASE fn[list[i]] = "unlink"
            <4>1. list[i] # x /\ i < cursor /\ cursor =< j /\ fn'[list[i]] = "unlink"
                BY <1>2, <2>4, <3>1
            <4>2. cursor # j
                <5>1. SUFFICES ASSUME cursor = j PROVE FALSE
                    OBVIOUS
                <5>2. t = x
                    BY <1>5, <2>4, <5>1
                <5> QED BY <1>6, <2>1, <2>2, <2>4, <3>1, <5>2
            <4>3. cursor < Len(list) /\ cursor + 1 =< j /\ i < cursor + 1
                BY <1>2, <1>5, <4>1, <4>2
            <4> QED BY <2>6, <2>7, <4>1, <4>3
        <3>2. CASE fn[list[i]] = "run" /\ list[i] # x
            BY <1>2, <2>6, <3>2
        <3>3. CASE fn[list[i]] = "run" /\ list[i] = x
            <4>1. i = cursor
                BY <1>2, <1>5, <3>3
            <4>2. cursor < Len(list) /\ i < cursor + 1 /\ cursor + 1 =< j
                BY <1>2, <2>4, <4>1
            <4> QED BY <2>6, <2>7, <3>3, <4>2
        <3> QED BY <2>4, <3>1, <3>2, <3>3
    <2>9. CopiesFrom(t, i, j)'
        BY <2>1, <2>4, <2>5, <2>6, <2>8 DEF CopiesFrom
    <2>10. home[t] \in Sector
        BY <2>1, <2>2 DEF CombineInv
    <2> QED BY <2>1, <2>6, <2>9, <2>10
<1> QED BY <1>6 DEF CombineInv, RecordsOfLights

\* A thinker is unlinked and freed: those behind it move up.
LEMMA UnlinkKeeps ==
    ASSUME IInv, CombineInv, NEW x \in Thinker, P_UnlinkThinker(x), file' = file
    PROVE  CombineInv'
<1>1. Shapes /\ Linked
    BY DEF IInv
<1>2. /\ Len(list) \in Nat /\ DOMAIN list = 1 .. Len(list) /\ list \in Seq(Thinker)
      /\ \A i \in 1 .. Len(list) : list[i] \in Thinker /\ fn[list[i]] # "free"
      /\ \A i, j \in 1 .. Len(list) : list[i] = list[j] => i = j
    BY <1>1, ListFactsOf DEF Shapes
<1>3. /\ fn[x] = "unlink" /\ list' = RemoveAt(list, cursor)
      /\ cursor' = IF cursor = Len(list) THEN 0 ELSE cursor
      /\ fn'[x] = "free"
      /\ \A t \in Thinker : t # x => /\ fn'[t] = fn[t] /\ type'[t] = type[t]
                                     /\ home'[t] = home[t] /\ peer'[t] = peer[t]
    BY <1>1 DEF P_UnlinkThinker, Shapes
<1>4. cursor \in 1 .. Len(list) /\ list[cursor] = x
    <2>1. AtTurn(x)
        BY DEF P_UnlinkThinker
    <2> QED BY <1>1, <1>2, <2>1 DEF Shapes, AtTurn
<1>5. /\ Len(list') = Len(list) - 1
      /\ \A k \in 1 .. Len(list) - 1 : list'[k] = IF k < cursor THEN list[k] ELSE list[k + 1]
    <2>1. list \in Seq(Thinker) /\ cursor \in 1 .. Len(list) /\ list' = RemoveAt(list, cursor)
        BY <1>2, <1>3, <1>4
    <2> QED BY <2>1, RemoveAtElements
<1>6. ASSUME NEW i \in 1 .. Len(list), i # cursor
      PROVE  \E a \in 1 .. Len(list') :
                /\ list'[a] = list[i]
                /\ a = IF i < cursor THEN i ELSE i - 1
    <2>1. CASE i < cursor
        <3>1. i \in 1 .. Len(list) - 1
            BY <1>2, <1>4, <2>1
        <3> QED BY <1>5, <2>1, <3>1
    <2>2. CASE ~ (i < cursor)
        <3>1. i - 1 \in 1 .. Len(list) - 1 /\ ~ (i - 1 < cursor) /\ (i - 1) + 1 = i
            BY <1>2, <1>4, <1>6, <2>2
        <3>2. list'[i - 1] = list[(i - 1) + 1]
            BY <1>5, <3>1
        <3> QED BY <1>5, <2>2, <3>1, <3>2
    <2> QED BY <2>1, <2>2
<1>7. ASSUME NEW t \in Thinker, fn'[t] = "run", type'[t] = "combine"
      PROVE  home'[t] \in Sector /\ \E i, j \in 1 .. Len(list') : CopiesFrom(t, i, j)'
    <2>1. /\ t # x /\ fn[t] = "run" /\ type[t] = "combine" /\ peer'[t] = peer[t]
          /\ home'[t] = home[t]
        BY <1>3, <1>7
    <2>2. PICK i, j \in 1 .. Len(list) : CopiesFrom(t, i, j)
        BY <2>1 DEF CombineInv
    <2>3. /\ i < j /\ list[i] = peer[t] /\ list[j] = t
          /\ type[list[i]] \notin Movers \cup {"timer"}
          /\ fn[list[i]] = "run" \/ (fn[list[i]] = "unlink" /\ i < cursor /\ cursor =< j)
        BY <2>2 DEF CopiesFrom
    <2>4. i # cursor /\ j # cursor /\ list[i] # x
        <3>1. j # cursor
            BY <1>4, <2>1, <2>3
        <3>2. i # cursor
            BY <1>3, <1>4, <2>3
        <3> QED BY <1>2, <1>4, <3>1, <3>2
    <2>5. PICK a \in 1 .. Len(list') :
                list'[a] = list[i] /\ a = IF i < cursor THEN i ELSE i - 1
        BY <1>6, <2>4
    <2>11. PICK b \in 1 .. Len(list') :
                list'[b] = list[j] /\ b = IF j < cursor THEN j ELSE j - 1
        BY <1>6, <2>4
    <2>12. i \in Nat /\ j \in Nat /\ cursor \in Nat
        BY <1>2, <1>4
    <2>6. a < b
        BY <2>3, <2>4, <2>5, <2>11, <2>12
    <2>7. fn'[list[i]] = fn[list[i]] /\ type'[list[i]] = type[list[i]]
        BY <1>2, <1>3, <2>4
    <2>8. i < cursor /\ cursor =< j => a < cursor' /\ cursor' =< b
        <3>1. SUFFICES ASSUME i < cursor, cursor =< j
                       PROVE  a < cursor' /\ cursor' =< b
            OBVIOUS
        <3>2. cursor < j /\ cursor # Len(list)
            BY <1>2, <1>4, <2>4, <3>1
        <3>3. cursor' = cursor
            BY <1>3, <3>2
        <3>4. a = i /\ b = j - 1
            BY <2>5, <2>11, <2>12, <3>1, <3>2
        <3> QED BY <2>12, <3>1, <3>2, <3>3, <3>4
    <2>9. CopiesFrom(t, a, b)'
        <3>1. /\ a < b /\ list'[a] = peer'[t] /\ list'[b] = t
              /\ type'[list'[a]] \notin Movers \cup {"timer"}
            BY <2>1, <2>3, <2>5, <2>6, <2>7, <2>11
        <3>2. fn'[list'[a]] = "run" \/ (fn'[list'[a]] = "unlink" /\ a < cursor' /\ cursor' =< b)
            BY <2>3, <2>5, <2>7, <2>8
        <3> QED BY <3>1, <3>2 DEF CopiesFrom
    <2>10. home[t] \in Sector
        BY <2>1 DEF CombineInv
    <2> QED BY <2>1, <2>9, <2>10
<1>8. \A i \in 1 .. Len(file') : file'[i].type = "combine" => file'[i].home \in Sector
    BY DEF CombineInv
<1> QED BY <1>7, <1>8 DEF CombineInv

---------------------------------------------------------------------------
(* Each action keeps CombineInv.                                           *)

\* What is added to the end of the list leaves the list before it as it is.
LEMMA ListExtends ==
    ASSUME Shapes, NEW q \in Seq(Thinker), list' = list \o q
    PROVE  Extends
<1>1. list \in Seq(Thinker) /\ Len(list) \in Nat /\ Len(q) \in Nat
    BY DEF Shapes
<1>2. /\ list \o q \in Seq(Thinker) /\ Len(list \o q) = Len(list) + Len(q)
      /\ \A k \in 1 .. Len(list) : (list \o q)[k] = list[k]
    BY <1>1, ConcatProperties
<1>3. Len(list) =< Len(list) + Len(q)
    BY <1>1
<1> QED BY <1>2, <1>3 DEF Extends

\* A list that stays extends itself.
LEMMA ListStays ==
    ASSUME Shapes, list' = list
    PROVE  Extends
<1>1. list \in Seq(Thinker) /\ Len(list) \in Nat
    BY DEF Shapes
<1> QED BY <1>1 DEF Extends

\* New thinkers of sectors in the order of the sectors.
LEMMA SectorsInOrder ==
    ASSUME NEW S \in SUBSET Sector, NEW at \in Where(S)
    PROVE  InOrder(at) \in Seq(Thinker) /\ DOMAIN at = S /\ \A s \in S : at[s] \in Free
<1>1. at \in [S -> Free] /\ \A s, r \in S : at[s] = at[r] => s = r
    BY DEF Where
<1>2. S \subseteq Nat /\ IsFiniteSet(S) /\ at \in [S -> Thinker]
    BY <1>1, SectorsAreNumbers, FS_Subset DEF Free
<1> QED BY <1>1, <1>2, InOrderList

\* AddThinkers leaves everything that is allocated as it is.
LEMMA AddThinkersBeside ==
    ASSUME Shapes, NEW S \in SUBSET Sector, NEW at \in Where(S),
           NEW ty, NEW start, NEW before, NEW by,
           AddThinkers(at, ty, start, before, by)
    PROVE  /\ Extends /\ KeepsAll
           /\ \A t \in Thinker : fn[t] # "free" => fn'[t] = fn[t]
           /\ \A t \in Thinker : fn[t] = "free" /\ fn'[t] # "free" =>
                type'[t] = ty /\ peer'[t] = by /\ home'[t] \in S
<1>1. InOrder(at) \in Seq(Thinker) /\ DOMAIN at = S /\ \A s \in S : at[s] \in Free
    BY SectorsInOrder
<1>2. Extends
    BY <1>1, ListExtends DEF AddThinkers
<1> DEFINE new == {at[s] : s \in S}
<1>3. /\ fn' = [t \in Thinker |-> IF t \in new THEN "run" ELSE fn[t]]
      /\ type' = [t \in Thinker |-> IF t \in new THEN ty ELSE type[t]]
      /\ home' = [t \in Thinker |->
                    IF t \in new THEN CHOOSE s \in S : at[s] = t ELSE home[t]]
      /\ peer' = [t \in Thinker |-> IF t \in new THEN by ELSE peer[t]]
    BY <1>1 DEF AddThinkers
<1>4. \A t \in new : t \in Thinker /\ fn[t] = "free" /\ (CHOOSE s \in S : at[s] = t) \in S
    BY <1>1 DEF Free
<1> HIDE DEF new
<1>5. \A t \in Thinker : fn[t] # "free" =>
            fn'[t] = fn[t] /\ type'[t] = type[t] /\ home'[t] = home[t] /\ peer'[t] = peer[t]
    BY <1>3, <1>4
<1>6. \A t \in Thinker : fn[t] = "free" /\ fn'[t] # "free" => t \in new
    BY <1>3
<1>7. \A t \in new : t \in Thinker /\ type'[t] = ty /\ peer'[t] = by /\ home'[t] \in S
    BY <1>3, <1>4
<1> QED BY <1>2, <1>5, <1>6, <1>7 DEF KeepsAll

\* What goes on beside the lights.
BesideLights ==
    /\ Extends /\ KeepsAll /\ LightsGoOn
    /\ cursor' = cursor
    /\ \A t \in Thinker : fn[t] = "free" => fn'[t] = "free" \/ type'[t] # "combine"

\* New movers.
LEMMA AddMoversBeside ==
    ASSUME Shapes, NEW S \in SUBSET Sector, NEW at \in Where(S),
           NEW ty \in Movers \cup LightTypes, NEW start, NEW before, NEW by,
           AddThinkers(at, ty, start, before, by), cursor' = cursor
    PROVE  BesideLights
<1>1. ty # "combine"
    BY TypeSets DEF LightTypes
<1> QED BY <1>1, AddThinkersBeside DEF BesideLights, LightsGoOn

\* Plats and ceilings, some of them restarted.
LEMMA NewActiveBeside ==
    ASSUME IInv, NEW tag, NEW ty \in Plats \cup Ceilings, NEW again,
           \A t \in again : t \in Thinker /\ fn[t] # "free" /\ type[t] \in Movers,
           NEW table, NEW max, NewActive(tag, ty, again, table, max)
    PROVE  BesideLights
<1> DEFINE S == Unclaimed(Tagged(tag))
<1>1. PICK at \in Where(S), start \in Start(ty) :
            LET new == {at[s] : s \in S}
            IN /\ list' = list \o InOrder(at)
               /\ fn' = [t \in Thinker |->
                            IF t \in new \cup again THEN "run" ELSE fn[t]]
               /\ type' = [t \in Thinker |-> IF t \in new THEN ty ELSE type[t]]
               /\ home' = [t \in Thinker |->
                            IF t \in new THEN CHOOSE s \in S : at[s] = t
                                         ELSE home[t]]
    BY DEF NewActive
<1>2. cursor' = cursor /\ peer' = peer
    BY DEF NewActive
<1>3. Shapes /\ S \in SUBSET Sector /\ ty # "combine"
    BY TypeSets DEF IInv, Unclaimed, Tagged
<1>4. InOrder(at) \in Seq(Thinker) /\ \A s \in S : at[s] \in Free
    BY <1>3, SectorsInOrder
<1>5. Extends
    BY <1>1, <1>3, <1>4, ListExtends
<1> DEFINE new == {at[s] : s \in S}
<1>6. \A t \in new : t \in Thinker /\ fn[t] = "free"
    BY <1>4 DEF Free
<1>7. /\ fn' = [t \in Thinker |-> IF t \in new \cup again THEN "run" ELSE fn[t]]
      /\ type' = [t \in Thinker |-> IF t \in new THEN ty ELSE type[t]]
      /\ home' = [t \in Thinker |-> IF t \in new THEN CHOOSE s \in S : at[s] = t
                                                 ELSE home[t]]
    BY <1>1
<1> HIDE DEF new
<1>8. KeepsAll
    BY <1>2, <1>6, <1>7 DEF KeepsAll
<1>9. LightsGoOn
    BY <1>6, <1>7 DEF LightsGoOn
<1>10. \A t \in Thinker : fn[t] = "free" => fn'[t] = "free" \/ type'[t] # "combine"
    BY <1>3, <1>6, <1>7
<1> QED BY <1>2, <1>5, <1>8, <1>9, <1>10 DEF BesideLights

\* A stop takes only movers.
LEMMA StopBeside ==
    ASSUME IInv, NEW tag, NEW table, EV_Stop(tag, table),
           \A t \in table : t \in Thinker /\ fn[t] # "free" /\ type[t] \in Movers
    PROVE  BesideLights
<1> DEFINE S == {t \in table : TagOf[home[t]] = tag /\ move[t] # "stasis"}
<1>1. /\ fn' = [t \in Thinker |-> IF t \in S THEN "stasis" ELSE fn[t]]
      /\ UNCHANGED <<list, cursor, type, home, peer>>
    BY DEF EV_Stop
<1>2. \A t \in S : t \in Thinker /\ fn[t] # "free" /\ type[t] \in Movers
    OBVIOUS
<1> HIDE DEF S
<1>3. KeepsAll /\ LightsGoOn
    BY <1>1, <1>2 DEF KeepsAll, LightsGoOn
<1>4. \A t \in Thinker : fn[t] = "free" => fn'[t] = "free" \/ type'[t] # "combine"
    BY <1>1, <1>2
<1>5. Extends
    BY <1>1, ListStays DEF IInv
<1> QED BY <1>1, <1>3, <1>4, <1>5 DEF BesideLights

\* A timer.
LEMMA TimerBeside ==
    ASSUME Shapes, P_SpawnTimer
    PROVE  BesideLights
<1>1. PICK t \in Free : AddThinker(t, "timer")
    BY DEF P_SpawnTimer
<1>2. /\ list' = Append(list, t) /\ t \in Thinker /\ fn[t] = "free"
      /\ fn' = [fn EXCEPT ![t] = "run"] /\ type' = [type EXCEPT ![t] = "timer"]
      /\ UNCHANGED <<home, peer, cursor>>
    BY <1>1 DEF AddThinker, P_SpawnTimer, Free
<1>3. list' = list \o <<t>> /\ <<t>> \in Seq(Thinker)
    BY <1>2 DEF Shapes
<1>4. Extends
    BY <1>3, ListExtends
<1>5. KeepsAll /\ LightsGoOn
    BY <1>2 DEF KeepsAll, LightsGoOn, Shapes
<1>6. \A u \in Thinker : fn[u] = "free" => fn'[u] = "free" \/ type'[u] # "combine"
    BY <1>2 DEF Shapes
<1> QED BY <1>2, <1>4, <1>5, <1>6 DEF BesideLights

\* What lines do to movers.
LEMMA LinesBeside ==
    ASSUME IInv, LineMovers
    PROVE  BesideLights
<1>1. Shapes /\ \A t \in plats \cup ceilings : t \in Thinker /\ fn[t] # "free" /\ type[t] \in Movers
    BY TypeSets DEF IInv, MoversInv, SlotsExact, Live
<1>2. \A tag, ty : ty \in Doors \cup Floors /\ NewMovers(tag, ty) => BesideLights
    <2> SUFFICES ASSUME NEW tag, NEW ty \in Doors \cup Floors, NewMovers(tag, ty)
                 PROVE  BesideLights
        OBVIOUS
    <2>1. Unclaimed(Tagged(tag)) \in SUBSET Sector /\ ty \in Movers \cup LightTypes
        BY TypeSets DEF Unclaimed, Tagged
    <2>2. PICK at \in Where(Unclaimed(Tagged(tag))), start \in Start(ty) :
                AddThinkers(at, ty, start, "none", None)
        BY DEF NewMovers
    <2>3. cursor' = cursor
        BY DEF NewMovers
    <2> QED BY <1>1, <2>1, <2>2, <2>3, AddMoversBeside
<1>3. CASE \E line \in lines : \/ EV_DoDoor(line[1], line[2]) \/ EV_DoFloor(line[1], line[2])
                               \/ EV_SplitSector(line[1], line[2])
    BY <1>2, <1>3 DEF EV_DoDoor, EV_DoFloor, EV_SplitSector, Floors
<1>4. CASE \E line \in lines : EV_DoPlat(line[1], line[2])
    <2>1. PICK line \in lines : EV_DoPlat(line[1], line[2])
        BY <1>4
    <2> DEFINE again == IF line[2] = "perpetual" THEN Stopped(plats, line[1]) ELSE {}
    <2>2. \A t \in again : t \in Thinker /\ fn[t] # "free" /\ type[t] \in Movers
        BY <1>1 DEF Stopped
    <2>3. line[2] \in Plats \cup Ceilings /\ NewActive(line[1], line[2], again, plats, MaxPlats)
        BY <2>1 DEF EV_DoPlat
    <2> HIDE DEF again
    <2> QED BY <2>2, <2>3, NewActiveBeside
<1>5. CASE \E line \in lines : EV_DoCeiling(line[1], line[2])
    <2>1. PICK line \in lines : EV_DoCeiling(line[1], line[2])
        BY <1>5
    <2> DEFINE again == IF line[2] = "crush" THEN Stopped(ceilings, line[1]) ELSE {}
    <2>2. \A t \in again : t \in Thinker /\ fn[t] # "free" /\ type[t] \in Movers
        BY <1>1 DEF Stopped
    <2>3. line[2] \in Plats \cup Ceilings /\ NewActive(line[1], line[2], again, ceilings, MaxCeilings)
        BY <2>1 DEF EV_DoCeiling
    <2> HIDE DEF again
    <2> QED BY <2>2, <2>3, NewActiveBeside
<1>6. CASE \E line \in lines : \/ line[2] = "stopPlats" /\ EV_StopPlat(line[1])
                               \/ line[2] = "stopCeilings" /\ EV_CeilingCrushStop(line[1])
    BY <1>1, <1>6, StopBeside DEF EV_StopPlat, EV_CeilingCrushStop
<1>7. CASE \E line \in lines : line[2] = "stairs" /\ EV_BuildStairs(line[1])
    <2>1. PICK S \in SUBSET Unclaimed(Sector) : \E at \in Where(S) :
                AddThinkers(at, "floor", "moving", "none", None)
        BY <1>7 DEF EV_BuildStairs
    <2>2. S \in SUBSET Sector /\ "floor" \in Movers \cup LightTypes /\ cursor' = cursor
        BY <1>7, <2>1 DEF EV_BuildStairs, Unclaimed, Movers, Floors
    <2> QED BY <1>1, <2>1, <2>2, AddMoversBeside
<1>8. CASE \E s \in Sector, player \in BOOLEAN : EV_VerticalDoorRaise(s, player)
    <2>1. PICK s \in Sector, player \in BOOLEAN : EV_VerticalDoorRaise(s, player)
        BY <1>8
    <2>2. CASE specialdata[s] # None
        <3>1. UNCHANGED <<list, fn, type, home, peer, cursor>>
            BY <2>1, <2>2 DEF EV_VerticalDoorRaise
        <3>2. Extends
            BY <1>1, <3>1, ListStays
        <3> QED BY <3>1, <3>2 DEF BesideLights, KeepsAll, LightsGoOn
    <2>3. CASE specialdata[s] = None
        <3>1. PICK at \in Where({s}) : AddThinkers(at, "raise", "up", "none", None)
            BY <2>1, <2>3 DEF EV_VerticalDoorRaise
        <3>2. {s} \in SUBSET Sector /\ "raise" \in Movers \cup LightTypes /\ cursor' = cursor
            BY <2>1 DEF EV_VerticalDoorRaise, Movers, Doors
        <3> QED BY <1>1, <3>1, <3>2, AddMoversBeside
    <2> QED BY <2>2, <2>3
<1>9. CASE \E s \in Sector : EV_VerticalDoorOpen(s)
    <2>1. PICK s \in Sector : EV_VerticalDoorOpen(s)
        BY <1>9
    <2>2. PICK at \in Where({s}) : AddThinkers(at, "open", "up", "none", None)
        BY <2>1 DEF EV_VerticalDoorOpen
    <2>3. {s} \in SUBSET Sector /\ "open" \in Movers \cup LightTypes /\ cursor' = cursor
        BY <2>1 DEF EV_VerticalDoorOpen, Movers, Doors
    <2> QED BY <1>1, <2>2, <2>3, AddMoversBeside
<1>10. CASE \E line \in lines : line[2] = "timer" /\ P_SpawnTimer
    BY <1>1, <1>10, TimerBeside
<1> QED BY <1>3, <1>4, <1>5, <1>6, <1>7, <1>8, <1>9, <1>10 DEF LineMovers

\* It keeps what combined lights copy.
LEMMA BesideLightsKeeps ==
    ASSUME IInv, IInv', CombineInv, BesideLights, file' = file
    PROVE  CombineInv'
<1>1. NewCopies
    BY DEF BesideLights, NewCopies
<1>2. RecordsOfLights'
    BY DEF CombineInv, RecordsOfLights
<1> QED BY <1>1, <1>2, BesideKeeps DEF BesideLights

\* Changed specials, the start of a round, a macro that starts or ceases to wait.
LEMMA QuietKeeps ==
    ASSUME IInv, IInv', CombineInv, UNCHANGED <<list, type, home, peer, file>>,
           cursor' = cursor \/ cursor = 0,
           \A t \in Thinker : \/ fn'[t] = fn[t]
                              \/ fn[t] # "free" /\ type[t] = "timer" /\ fn'[t] # "free"
    PROVE  CombineInv'
<1>1. Extends
    BY ListStays DEF IInv
<1>2. KeepsAll /\ LightsGoOn /\ NewCopies
    BY DEF KeepsAll, LightsGoOn, NewCopies
<1>3. RecordsOfLights'
    BY DEF CombineInv, RecordsOfLights
<1> QED BY <1>1, <1>2, <1>3, BesideKeeps

\* A macro that waits for a delay is suspended.
LEMMA SuspendKeeps ==
    ASSUME IInv, IInv', CombineInv, P_SuspendMacro, ~ SuspendMovers
    PROVE  CombineInv'
<1>1. Shapes /\ Watched
    BY DEF IInv
<1>2. /\ watch # None /\ type[watch] = "timer" /\ fn' = [fn EXCEPT ![watch] = "unlink"]
      /\ UNCHANGED <<list, cursor, type, home, peer, file>>
    BY DEF P_SuspendMacro, P_RemoveThinker
<1>3. watch \in Thinker /\ fn[watch] # "free"
    BY <1>1, <1>2 DEF Watched, Live
<1>4. \A t \in Thinker : \/ fn'[t] = fn[t]
                         \/ fn[t] # "free" /\ type[t] = "timer" /\ fn'[t] # "free"
    BY <1>1, <1>2, <1>3 DEF Shapes
<1> QED BY <1>2, <1>4, QuietKeeps

\* The function of a light that a special asks for.
LEMMA SpecialsAskForLights ==
    ASSUME Shapes, NEW s \in Sector
    PROVE  Func(special[s]) \notin Movers \cup {"timer"}
<1>1. special[s] \in LightTypes \cup {"none"}
    BY DEF Shapes
<1>2. Func(special[s]) \in LightTypes \cup {"none"}
    BY <1>1 DEF Func, LightTypes
<1> QED BY <1>2, TypeSets DEF LightTypes

\* Lights are added to a sector; a combined one copies a light that runs.
LEMMA AddSpecialKeeps ==
    ASSUME IInv, IInv', CombineInv, AddNextSpecial, file' = file
    PROVE  CombineInv'
<1>1. Shapes
    BY DEF IInv
<1>2. PICK s \in todo : P_AddSectorSpecial(s) /\ UNCHANGED <<cursor, special>>
    BY DEF AddNextSpecial
<1>3. s \in Sector /\ {s} \in SUBSET Sector
    BY <1>1 DEF Shapes
<1>4. CASE UNCHANGED <<list, fn, type, move, old, home, peer>>
    BY <1>2, <1>4, QuietKeeps
<1>5. CASE special[s] # "none" /\ \E at \in Where({s}) :
                AddThinkers(at, special[s], "moving", "none", None)
    <2>1. special[s] \in Movers \cup LightTypes
        BY <1>1, <1>3, <1>5 DEF Shapes
    <2> QED BY <1>1, <1>2, <1>3, <1>5, <2>1, AddMoversBeside, BesideLightsKeeps
<1>6. CASE \E i \in Combiners(special[s]) : \E at \in Where({s}) :
                AddThinkers(at, "combine", special[s], "none", list[i])
    <2>1. PICK i \in Combiners(special[s]), at \in Where({s}) :
                AddThinkers(at, "combine", special[s], "none", list[i])
        BY <1>6
    <2>2. i \in 1 .. Len(list) /\ fn[list[i]] = "run" /\ type[list[i]] \notin Movers \cup {"timer"}
        BY <1>1, <1>3, SpecialsAskForLights DEF Combiners
    <2>3. /\ Extends /\ KeepsAll
          /\ \A t \in Thinker : fn[t] # "free" => fn'[t] = fn[t]
          /\ \A t \in Thinker : fn[t] = "free" /\ fn'[t] # "free" =>
               type'[t] = "combine" /\ peer'[t] = list[i] /\ home'[t] \in {s}
        BY <1>1, <1>3, <2>1, AddThinkersBeside
    <2>4. NewCopies
        BY <1>3, <2>2, <2>3 DEF NewCopies
    <2>5. LightsGoOn /\ RecordsOfLights'
        BY <2>3 DEF LightsGoOn, CombineInv, RecordsOfLights
    <2> QED BY <1>2, <2>3, <2>4, <2>5, BesideKeeps
<1>7. \/ UNCHANGED <<list, fn, type, move, old, home, peer>>
      \/ special[s] # "none" /\ \E at \in Where({s}) :
                AddThinkers(at, special[s], "moving", "none", None)
      \/ \E i \in Combiners(special[s]) : \E at \in Where({s}) :
                AddThinkers(at, "combine", special[s], "none", list[i])
    <2>1. CASE special[s] = "none"
        BY <1>2, <2>1 DEF P_AddSectorSpecial
    <2>2. CASE special[s] # "none" /\ s \in Sync
        <3>1. P_CombineLightSpecials(s)
            BY <1>2, <2>2 DEF P_AddSectorSpecial
        <3> QED BY <3>1 DEF P_CombineLightSpecials
    <2>3. CASE special[s] # "none" /\ s \notin Sync
        BY <1>2, <2>3 DEF P_AddSectorSpecial
    <2> QED BY <2>1, <2>2, <2>3
<1> QED BY <1>4, <1>5, <1>6, <1>7

\* A turn that makes no thinker.
LEMMA PlainTurnKeeps ==
    ASSUME IInv, IInv', CombineInv, NEW x \in Thinker, AtTurn(x), fn[x] \in {"run", "stasis"},
           NextTurn(Len(list)), UNCHANGED <<list, type, home, peer, file>>,
           fn' = fn \/ fn' = [fn EXCEPT ![x] = "unlink"],
           fn[x] = "run" /\ type[x] = "combine" /\ fn[peer[x]] # "run" => fn'[x] = "unlink"
    PROVE  CombineInv'
<1>1. Shapes
    BY DEF IInv
<1>2. Extends
    BY <1>1, ListStays
<1>3. KeepsAll /\ RecordsOfLights'
    BY DEF KeepsAll, CombineInv, RecordsOfLights
<1>4. /\ fn[x] # "unlink" /\ fn'[x] \in {fn[x], "unlink"}
      /\ \A t \in Thinker : fn[t] # "free" /\ t # x => fn'[t] = fn[t]
      /\ \A t \in Thinker : fn[t] = "free" => fn'[t] = "free"
    BY <1>1 DEF Shapes
<1> QED BY <1>2, <1>3, <1>4, TurnKeeps

\* The turn of a thinker.
LEMMA ThinkerTurnKeeps ==
    ASSUME IInv, IInv', CombineInv, ThinkerTurn, file' = file
    PROVE  CombineInv'
<1>1. PICK x \in Thinker :
            \/ P_UnlinkThinker(x) \/ Skip(x) \/ T_Move(x)
            \/ T_Light(x) \/ T_Sequence(x) \/ T_Combine(x)
    BY DEF ThinkerTurn
<1>2. CASE P_UnlinkThinker(x)
    BY <1>2, UnlinkKeeps
<1>3. CASE Skip(x)
    BY <1>3, PlainTurnKeeps DEF Skip
<1>4. CASE T_Move(x)
    <2>1. /\ AtTurn(x) /\ fn[x] = "run" /\ type[x] \in Movers \cup {"timer"}
          /\ NextTurn(Len(list)) /\ UNCHANGED <<list, type, home, peer>>
          /\ fn' = fn \/ fn' = [fn EXCEPT ![x] = "unlink"]
        BY <1>4 DEF T_Move, P_RemoveThinker
    <2>2. type[x] # "combine"
        BY <2>1, TypeSets
    <2> QED BY <2>1, <2>2, PlainTurnKeeps
<1>5. CASE T_Light(x)
    <2>1. /\ AtTurn(x) /\ fn[x] = "run" /\ type[x] \in {"strobe", "glow"}
          /\ NextTurn(Len(list)) /\ UNCHANGED <<list, type, home, peer>>
          /\ fn' = fn \/ fn' = [fn EXCEPT ![x] = "unlink"]
        BY <1>5 DEF T_Light, GoOn, EndLight, P_RemoveThinker
    <2>2. type[x] # "combine"
        BY <2>1
    <2> QED BY <2>1, <2>2, PlainTurnKeeps
<1>6. CASE T_Combine(x)
    <2>1. AtTurn(x) /\ fn[x] = "run" /\ type[x] = "combine"
        BY <1>6 DEF T_Combine
    <2>2. NextTurn(Len(list)) /\ UNCHANGED <<list, type, home, peer>>
        BY <1>6 DEF T_Combine, GoOn, EndLight
    <2>3. CASE Outlived(x)
        <3>1. fn' = [fn EXCEPT ![x] = "unlink"]
            BY <1>6, <2>3 DEF T_Combine, EndLight, P_RemoveThinker
        <3>2. fn'[x] = "unlink"
            BY <3>1 DEF IInv, Shapes
        <3> QED BY <2>1, <2>2, <3>1, <3>2, PlainTurnKeeps
    <2>4. CASE ~ Outlived(x)
        <3>1. fn' = fn /\ fn[peer[x]] = "run"
            BY <1>6, <2>4 DEF T_Combine, GoOn, Outlived
        <3> QED BY <2>1, <2>2, <3>1, PlainTurnKeeps
    <2> QED BY <2>3, <2>4
<1>7. CASE T_Sequence(x)
    <2>1. AtTurn(x) /\ fn[x] = "run" /\ type[x] = "sequence"
        BY <1>7 DEF T_Sequence
    <2>2. \/ /\ NextTurn(Len(list)) /\ UNCHANGED <<list, type, home, peer>>
             /\ fn' = fn \/ fn' = [fn EXCEPT ![x] = "unlink"]
          \/ \E s \in Sector : /\ \E at \in Where({s}) :
                                    AddThinkers(at, "sequence", "moving", "none", None)
                               /\ NextTurn(Len(list) + 1)
        <3>1. CASE special[home[x]] # "sequence"
            <4>1. EndLight(x)
                BY <1>7, <3>1 DEF T_Sequence
            <4> QED BY <4>1 DEF EndLight, P_RemoveThinker
        <3>2. CASE special[home[x]] = "sequence"
            <4>1. \/ GoOn
                  \/ /\ P_RemoveThinker(x) /\ NextTurn(Len(list))
                     /\ UNCHANGED <<list, type, home, peer>>
                  \/ \E s \in Sector :
                        /\ \E at \in Where({s}) :
                                AddThinkers(at, "sequence", "moving", "none", None)
                        /\ NextTurn(Len(list) + 1)
                BY <1>7, <3>2 DEF T_Sequence
            <4> QED BY <4>1 DEF GoOn, P_RemoveThinker
        <3> QED BY <3>1, <3>2
    <2>3. CASE /\ NextTurn(Len(list)) /\ UNCHANGED <<list, type, home, peer>>
               /\ fn' = fn \/ fn' = [fn EXCEPT ![x] = "unlink"]
        <3>1. type[x] # "combine" /\ fn[x] \in {"run", "stasis"}
            BY <2>1
        <3> QED BY <2>1, <2>3, <3>1, PlainTurnKeeps
    <2>4. CASE \E s \in Sector : /\ \E at \in Where({s}) :
                                        AddThinkers(at, "sequence", "moving", "none", None)
                                 /\ NextTurn(Len(list) + 1)
        <3>1. PICK s \in Sector : /\ \E at \in Where({s}) :
                                        AddThinkers(at, "sequence", "moving", "none", None)
                                  /\ NextTurn(Len(list) + 1)
            BY <2>4
        <3>2. PICK at \in Where({s}) : AddThinkers(at, "sequence", "moving", "none", None)
            BY <3>1
        <3>3. {s} \in SUBSET Sector /\ Shapes
            BY DEF IInv
        <3>4. /\ Extends /\ KeepsAll
              /\ \A t \in Thinker : fn[t] # "free" => fn'[t] = fn[t]
              /\ \A t \in Thinker : fn[t] = "free" /\ fn'[t] # "free" => type'[t] = "sequence"
            BY <3>2, <3>3, AddThinkersBeside
        <3>5. Len(list') = Len(list) + 1
            BY <3>2, <3>3, OneMore
        <3>6. NextTurn(Len(list'))
            BY <3>1, <3>5
        <3>7. RecordsOfLights'
            BY DEF CombineInv, RecordsOfLights
        <3> QED BY <2>1, <3>4, <3>6, <3>7, TurnKeeps
    <2> QED BY <2>2, <2>3, <2>4
<1> QED BY <1>1, <1>2, <1>3, <1>4, <1>5, <1>6, <1>7

\* A game is saved and loaded: records of combined lights name their sectors.
LEMMA ReloadKeeps ==
    ASSUME IInv, CombineInv, Reload
    PROVE  CombineInv'
<1>1. Shapes /\ Linked /\ MoversInv
    BY DEF IInv
<1>2. NoThinkers /\ file' = P_ArchiveSpecials
    BY DEF Reload
<1>3. PICK pick : Written(pick, file')
    BY <1>1, <1>2, RecordsAreOf
<1>4. ASSUME NEW i \in 1 .. Len(file'), file'[i].type = "combine"
      PROVE  file'[i].home \in Sector
    <2> DEFINE x == list[pick[i]]
    <2>1. pick[i] \in 1 .. Len(list) /\ Archived(x) /\ file'[i] = Record(x)
        BY <1>3 DEF Written
    <2>2. x \in Thinker
        BY <1>1, <2>1, ListFactsOf
    <2>3. type[x] = "combine" /\ file'[i].home = home[x]
        BY <1>4, <2>1 DEF Record
    <2>4. x \notin ceilings
        BY <1>1, <2>3, TypeSets DEF MoversInv, SlotsExact
    <2>5. fn[x] = "run"
        BY <2>1, <2>4 DEF Archived
    <2> HIDE DEF x
    <2> QED BY <2>2, <2>3, <2>5 DEF CombineInv
<1>5. \A t \in Thinker : fn'[t] = "free"
    BY <1>2 DEF NoThinkers
<1> QED BY <1>4, <1>5 DEF CombineInv

\* What is left to be read names its sectors too.
LEMMA RecordsOfLightsLeft ==
    ASSUME Shapes, CombineInv, file # <<>>, file' = Tail(file)
    PROVE  RecordsOfLights'
<1>1. \A i \in 1 .. Len(file') : i + 1 \in 1 .. Len(file) /\ file'[i] = file[i + 1]
    BY ReadOne DEF Shapes
<1> QED BY <1>1 DEF CombineInv, RecordsOfLights

\* One thinker is read: no combined light.
LEMMA ReadKeeps ==
    ASSUME IInv, IInv', CombineInv, ReadThinker
    PROVE  CombineInv'
<1> DEFINE r == Head(file)
<1>1. PICK t \in Free :
        /\ list' = Append(list, t)
        /\ fn' = [fn EXCEPT ![t] = IF r.running THEN "run" ELSE "stasis"]
        /\ type' = [type EXCEPT ![t] = r.type]
        /\ home' = [home EXCEPT ![t] = r.home]
    BY DEF ReadThinker
<1>2. /\ file # <<>> /\ file' = Tail(file) /\ r.type # "combine"
      /\ UNCHANGED <<cursor, peer>>
    BY DEF ReadThinker
<1> HIDE DEF r
<1>3. Shapes /\ t \in Thinker /\ fn[t] = "free"
    BY DEF IInv, Free
<1>4. \A u \in Thinker : u # t => fn'[u] = fn[u] /\ type'[u] = type[u] /\ home'[u] = home[u]
    BY <1>1, <1>3 DEF Shapes
<1>5. type'[t] # "combine"
    BY <1>1, <1>2, <1>3 DEF Shapes
<1>6. Extends
    <2>1. <<t>> \in Seq(Thinker) /\ list' = list \o <<t>>
        BY <1>1, <1>3 DEF Shapes
    <2> QED BY <1>3, <2>1, ListExtends
<1>7. KeepsAll
    BY <1>2, <1>3, <1>4 DEF KeepsAll
<1>8. LightsGoOn
    BY <1>3, <1>4 DEF LightsGoOn
<1>9. NewCopies
    BY <1>4, <1>5 DEF NewCopies
<1>10. RecordsOfLights'
    BY <1>2, <1>3, RecordsOfLightsLeft
<1> QED BY <1>2, <1>6, <1>7, <1>8, <1>9, <1>10, BesideKeeps

\* A combined light is read: the new one copies a light that has been read before.
LEMMA ReadCombineKeeps ==
    ASSUME IInv, IInv', CombineInv, ReadCombine
    PROVE  CombineInv'
<1> DEFINE r == Head(file)
           found == Combiners(special[r.home])
           Made(t, u) ==
            /\ list' = IF found = {} THEN Append(list, t) ELSE list \o <<t, u>>
            /\ fn' = [x \in Thinker |-> IF x = t THEN "unlink"
                                        ELSE IF x = u /\ found # {} THEN "run"
                                        ELSE fn[x]]
            /\ type' = [x \in Thinker |-> IF x = u /\ found # {} THEN "combine" ELSE type[x]]
            /\ home' = [x \in Thinker |-> IF x = u /\ found # {} THEN r.home ELSE home[x]]
            /\ \/ found = {} /\ UNCHANGED peer
               \/ \E i \in found : peer' = [peer EXCEPT ![u] = list[i]]
<1>1. PICK t \in Free : \E u \in Free \ {t} : Made(t, u)
    BY DEF ReadCombine
<1>2. PICK u \in Free \ {t} : Made(t, u)
    BY <1>1
<1>3. file # <<>> /\ file' = Tail(file) /\ r.type = "combine" /\ UNCHANGED cursor
    BY DEF ReadCombine
<1>4. /\ Shapes /\ t \in Thinker /\ u \in Thinker /\ t # u
      /\ fn[t] = "free" /\ fn[u] = "free"
    BY DEF IInv, Free
<1>5. r.home \in Sector
    <2>1. 1 \in 1 .. Len(file) /\ r = file[1]
        BY <1>3, <1>4, ReadOne DEF Shapes
    <2> QED BY <1>3, <2>1 DEF CombineInv
<1>6. Func(special[r.home]) \notin Movers \cup {"timer"}
    BY <1>4, <1>5, SpecialsAskForLights
<1>7. \A i \in found : /\ i \in 1 .. Len(list) /\ fn[list[i]] = "run"
                       /\ type[list[i]] \notin Movers \cup {"timer"}
    BY <1>6 DEF Combiners
<1>8. RecordsOfLights'
    BY <1>3, <1>4, RecordsOfLightsLeft
<1> HIDE DEF r, found
<1>9. \A x \in Thinker : x # t /\ x # u =>
            fn'[x] = fn[x] /\ type'[x] = type[x] /\ home'[x] = home[x]
    BY <1>2
<1>10. \A x \in Thinker : x # u => peer'[x] = peer[x]
    BY <1>2, <1>4 DEF Shapes
<1>11. fn'[t] = "unlink" /\ (found = {} => fn'[u] = "free")
    BY <1>2, <1>4
<1>12. found # {} => home'[u] = r.home /\ \E i \in found : peer'[u] = list[i]
    BY <1>2, <1>4 DEF Shapes
<1>13. Extends
    <2>1. CASE found = {}
        <3>1. <<t>> \in Seq(Thinker) /\ list' = list \o <<t>>
            BY <1>2, <1>4, <2>1 DEF Shapes
        <3> QED BY <1>4, <3>1, ListExtends
    <2>2. CASE found # {}
        <3>1. <<t, u>> \in Seq(Thinker) /\ list' = list \o <<t, u>>
            BY <1>2, <1>4, <2>2
        <3> QED BY <1>4, <3>1, ListExtends
    <2> QED BY <2>1, <2>2
<1> HIDE DEF Made
<1>14. KeepsAll
    BY <1>4, <1>9, <1>10 DEF KeepsAll
<1>15. LightsGoOn
    BY <1>4, <1>9 DEF LightsGoOn
<1>16. NewCopies
    <2> SUFFICES ASSUME NEW x \in Thinker, fn[x] = "free", fn'[x] = "run", type'[x] = "combine"
                 PROVE  /\ home'[x] \in Sector
                        /\ \E i \in 1 .. Len(list) :
                            /\ fn[list[i]] = "run" /\ type[list[i]] \notin Movers \cup {"timer"}
                            /\ peer'[x] = list[i]
        BY DEF NewCopies
    <2>1. x = u /\ found # {}
        BY <1>9, <1>11
    <2> QED BY <1>5, <1>7, <1>12, <2>1
<1> QED BY <1>3, <1>8, <1>13, <1>14, <1>15, <1>16, BesideKeeps

\* CombineInv is inductive beside IInv.
LEMMA CombineNext ==
    ASSUME IInv, IInv', CombineInv, [Next]_vars, ~ SuspendMovers
    PROVE  CombineInv'
<1>1. CASE Idle /\ LineMovers /\ UNCHANGED <<lightVars, file, saved>>
    BY <1>1, LinesBeside, BesideLightsKeeps
<1>2. CASE /\ Idle
           /\ \E line \in lines :
                line[2] \in LightTypes \cup {"none"} /\ P_ModifySpecial(line[1], line[2])
           /\ UNCHANGED <<file, saved>>
    <2>1. UNCHANGED <<list, cursor, fn, type, home, peer, file>>
        BY <1>2 DEF P_ModifySpecial, thinkerVars
    <2> QED BY <2>1, QuietKeeps
<1>3. CASE AddNextSpecial /\ UNCHANGED <<file, saved>>
    BY <1>3, AddSpecialKeeps
<1>4. CASE Idle /\ StartRound /\ UNCHANGED <<moverVars, lightVars, file, saved>>
    <2>1. cursor = 0 /\ UNCHANGED <<list, fn, type, home, peer, file>>
        BY <1>4 DEF StartRound
    <2> QED BY <2>1, QuietKeeps
<1>5. CASE ThinkerTurn /\ UNCHANGED <<file, saved>>
    BY <1>5, ThinkerTurnKeeps
<1>6. CASE Reload
    BY <1>6, ReloadKeeps
<1>7. CASE ReadThinker
    BY <1>7, ReadKeeps
<1>8. CASE ReadCombine
    BY <1>8, ReadCombineKeeps
<1>9. CASE Watch
    <2>1. UNCHANGED <<list, cursor, fn, type, home, peer, file>>
        BY <1>9 DEF Watch
    <2> QED BY <2>1, QuietKeeps
<1>10. CASE P_SuspendMacro
    BY <1>10, SuspendKeeps
<1>11. CASE UNCHANGED vars
    <2>1. UNCHANGED <<list, cursor, fn, type, home, peer, file>>
        BY <1>11 DEF vars, thinkerVars
    <2> QED BY <2>1, QuietKeeps
<1> QED BY <1>1, <1>2, <1>3, <1>4, <1>5, <1>6, <1>7, <1>8, <1>9, <1>10, <1>11 DEF Next

\* At the turn of a combined light the light it copies has not been freed: T_Combine
\* reads a thinker that exists.
THEOREM CopiedLightLives ==
    ASSUME ~ SuspendMovers, ~ WatchCombined
    PROVE  Spec => []CombinerLives
<1>1. Init => CombineInv
    BY EmptySeq DEF Init, CombineInv
<1>2. IInv /\ IInv' /\ CombineInv /\ [Next]_vars => CombineInv'
    BY CombineNext
<1>3. IInv /\ CombineInv => CombinerLives
    BY CopiedIsAllocated
<1> QED BY <1>1, <1>2, <1>3, InvHolds, PTL DEF Spec
---------------------------------------------------------------------------
(* What a saved game brings back.  LoadKeepsMovers is about the last record *)
(* only; LoadInv says at any time of a load what is back and what is still  *)
(* to be read.                                                              *)

\* The record says of a mover that it moves sector s.
MoverRecord(r, s) == r.type \in Movers /\ r.home = s

\* The mover that sector s had when the game kept was saved is still to be read, or
\* s has it again.
Restored(s, kept) ==
    \/ \E i \in 1 .. Len(file) :
        MoverRecord(file[i], s) /\ kept.movers[s] = <<file[i].type, file[i].move>>
    \/ /\ \A i \in 1 .. Len(file) : ~ MoverRecord(file[i], s)
       /\ MoverOf(s) = kept.movers[s]

\* So for all sectors, but those of plats in stasis; and for what the macro waits for.
Back(kept) ==
    /\ \A s \in Sector \ (kept.stopped \cup ManualOpen) : Restored(s, kept)
    /\ kept.watched => watch # None \/ \E i \in 1 .. Len(file) : file[i].watched

LoadInv == file # <<>> => Back(saved)

\* The records after the first are those that are left.
LEMMA ReadRest ==
    ASSUME Shapes, file # <<>>, file' = Tail(file), NEW i \in 1 .. Len(file), i # 1
    PROVE  i - 1 \in 1 .. Len(file') /\ file'[i - 1] = file[i]
<1>1. /\ Len(file) \in Nat /\ Len(file') = Len(file) - 1
      /\ \A j \in 1 .. Len(file) - 1 : file'[j] = file[j + 1]
    BY HeadTailProperties DEF Shapes
<1>2. i - 1 \in 1 .. Len(file) - 1 /\ i - 1 + 1 = i
    BY <1>1
<1> QED BY <1>1, <1>2

\* To a sector that the first record is not about, nothing happens.
LEMMA ReadPassesBy ==
    ASSUME Shapes, file # <<>>, file' = Tail(file), NEW s, NEW kept, Restored(s, kept),
           ~ MoverRecord(Head(file), s), MoverOf(s)' = MoverOf(s)
    PROVE  Restored(s, kept)'
<1>1. /\ 1 \in 1 .. Len(file) /\ Head(file) = file[1]
      /\ \A i \in 1 .. Len(file') : i + 1 \in 1 .. Len(file) /\ file'[i] = file[i + 1]
    BY ReadOne DEF Shapes
<1>2. CASE \E i \in 1 .. Len(file) :
            MoverRecord(file[i], s) /\ kept.movers[s] = <<file[i].type, file[i].move>>
    <2>1. PICK i \in 1 .. Len(file) :
            MoverRecord(file[i], s) /\ kept.movers[s] = <<file[i].type, file[i].move>>
        BY <1>2
    <2>2. i # 1
        BY <1>1, <2>1
    <2>3. i - 1 \in 1 .. Len(file') /\ file'[i - 1] = file[i]
        BY <2>2, ReadRest
    <2>4. /\ MoverRecord(file'[i - 1], s)
          /\ kept.movers[s] = <<file'[i - 1].type, file'[i - 1].move>>
        BY <2>1, <2>3
    <2> QED BY <2>3, <2>4 DEF Restored, MoverRecord
<1>3. CASE /\ \A i \in 1 .. Len(file) : ~ MoverRecord(file[i], s)
           /\ MoverOf(s) = kept.movers[s]
    <2>1. \A i \in 1 .. Len(file') : ~ MoverRecord(file'[i], s)
        BY <1>1, <1>3
    <2> QED BY <1>3, <2>1 DEF Restored, MoverRecord
<1> QED BY <1>2, <1>3 DEF Restored

\* What is said of the watched thinker.
LEMMA ReadWatched ==
    ASSUME Shapes, file # <<>>, file' = Tail(file), NEW kept, Back(kept), kept.watched,
           watch # None => watch' # None,
           Head(file).watched => watch' # None
    PROVE  watch' # None \/ \E i \in 1 .. Len(file') : file'[i].watched
<1>1. Head(file) = file[1]
    BY ReadOne DEF Shapes
<1>2. CASE watch # None
    BY <1>2
<1>3. CASE \E i \in 1 .. Len(file) : file[i].watched
    <2>1. PICK i \in 1 .. Len(file) : file[i].watched
        BY <1>3
    <2>2. CASE i = 1
        BY <1>1, <2>1, <2>2
    <2>3. CASE i # 1
        BY <2>1, <2>3, ReadRest
    <2> QED BY <2>2, <2>3
<1> QED BY <1>2, <1>3 DEF Back

\* A thinker is read: if it is a mover, its sector has the mover it had.
LEMMA ReadBrings ==
    ASSUME IInv, ReadThinker, NEW kept, Back(kept)
    PROVE  Back(kept)'
<1> DEFINE r == Head(file)
<1>0. Shapes /\ MoversInv /\ Records
    BY DEF IInv
<1>1. PICK t \in Free :
        /\ type' = [type EXCEPT ![t] = r.type]
        /\ move' = [move EXCEPT ![t] = r.move]
        /\ watch' = IF r.watched THEN t ELSE watch
        /\ specialdata' = [s \in Sector |->
               IF r.type \in Movers /\ s = r.home THEN t ELSE specialdata[s]]
    BY DEF ReadThinker
<1>2. file # <<>> /\ file' = Tail(file)
    BY DEF ReadThinker
<1>3. /\ 1 \in 1 .. Len(file) /\ r = file[1]
      /\ \A i \in 1 .. Len(file') : /\ i + 1 \in 1 .. Len(file) /\ i + 1 # 1
                                    /\ file'[i] = file[i + 1]
    BY <1>0, <1>2, ReadOne DEF Shapes
<1> HIDE DEF r
<1>4. t \in Thinker /\ t # None /\ t \notin MoverThinkers
    BY ThinkersFinite DEF Free, MoverThinkers, Live
<1>5. ASSUME NEW s \in Sector \ (kept.stopped \cup ManualOpen)
      PROVE  Restored(s, kept)'
    <2>1. Restored(s, kept) /\ s \notin ManualOpen
        BY <1>5 DEF Back
    <2>2. CASE MoverRecord(r, s)
        <3>1. \A i \in 1 .. Len(file) : MoverRecord(file[i], s) => i = 1
            BY <1>0, <1>3, <2>1, <2>2 DEF Records, MoverRecord
        <3>2. kept.movers[s] = <<r.type, r.move>>
            BY <1>3, <2>1, <2>2, <3>1 DEF Restored
        <3>3. specialdata'[s] = t /\ type'[t] = r.type /\ move'[t] = r.move
            BY <1>0, <1>1, <1>4, <2>2 DEF Shapes, MoverRecord
        <3>4. MoverOf(s)' = kept.movers[s]
            BY <1>4, <3>2, <3>3 DEF MoverOf
        <3>5. \A i \in 1 .. Len(file') : ~ MoverRecord(file'[i], s)
            BY <1>3, <3>1
        <3> QED BY <3>4, <3>5 DEF Restored, MoverRecord
    <2>3. CASE ~ MoverRecord(r, s)
        <3>1. specialdata'[s] = specialdata[s]
            BY <1>1, <2>3 DEF MoverRecord
        <3>2. specialdata[s] # None => specialdata[s] \in Thinker /\ specialdata[s] # t
            BY <1>0, <1>4 DEF MoversInv, BusyIsLive, MoverThinkers, Live
        <3>3. specialdata[s] # None => /\ type'[specialdata[s]] = type[specialdata[s]]
                                       /\ move'[specialdata[s]] = move[specialdata[s]]
            BY <1>0, <1>1, <3>2 DEF Shapes
        <3>4. MoverOf(s)' = MoverOf(s)
            BY <3>1, <3>3 DEF MoverOf
        <3> QED BY <1>0, <1>2, <2>1, <2>3, <3>4, ReadPassesBy DEF r
    <2> QED BY <2>2, <2>3
<1>6. kept.watched => watch' # None \/ \E i \in 1 .. Len(file') : file'[i].watched
    <2>1. (watch # None => watch' # None) /\ (r.watched => watch' # None)
        BY <1>1, <1>4
    <2> QED BY <1>0, <1>2, <2>1, ReadWatched DEF r
<1> QED BY <1>5, <1>6 DEF Back

\* A combined light is read: no mover, and not what the macro waits for.
LEMMA ReadCombineBrings ==
    ASSUME IInv, ReadCombine, NEW kept, Back(kept)
    PROVE  Back(kept)'
<1> DEFINE r == Head(file)
           found == Combiners(special[r.home])
<1>0. Shapes /\ MoversInv /\ Records
    BY DEF IInv
<1>1. PICK t \in Free, u \in Free :
        /\ type' = [x \in Thinker |-> IF x = u /\ found # {} THEN "combine" ELSE type[x]]
        /\ move' = [x \in Thinker |-> IF x = u /\ found # {} THEN special[r.home]
                                                             ELSE move[x]]
        /\ watch' = IF r.watched THEN t ELSE watch
    BY DEF ReadCombine
<1>2. /\ file # <<>> /\ file' = Tail(file) /\ r.type = "combine"
      /\ specialdata' = specialdata
    BY DEF ReadCombine, moverVars
<1>3. 1 \in 1 .. Len(file) /\ r = file[1]
    BY <1>0, <1>2, ReadOne DEF Shapes
<1>4. ~ r.watched /\ watch' = watch
    BY <1>0, <1>1, <1>2, <1>3 DEF Records
<1> HIDE DEF r, found
<1>5. u \notin MoverThinkers
    BY DEF Free, MoverThinkers, Live
<1>6. ASSUME NEW s \in Sector \ (kept.stopped \cup ManualOpen)
      PROVE  Restored(s, kept)'
    <2>1. Restored(s, kept)
        BY <1>6 DEF Back
    <2>2. ~ MoverRecord(r, s)
        BY <1>2, TypeSets DEF MoverRecord
    <2>3. specialdata[s] # None => specialdata[s] \in Thinker /\ specialdata[s] # u
        BY <1>0, <1>5 DEF MoversInv, BusyIsLive, MoverThinkers, Live
    <2>4. specialdata[s] # None => /\ type'[specialdata[s]] = type[specialdata[s]]
                                   /\ move'[specialdata[s]] = move[specialdata[s]]
        BY <1>1, <2>3
    <2>5. MoverOf(s)' = MoverOf(s)
        BY <1>2, <2>4 DEF MoverOf
    <2> QED BY <1>0, <1>2, <2>1, <2>2, <2>5, ReadPassesBy DEF r
<1>7. kept.watched => watch' # None \/ \E i \in 1 .. Len(file') : file'[i].watched
    BY <1>0, <1>2, <1>4, ReadWatched DEF r
<1> QED BY <1>6, <1>7 DEF Back

\* A saved game has a record of the mover of every sector, but those of plats in
\* stasis, and of the thinker the macro waits for.
LEMMA ReloadBrings ==
    ASSUME IInv, Reload
    PROVE  Back(saved)'
<1>0. Shapes /\ Linked /\ Watched /\ MoversInv
    BY DEF IInv
<1>1. NoThinkers /\ file' = P_ArchiveSpecials
    BY DEF Reload
<1>2. /\ saved'.movers = [s \in Sector |-> MoverOf(s)]
      /\ saved'.watched <=> watch # None /\ fn[watch] = "run"
      /\ saved'.stopped = {home[t] : t \in {p \in plats : fn[p] = "stasis"}}
    BY DEF Reload
<1>3. PICK pick : Written(pick, file')
    BY <1>0, <1>1, RecordsAreOf
<1>4. ASSUME NEW i \in 1 .. Len(file')
      PROVE  /\ list[pick[i]] \in ToSet(list) /\ Archived(list[pick[i]])
             /\ file'[i] = Record(list[pick[i]])
    BY <1>3 DEF Written
<1>5. ASSUME NEW x \in Thinker, Archived(x)
      PROVE  \E i \in 1 .. Len(file') : file'[i] = Record(x)
    <2>1. x \in ToSet(list)
        BY <1>0, <1>5 DEF Linked, Archived
    <2>2. PICK j \in 1 .. Len(list) : list[j] = x
        BY <1>0, <2>1, LenProperties DEF Shapes, ToSet
    <2>3. PICK i \in 1 .. Len(file') : pick[i] = j
        BY <1>3, <1>5, <2>2 DEF Written
    <2> QED BY <1>4, <2>2, <2>3
<1>6. ASSUME NEW s \in Sector \ (saved'.stopped \cup ManualOpen)
      PROVE  Restored(s, saved)'
    <2>1. saved'.movers[s] = MoverOf(s)
        BY <1>2, <1>6
    <2>2. CASE specialdata[s] = None
        <3>1. ASSUME NEW i \in 1 .. Len(file') PROVE ~ MoverRecord(file'[i], s)
            <4>1. SUFFICES ASSUME MoverRecord(file'[i], s) PROVE FALSE
                OBVIOUS
            <4>2. list[pick[i]] \in MoverThinkers /\ home[list[pick[i]]] = s
                BY <1>0, <1>4, <4>1, RecordOf DEF MoverRecord
            <4>3. list[pick[i]] \in Thinker /\ specialdata[s] = list[pick[i]]
                BY <1>0, <1>6, <4>2 DEF MoversInv, OneMover, MoverThinkers, Live
            <4> QED BY <2>2, <4>3, ThinkersFinite
        <3>2. MoverOf(s)' = <<>> /\ MoverOf(s) = <<>>
            BY <1>1, <2>2 DEF NoThinkers, MoverOf
        <3> QED BY <2>1, <3>1, <3>2 DEF Restored, MoverRecord
    <2>3. CASE specialdata[s] # None
        <3> DEFINE t == specialdata[s]
        <3>1. t \in MoverThinkers /\ home[t] = s
            BY <1>0, <1>6, <2>3 DEF MoversInv, BusyIsLive
        <3>2. t \in Thinker /\ type[t] \in Movers /\ fn[t] \in {"run", "stasis"}
            BY <3>1 DEF MoverThinkers, Live
        <3>3. Archived(t)
            <4>1. SUFFICES ASSUME fn[t] = "stasis", t \notin ceilings PROVE FALSE
                BY <3>2 DEF Archived
            <4>2. t \in plats
                BY <1>0, <3>2, <4>1 DEF MoversInv, SlotsExact
            <4> QED BY <1>2, <1>6, <3>1, <4>1, <4>2
        <3>4. PICK i \in 1 .. Len(file') : file'[i] = Record(t)
            BY <1>5, <3>2, <3>3
        <3>5. file'[i].type = type[t] /\ file'[i].move = move[t] /\ file'[i].home = s
            BY <3>1, <3>4 DEF Record
        <3>6. MoverOf(s) = <<type[t], move[t]>>
            BY <2>3 DEF MoverOf
        <3> QED BY <2>1, <3>2, <3>5, <3>6 DEF Restored, MoverRecord
    <2> QED BY <2>2, <2>3
<1>7. saved'.watched => \E i \in 1 .. Len(file') : file'[i].watched
    <2>1. SUFFICES ASSUME watch # None, fn[watch] = "run"
                   PROVE  \E i \in 1 .. Len(file') : file'[i].watched
        BY <1>2
    <2>2. watch \in Thinker /\ Archived(watch)
        BY <1>0, <2>1 DEF Shapes, Archived
    <2>3. PICK i \in 1 .. Len(file') : file'[i] = Record(watch)
        BY <1>5, <2>2
    <2>4. Record(watch).watched
        BY <2>1 DEF Record
    <2> QED BY <2>3, <2>4, Zenon
<1> QED BY <1>6, <1>7 DEF Back

\* Only the loading of a game happens while it is loaded.
LEMMA LoadNext ==
    ASSUME IInv, LoadInv, [Next]_vars
    PROVE  LoadInv'
<1>1. Shapes
    BY DEF IInv
<1>2. PICK kept : kept = saved
    OBVIOUS
<1>3. CASE file' = file /\ saved' = saved /\ file = <<>>
    BY <1>3 DEF LoadInv
<1>4. CASE Idle /\ file' = file /\ saved' = saved
    BY <1>3, <1>4 DEF Idle
<1>5. CASE AddNextSpecial /\ UNCHANGED <<file, saved>>
    <2>1. todo # {}
        BY <1>5 DEF AddNextSpecial
    <2> QED BY <1>1, <1>3, <1>5, <2>1 DEF Shapes
<1>6. CASE ThinkerTurn /\ UNCHANGED <<file, saved>>
    <2>1. \E t \in Thinker : AtTurn(t)
        BY <1>6 DEF ThinkerTurn, P_UnlinkThinker, Skip, T_Move, T_Light, T_Sequence, T_Combine
    <2>2. cursor # 0
        BY <2>1 DEF AtTurn
    <2> QED BY <1>1, <1>3, <1>6, <2>2 DEF Shapes
<1>7. CASE Reload
    BY <1>7, ReloadBrings DEF LoadInv
<1>8. CASE ReadThinker \/ ReadCombine
    <2>1. /\ file # <<>> /\ file' = Tail(file)
          /\ saved' = IF Len(file) = 1 THEN NotSaved ELSE saved
        BY <1>8 DEF ReadThinker, ReadCombine
    <2>2. Back(kept)'
        BY <1>2, <1>8, <2>1, ReadBrings, ReadCombineBrings DEF LoadInv
    <2>3. Len(file) = 1 => file' = <<>>
        <3>1. file' \in Seq(ToSet(file)) /\ Len(file') = Len(file) - 1
            BY <1>1, <2>1, HeadTailProperties DEF Shapes
        <3> QED BY <3>1, EmptySeq
    <2>4. file' # <<>> => saved' = kept
        BY <1>2, <2>1, <2>3
    <2> QED BY <2>2, <2>4 DEF LoadInv
<1>9. CASE Watch \/ P_SuspendMacro
    <2>1. Idle /\ UNCHANGED <<file, saved>>
        BY <1>9 DEF Watch, P_SuspendMacro
    <2> QED BY <1>4, <2>1
<1>10. CASE UNCHANGED vars
    <2>1. UNCHANGED <<file, saved, specialdata, type, move, watch>>
        BY <1>10 DEF vars, thinkerVars, moverVars
    <2> QED BY <2>1 DEF LoadInv, Back, Restored, MoverOf
<1> QED BY <1>4, <1>5, <1>6, <1>7, <1>8, <1>9, <1>10 DEF Next

\* LoadKeepsMovers: a game that was saved and loaded has the same movers in the same
\* motion, and its macro waits for one of them again.
THEOREM LoadedAsSaved ==
    ASSUME ~ SuspendMovers, ~ WatchCombined
    PROVE  Spec => LoadKeepsMovers
<1>1. Init => LoadInv
    BY DEF Init, LoadInv
<1>2. IInv /\ LoadInv /\ [Next]_vars => LoadInv'
    BY LoadNext
<1>3. IInv /\ LoadInv => (LastRecord => AsSaved)
    <2> SUFFICES ASSUME IInv, LoadInv, ReadThinker \/ ReadCombine, file' = <<>> PROVE AsSaved
        BY DEF LastRecord
    <2>0. Len(file') = 0
        BY EmptySeq
    <2>1. PICK kept : kept = saved
        OBVIOUS
    <2>2. file # <<>>
        BY DEF ReadThinker, ReadCombine
    <2>3. Back(kept)'
        BY <2>1, <2>2, ReadBrings, ReadCombineBrings DEF LoadInv
    <2>4. ~ \E i \in 1 .. Len(file') : TRUE
        BY <2>0
    <2>5. kept.watched => watch' # None
        BY <2>3, <2>4 DEF Back
    <2>6. \A s \in Sector \ (kept.stopped \cup ManualOpen) : MoverOf(s)' = kept.movers[s]
        BY <2>3, <2>4 DEF Back, Restored
    <2> QED BY <2>1, <2>5, <2>6 DEF AsSaved
<1> QED BY <1>1, <1>2, <1>3, InvHolds, PTL DEF Spec, LoadKeepsMovers
===============================================================================
