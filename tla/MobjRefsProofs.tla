---------------------------- MODULE MobjRefsProofs ----------------------------
(***************************************************************************)
(* Proofs about MobjRefs, for any finite number of mobjs, fades, markers   *)
(* and sectors, as long as the damage indicator is not switched during a   *)
(* level.  IInv is inductive.  Its core is Sound(refs, Linked): counted    *)
(* pointers lead into the list and no count is too small.  Only both       *)
(* together are inductive: a mobj with a count of 0 can be freed because   *)
(* then nothing points at it, and what a pointer leads to can only be      *)
(* counted while it is not handed out again.                               *)
(***************************************************************************)
EXTENDS MobjRefs, SequencesExt, SequenceTheorems, FiniteSetTheorems, TLAPS

---------------------------------------------------------------------------
(* Lists without repetitions, as the lists of mobjs and of thinkers are:   *)
(* what linking and unlinking do to the set that a list holds.             *)

\* The range of a list is what its places hold.
LEMMA InRange ==
  ASSUME NEW S, NEW l \in Seq(S)
  PROVE  /\ Range(l) \subseteq S
         /\ \A x : x \in Range(l) <=> \E i \in 1 .. Len(l) : x = l[i]
         /\ Len(l) \in Nat /\ DOMAIN l = 1 .. Len(l)
<1>1. Len(l) \in Nat /\ DOMAIN l = 1 .. Len(l) /\ \A i \in 1 .. Len(l) : l[i] \in S
  OBVIOUS
<1>2. \A x : x \in Range(l) <=> \E i \in 1 .. Len(l) : x = l[i]
  BY <1>1, Zenon DEF Range
<1> QED BY <1>1, <1>2

\* P_LinkMobj, P_AddThinker: the list grows by a new member at its end.
LEMMA AppendList ==
  ASSUME NEW S, NEW l \in Seq(S), IsInjective(l), NEW n \in S, n \notin Range(l)
  PROVE  /\ Append(l, n) \in Seq(S)
         /\ IsInjective(Append(l, n))
         /\ Range(Append(l, n)) = Range(l) \cup {n}
<1> DEFINE q == Append(l, n)
<1>1. /\ q \in Seq(S) /\ Len(l) \in Nat /\ Len(q) = Len(l) + 1
      /\ DOMAIN q = 1 .. Len(l) + 1 /\ DOMAIN l = 1 .. Len(l)
      /\ \A i \in 1 .. Len(l) : q[i] = l[i]
      /\ q[Len(l) + 1] = n
  OBVIOUS
<1>2. \A i \in 1 .. Len(l) : l[i] # n
  BY <1>1, InRange
<1> HIDE DEF q
<1>3. IsInjective(q)
  BY <1>1, <1>2 DEF IsInjective
<1>4. Range(q) = Range(l) \cup {n}
  <2>1. \A i \in 1 .. Len(l) + 1 : i = Len(l) + 1 \/ i \in 1 .. Len(l)
    BY <1>1
  <2>2. 1 .. Len(l) \subseteq 1 .. Len(l) + 1 /\ Len(l) + 1 \in 1 .. Len(l) + 1
    BY <1>1
  <2> QED BY <1>1, <2>1, <2>2 DEF Range
<1> QED BY <1>1, <1>3, <1>4 DEF q

\* A sequence without the element at place i.
LEMMA RemoveAtElements ==
  ASSUME NEW S, NEW l \in Seq(S), NEW i \in 1 .. Len(l)
  PROVE  /\ RemoveAt(l, i) \in Seq(S)
         /\ Len(RemoveAt(l, i)) = Len(l) - 1
         /\ DOMAIN RemoveAt(l, i) = 1 .. Len(l) - 1
         /\ \A j \in 1 .. Len(l) - 1 : RemoveAt(l, i)[j] = IF j < i THEN l[j] ELSE l[j + 1]
<1> DEFINE a == SubSeq(l, 1, i - 1)
           b == SubSeq(l, i + 1, Len(l))
           q == a \o b
<1>1. Len(l) \in Nat /\ i \in Nat /\ i >= 1 /\ i <= Len(l) /\ DOMAIN l = 1 .. Len(l)
  OBVIOUS
<1>0. i < Len(l) \/ i = Len(l)
  BY i \in 1 .. Len(l), Len(l) \in Nat
<1>2. a \in Seq(S) /\ Len(a) = i - 1 /\ \A j \in 1 .. i - 1 : a[j] = l[j]
  <2>1. \A j \in 1 .. i - 1 : l[j] \in S
    BY <1>1
  <2>2. /\ SubSeq(l, 1, i - 1) \in Seq(S)
        /\ Len(SubSeq(l, 1, i - 1)) = IF 1 <= i - 1 THEN i - 1 - 1 + 1 ELSE 0
        /\ \A j \in 1 .. i - 1 - 1 + 1 : SubSeq(l, 1, i - 1)[j] = l[1 + j - 1]
    BY <1>1, <2>1, SubSeqProperties
  <2> QED BY <1>1, <2>2
<1>3. /\ b \in Seq(S) /\ Len(b) = Len(l) - i
      /\ \A j \in 1 .. Len(l) - i : b[j] = l[i + j]
  <2>1. \A j \in i + 1 .. Len(l) : l[j] \in S
    BY <1>1
  <2>2. /\ SubSeq(l, i + 1, Len(l)) \in Seq(S)
        /\ Len(SubSeq(l, i + 1, Len(l))) =
               IF i + 1 <= Len(l) THEN Len(l) - (i + 1) + 1 ELSE 0
        /\ \A j \in 1 .. Len(l) - (i + 1) + 1 :
               SubSeq(l, i + 1, Len(l))[j] = l[i + 1 + j - 1]
    BY <1>1, <2>1, SubSeqProperties
  <2>3. Len(l) - (i + 1) + 1 = Len(l) - i
    BY <1>1
  <2>4. \A j \in 1 .. Len(l) - i : i + 1 + j - 1 = i + j
    BY <1>1
  <2>5. Len(b) = Len(l) - i
    <3>1. CASE i < Len(l)
      <4>1. i + 1 <= Len(l)
        BY <1>1, <3>1
      <4> QED BY <2>2, <2>3, <4>1
    <3>2. CASE i = Len(l)
      <4>1. ~(i + 1 <= Len(l)) /\ Len(l) - i = 0
        BY <1>1, <3>2
      <4> QED BY <2>2, <4>1
    <3> QED BY <1>0, <3>1, <3>2
  <2>6. \A j \in 1 .. Len(l) - i : b[j] = l[i + j]
    BY <2>2, <2>3, <2>4
  <2> QED BY <2>2, <2>5, <2>6
<1> HIDE DEF a, b
<1>4. /\ q \in Seq(S) /\ Len(q) = Len(l) - 1 /\ DOMAIN q = 1 .. Len(l) - 1
      /\ \A j \in 1 .. Len(l) - 1 : q[j] = IF j < i THEN l[j] ELSE l[j + 1]
  <2>1. /\ q \in Seq(S) /\ Len(q) = Len(a) + Len(b)
        /\ \A j \in 1 .. Len(a) + Len(b) :
               q[j] = IF j <= Len(a) THEN a[j] ELSE b[j - Len(a)]
    BY <1>2, <1>3, ConcatProperties
  <2>2. Len(a) + Len(b) = Len(l) - 1
    BY <1>1, <1>2, <1>3
  <2>3. ASSUME NEW j \in 1 .. Len(l) - 1
        PROVE  q[j] = IF j < i THEN l[j] ELSE l[j + 1]
    <3>1. CASE j < i
      BY <1>1, <1>2, <2>1, <2>2, <3>1
    <3>2. CASE ~(j < i)
      <4>1. j - (i - 1) \in 1 .. Len(l) - i /\ i + (j - (i - 1)) = j + 1
        BY <1>1, <3>2
      <4>2. q[j] = b[j - (i - 1)]
        BY <1>1, <1>2, <2>1, <2>2, <3>2
      <4> QED BY <1>3, <3>2, <4>1, <4>2
    <3> QED BY <3>1, <3>2
  <2>4. DOMAIN q = 1 .. Len(l) - 1
    BY <2>1, <2>2, LenProperties
  <2> QED BY <2>1, <2>2, <2>3, <2>4
<1> QED BY <1>4 DEF RemoveAt, q, a, b

\* P_UnlinkMobj, P_UnlinkThinker: the list loses a member and keeps the order of
\* the others.
LEMMA RemoveList ==
  ASSUME NEW S, NEW l \in Seq(S), IsInjective(l), NEW i \in 1 .. Len(l)
  PROVE  /\ RemoveAt(l, i) \in Seq(S)
         /\ IsInjective(RemoveAt(l, i))
         /\ Range(RemoveAt(l, i)) = Range(l) \ {l[i]}
         /\ Len(RemoveAt(l, i)) = Len(l) - 1
<1> DEFINE q == RemoveAt(l, i)
<1>1. Len(l) \in Nat /\ i \in Nat /\ i >= 1 /\ i <= Len(l) /\ DOMAIN l = 1 .. Len(l)
  OBVIOUS
<1>4. /\ q \in Seq(S) /\ Len(q) = Len(l) - 1 /\ DOMAIN q = 1 .. Len(l) - 1
      /\ \A j \in 1 .. Len(l) - 1 : q[j] = IF j < i THEN l[j] ELSE l[j + 1]
  BY RemoveAtElements
<1> HIDE DEF q
<1>5. IsInjective(q)
  <2>1. \A j, k \in 1 .. Len(l) : l[j] = l[k] => j = k
    BY <1>1 DEF IsInjective
  <2>2. ASSUME NEW j \in 1 .. Len(l) - 1, NEW k \in 1 .. Len(l) - 1, q[j] = q[k]
        PROVE  j = k
    <3>1. j \in 1 .. Len(l) /\ j + 1 \in 1 .. Len(l)
          /\ k \in 1 .. Len(l) /\ k + 1 \in 1 .. Len(l)
      BY <1>1
    <3>2. CASE j < i /\ k < i
      BY <1>4, <2>1, <2>2, <3>1, <3>2
    <3>3. CASE j < i /\ ~(k < i)
      <4>1. j = k + 1
        BY <1>4, <2>1, <2>2, <3>1, <3>3
      <4> QED BY <1>1, <3>1, <3>3, <4>1
    <3>4. CASE ~(j < i) /\ k < i
      <4>1. j + 1 = k
        BY <1>4, <2>1, <2>2, <3>1, <3>4
      <4> QED BY <1>1, <3>1, <3>4, <4>1
    <3>5. CASE ~(j < i) /\ ~(k < i)
      <4>1. j + 1 = k + 1
        BY <1>4, <2>1, <2>2, <3>1, <3>5
      <4> QED BY <3>1, <4>1
    <3> QED BY <3>2, <3>3, <3>4, <3>5
  <2> QED BY <1>4, <2>2 DEF IsInjective
<1>6. Range(q) = Range(l) \ {l[i]}
  <2>1. ASSUME NEW j \in 1 .. Len(l) - 1
        PROVE  \E k \in 1 .. Len(l) : k # i /\ q[j] = l[k]
    <3>1. CASE j < i
      BY <1>1, <1>4, <3>1
    <3>2. CASE ~(j < i)
      <4>1. j + 1 \in 1 .. Len(l) /\ j + 1 # i
        BY <1>1, <3>2
      <4> QED BY <1>4, <3>2, <4>1
    <3> QED BY <3>1, <3>2
  <2>2. ASSUME NEW k \in 1 .. Len(l), k # i
        PROVE  \E j \in 1 .. Len(l) - 1 : q[j] = l[k]
    <3>1. CASE k < i
      BY <1>1, <1>4, <3>1
    <3>2. CASE k > i
      <4>1. k - 1 \in 1 .. Len(l) - 1 /\ ~(k - 1 < i) /\ k - 1 + 1 = k
        BY <1>1, <3>2
      <4> QED BY <1>4, <4>1
    <3> QED BY <1>1, <2>2, <3>1, <3>2
  <2>3. \A k \in 1 .. Len(l) : k # i <=> l[k] # l[i]
    BY <1>1 DEF IsInjective
  <2>4. \A x : x \in Range(q) <=> \E j \in 1 .. Len(l) - 1 : x = q[j]
    BY <1>4, InRange, LenProperties
  <2>5. \A x : x \in Range(l) <=> \E k \in 1 .. Len(l) : x = l[k]
    BY InRange
  <2>6. ASSUME NEW x \in Range(q) PROVE x \in Range(l) \ {l[i]}
    BY <2>1, <2>3, <2>4, <2>5, <2>6
  <2>7. ASSUME NEW x \in Range(l) \ {l[i]} PROVE x \in Range(q)
    BY <2>2, <2>4, <2>5, <2>7
  <2> QED BY <2>6, <2>7
<1> QED BY <1>4, <1>5, <1>6 DEF q

---------------------------------------------------------------------------
(* The inductive invariant.                                                *)

PtrsTo(r, m) == {s \in Slot : r.ptr[s] = m}

Sound(r, L) ==
    /\ r \in [ptr : [Slot -> Mobj \cup {None}], count : [Mobj -> Int]]
    /\ \A s \in Slot : r.ptr[s] \in L \cup {None}
    /\ \A m \in Mobj : r.count[m] >= Cardinality(PtrsTo(r, m))

KeepsFades(r, q) == \A f \in Fade : q.ptr[<<"fade", f>>] = r.ptr[<<"fade", f>>]

ListInv == list \in Seq(Mobj) /\ IsInjective(list)

CursorInv ==
    /\ phase \in {"world", "thinkers", "mobjs"}
    /\ cur \in (IF phase = "mobjs" THEN Linked ELSE {}) \cup {MobjHead}
    /\ thinking \in BOOLEAN
    /\ thinking => cur # MobjHead /\ cur \notin owned
    /\ seen \subseteq Mobj

SetInv ==
    /\ removed \subseteq Linked /\ monster \subseteq Linked
    /\ shootable \subseteq Linked /\ unseen \subseteq Linked
    /\ \E p \in Linked : owned = {p}
    /\ removed \cap owned = {}

FadeInv ==
    /\ fade \in [Fade -> {"free", "in", "out", "unlink"}]
    /\ pending \subseteq Fade
    /\ indicator = TRUE
    /\ \A f \in Fade : fade[f] \in {"in", "out"} =>
                           Faded(f) # None /\ Faded(f) \notin owned

Core == ListInv /\ CursorInv /\ SetInv /\ FadeInv /\ Sound(refs, Linked)

MarkInv == nosector \subseteq Linked /\ locked \in BOOLEAN /\ game \in Games

IInv == Core /\ MarkInv /\ due \subseteq Mobj

---------------------------------------------------------------------------
(* Lists.                                                                  *)

\* A mobj of the list has one place, and its neighbours are in the list too.
LEMMA Neighbours ==
  ASSUME ListInv
  PROVE  /\ \A m \in Linked : Place(m) \in 1 .. Len(list) /\ list[Place(m)] = m
         /\ \A m \in Linked : Before(m) \in (Linked \ {m}) \cup {MobjHead}
         /\ \A m \in Linked \cup {MobjHead} : After(m) \in Linked \cup {MobjHead}
<1>1. /\ list \in Seq(Mobj) /\ Len(list) \in Nat /\ DOMAIN list = 1 .. Len(list)
      /\ \A x : x \in Linked <=> \E i \in 1 .. Len(list) : x = list[i]
      /\ \A i, j \in 1 .. Len(list) : list[i] = list[j] => i = j
  BY InRange DEF ListInv, Linked, IsInjective
<1>2. ASSUME NEW m \in Linked
      PROVE  Place(m) \in 1 .. Len(list) /\ list[Place(m)] = m
  BY <1>1 DEF Place
<1>3. ASSUME NEW m \in Linked
      PROVE  Before(m) \in (Linked \ {m}) \cup {MobjHead}
  <2>1. CASE Place(m) = 1
    BY <2>1 DEF Before
  <2>2. CASE Place(m) # 1
    <3>1. Place(m) - 1 \in 1 .. Len(list) /\ Place(m) - 1 # Place(m)
      BY <1>1, <1>2, <2>2
    <3>2. list[Place(m) - 1] \in Linked /\ list[Place(m) - 1] # m
      BY <1>1, <1>2, <3>1
    <3> QED BY <2>2, <3>2 DEF Before
  <2> QED BY <2>1, <2>2
<1>4. ASSUME NEW m \in Linked \cup {MobjHead}
      PROVE  After(m) \in Linked \cup {MobjHead}
  <2>1. CASE m = MobjHead /\ list # <<>>
    <3>1. 1 \in 1 .. Len(list)
      BY <1>1, <2>1, EmptySeq
    <3> QED BY <1>1, <2>1, <3>1 DEF After
  <2>2. CASE m = MobjHead /\ list = <<>>
    BY <2>2 DEF After
  <2>3. CASE m # MobjHead /\ Place(m) = Len(list)
    BY <2>3 DEF After
  <2>4. CASE m # MobjHead /\ Place(m) # Len(list)
    <3>1. Place(m) + 1 \in 1 .. Len(list)
      BY <1>1, <1>2, <2>4
    <3> QED BY <1>1, <2>4, <3>1 DEF After
  <2> QED BY <2>1, <2>2, <2>3, <2>4
<1> QED BY <1>2, <1>3, <1>4

---------------------------------------------------------------------------
(* Counted references.                                                     *)

LEMMA Slots ==
  /\ \A m \in Mobj : Target(m) \in Slot /\ Tracer(m) \in Slot /\ Target(m) # Tracer(m)
  /\ \A f \in Fade : <<"fade", f>> \in Slot
  /\ \A k \in Marker : <<"marker", k>> \in Slot
  /\ \A s \in Sector : <<"soundtarget", s>> \in Slot
  /\ \A f \in Fade : /\ \A m \in Mobj : <<"fade", f>> # Target(m) /\ <<"fade", f>> # Tracer(m)
                    /\ \A k \in Marker : <<"fade", f>> # <<"marker", k>>
                    /\ \A s \in Sector : <<"fade", f>> # <<"soundtarget", s>>
  BY DEF Slot, Target, Tracer

LEMMA PtrsFinite ==
  ASSUME NEW r, NEW m
  PROVE  /\ IsFiniteSet(PtrsTo(r, m)) /\ Cardinality(PtrsTo(r, m)) \in Nat
         /\ \A T \in SUBSET PtrsTo(r, m) :
                IsFiniteSet(T) /\ Cardinality(T) \in Nat
                /\ Cardinality(T) <= Cardinality(PtrsTo(r, m))
<1>1. IsFiniteSet(Slot) /\ PtrsTo(r, m) \in SUBSET Slot
  BY SlotsFinite DEF PtrsTo
<1>2. IsFiniteSet(PtrsTo(r, m))
  BY <1>1, FS_Subset
<1> QED BY <1>2, FS_Subset, FS_CardinalityType

\* More mobjs in the list do no harm to the references.
LEMMA SoundGrows ==
  ASSUME NEW r, NEW L, NEW M, Sound(r, L), L \subseteq M
  PROVE  Sound(r, M)
  BY DEF Sound

\* P_SetTarget of a pointer to a mobj of the list.
LEMMA SetTargetSound ==
  ASSUME NEW r, NEW L \in SUBSET Mobj, Sound(r, L),
         NEW s \in Slot, NEW t \in L \cup {None}
  PROVE  /\ Sound(SetTarget(r, s, t), L)
         /\ \A x \in Slot \ {s} : SetTarget(r, s, t).ptr[x] = r.ptr[x]
         /\ SetTarget(r, s, t).ptr[s] = t
<1> DEFINE q == SetTarget(r, s, t)
           less == [m \in Mobj |-> IF m = r.ptr[s] THEN r.count[m] - 1 ELSE r.count[m]]
<1>1. /\ r.ptr \in [Slot -> Mobj \cup {None}] /\ r.count \in [Mobj -> Int]
      /\ \A x \in Slot : r.ptr[x] \in L \cup {None}
      /\ \A m \in Mobj : r.count[m] \in Int /\ r.count[m] >= Cardinality(PtrsTo(r, m))
  BY DEF Sound
<1>2. q.ptr = [r.ptr EXCEPT ![s] = t]
  BY DEF SetTarget
<1>3. q.count = [m \in Mobj |-> IF m = t THEN less[m] + 1 ELSE less[m]]
  BY DEF SetTarget
<1>4. q = [ptr |-> q.ptr, count |-> q.count]
  BY DEF SetTarget
<1> HIDE DEF q
<1>5. /\ \A x \in Slot \ {s} : q.ptr[x] = r.ptr[x]
      /\ q.ptr[s] = t
      /\ q.ptr \in [Slot -> Mobj \cup {None}]
      /\ \A x \in Slot : q.ptr[x] \in L \cup {None}
  BY <1>1, <1>2
<1>6. q.count \in [Mobj -> Int]
  BY <1>1, <1>3
<1>7. ASSUME NEW m \in Mobj
      PROVE  q.count[m] >= Cardinality(PtrsTo(q, m))
  <2>1. /\ IsFiniteSet(PtrsTo(r, m)) /\ Cardinality(PtrsTo(r, m)) \in Nat
    BY PtrsFinite
  <2>2. m # None
    BY NoneIsNoMobj
  <2>3. CASE m = t /\ m = r.ptr[s]
    <3>1. q.count[m] = r.count[m]
      BY <1>1, <1>3, <2>3
    <3>2. PtrsTo(q, m) = PtrsTo(r, m)
      BY <1>5, <2>3 DEF PtrsTo
    <3> QED BY <1>1, <3>1, <3>2
  <2>4. CASE m = t /\ m # r.ptr[s]
    <3>1. q.count[m] = r.count[m] + 1
      BY <1>1, <1>3, <2>4
    <3>2. PtrsTo(q, m) = PtrsTo(r, m) \cup {s} /\ s \notin PtrsTo(r, m)
      BY <1>5, <2>4 DEF PtrsTo
    <3>3. Cardinality(PtrsTo(q, m)) = Cardinality(PtrsTo(r, m)) + 1
      BY <2>1, <3>2, FS_AddElement
    <3> QED BY <1>1, <2>1, <3>1, <3>3
  <2>5. CASE m # t /\ m = r.ptr[s]
    <3>1. q.count[m] = r.count[m] - 1
      BY <1>1, <1>3, <2>5
    <3>2. PtrsTo(q, m) = PtrsTo(r, m) \ {s} /\ s \in PtrsTo(r, m)
      BY <1>5, <2>5 DEF PtrsTo
    <3>3. Cardinality(PtrsTo(r, m) \ {s}) = Cardinality(PtrsTo(r, m)) - 1
      BY <2>1, <3>2, FS_RemoveElement
    <3> QED BY <1>1, <2>1, <3>1, <3>2, <3>3
  <2>6. CASE m # t /\ m # r.ptr[s]
    <3>1. q.count[m] = r.count[m]
      BY <1>1, <1>3, <2>6
    <3>2. PtrsTo(q, m) = PtrsTo(r, m)
      BY <1>5, <2>6 DEF PtrsTo
    <3> QED BY <1>1, <3>1, <3>2
  <2> QED BY <2>3, <2>4, <2>5, <2>6
<1>8. Sound(q, L)
  BY <1>4, <1>5, <1>6, <1>7 DEF Sound
<1> QED BY <1>5, <1>8 DEF q

\* Z_Malloc and memset for a new mobj: nothing points at its address.
LEMMA ClearedSound ==
  ASSUME NEW r, NEW L \in SUBSET Mobj, Sound(r, L), NEW n \in Mobj \ L
  PROVE  Sound(Cleared(r, n), L \cup {n}) /\ KeepsFades(r, Cleared(r, n))
<1> DEFINE q == Cleared(r, n)
<1>1. /\ r.ptr \in [Slot -> Mobj \cup {None}] /\ r.count \in [Mobj -> Int]
      /\ \A x \in Slot : r.ptr[x] \in L \cup {None}
      /\ \A m \in Mobj : r.count[m] \in Int /\ r.count[m] >= Cardinality(PtrsTo(r, m))
  BY DEF Sound
<1>2. /\ q.ptr = [r.ptr EXCEPT ![Target(n)] = None, ![Tracer(n)] = None]
      /\ q.count = [r.count EXCEPT ![n] = 0]
      /\ q = [ptr |-> q.ptr, count |-> q.count]
  BY DEF Cleared
<1> HIDE DEF q
<1>3. \A x \in Slot : q.ptr[x] \in {r.ptr[x], None}
  BY <1>1, <1>2
<1>4. q.ptr \in [Slot -> Mobj \cup {None}] /\ q.count \in [Mobj -> Int]
  <2>1. q.ptr \in [Slot -> Mobj \cup {None}]
    BY <1>1, <1>2
  <2>2. q.count \in [Mobj -> Int]
    BY <1>1, <1>2
  <2> QED BY <2>1, <2>2
<1>5. ASSUME NEW m \in Mobj
      PROVE  q.count[m] >= Cardinality(PtrsTo(q, m))
  <2>1. CASE m = n
    <3>1. PtrsTo(q, m) = {}
      BY <1>1, <1>3, <2>1, NoneIsNoMobj DEF PtrsTo
    <3>2. Cardinality(PtrsTo(q, m)) = 0
      BY <3>1, FS_EmptySet
    <3>3. q.count[m] = 0
      BY <1>1, <1>2, <2>1
    <3> QED BY <3>2, <3>3
  <2>2. CASE m # n
    <3>1. PtrsTo(q, m) \in SUBSET PtrsTo(r, m)
      BY <1>1, <1>3, NoneIsNoMobj DEF PtrsTo
    <3>2. q.count[m] = r.count[m]
      BY <1>1, <1>2, <2>2
    <3> QED BY <1>1, <3>1, <3>2, PtrsFinite
  <2> QED BY <2>1, <2>2
<1>6. Sound(q, L \cup {n})
  BY <1>1, <1>2, <1>3, <1>4, <1>5 DEF Sound
<1>7. KeepsFades(r, q)
  BY <1>1, <1>2, Slots DEF KeepsFades
<1> QED BY <1>6, <1>7 DEF q

\* Z_Free of a mobj with a count of 0: nothing pointed at it.
LEMMA ForgottenSound ==
  ASSUME NEW r, NEW L \in SUBSET Mobj, Sound(r, L), NEW m \in Mobj, r.count[m] = 0
  PROVE  Sound(Forgotten(r, m), L \ {m}) /\ KeepsFades(r, Forgotten(r, m))
<1> DEFINE q == Forgotten(r, m)
<1>1. /\ r \in [ptr : [Slot -> Mobj \cup {None}], count : [Mobj -> Int]]
      /\ r.ptr \in [Slot -> Mobj \cup {None}] /\ r.count \in [Mobj -> Int]
      /\ \A x \in Slot : r.ptr[x] \in L \cup {None}
      /\ \A n \in Mobj : r.count[n] \in Int /\ r.count[n] >= Cardinality(PtrsTo(r, n))
  BY DEF Sound
<1>2. /\ q.ptr = [r.ptr EXCEPT ![Target(m)] = None, ![Tracer(m)] = None]
      /\ q.count = r.count
      /\ q = [ptr |-> q.ptr, count |-> q.count]
  BY <1>1 DEF Forgotten
<1> HIDE DEF q
<1>3. \A x \in Slot : q.ptr[x] \in {r.ptr[x], None}
  BY <1>1, <1>2
<1>4. q.ptr \in [Slot -> Mobj \cup {None}] /\ q.count \in [Mobj -> Int]
  BY <1>1, <1>2
<1>5. \A x \in Slot : r.ptr[x] # m
  <2>1. Cardinality(PtrsTo(r, m)) = 0
    BY <1>1, PtrsFinite
  <2>2. PtrsTo(r, m) = {}
    BY <2>1, PtrsFinite, FS_EmptySet
  <2> QED BY <2>2 DEF PtrsTo
<1>6. ASSUME NEW n \in Mobj
      PROVE  q.count[n] >= Cardinality(PtrsTo(q, n))
  <2>1. PtrsTo(q, n) \in SUBSET PtrsTo(r, n)
    BY <1>1, <1>3, NoneIsNoMobj DEF PtrsTo
  <2> QED BY <1>1, <1>2, <2>1, PtrsFinite
<1>7. Sound(q, L \ {m})
  BY <1>1, <1>2, <1>3, <1>4, <1>5, <1>6 DEF Sound
<1>8. KeepsFades(r, q)
  BY <1>1, <1>2, Slots DEF KeepsFades
<1> QED BY <1>7, <1>8 DEF q

\* P_RemoveMobj lets go of the target and the tracer.
LEMMA ReleasedSound ==
  ASSUME NEW r, NEW L \in SUBSET Mobj, Sound(r, L), NEW m \in Mobj
  PROVE  Sound(Released(r, m), L) /\ KeepsFades(r, Released(r, m))
<1> DEFINE p == SetTarget(r, Target(m), None)
<1>1. Target(m) \in Slot /\ Tracer(m) \in Slot
  BY Slots
<1>2. Sound(p, L) /\ \A x \in Slot \ {Target(m)} : p.ptr[x] = r.ptr[x]
  BY <1>1, SetTargetSound
<1>3. Released(r, m) = SetTarget(p, Tracer(m), None)
  BY DEF Released
<1> HIDE DEF p
<1>4. /\ Sound(Released(r, m), L)
      /\ \A x \in Slot \ {Tracer(m)} : Released(r, m).ptr[x] = p.ptr[x]
  BY <1>1, <1>2, <1>3, SetTargetSound
<1> QED BY <1>2, <1>4, Slots DEF KeepsFades

\* A pointer other than a fade's is set.
LEMMA SetTargetKeeps ==
  ASSUME NEW r, NEW L \in SUBSET Mobj, Sound(r, L), NEW t \in L \cup {None},
         NEW s \in Slot, \A f \in Fade : s # <<"fade", f>>
  PROVE  Sound(SetTarget(r, s, t), L) /\ KeepsFades(r, SetTarget(r, s, t))
  BY SetTargetSound, Slots DEF KeepsFades

LEMMA KeepsTwice ==
  ASSUME NEW r, NEW p, NEW q, KeepsFades(r, p), KeepsFades(p, q)
  PROVE  KeepsFades(r, q)
  BY DEF KeepsFades

---------------------------------------------------------------------------
(* The operations the actions share.                                       *)

LEMMA CoreFacts ==
  ASSUME Core
  PROVE  /\ Linked \in SUBSET Mobj /\ MobjHead \notin Linked /\ None \notin Linked
         /\ owned \subseteq Linked /\ Player \in Linked /\ owned = {Player}
         /\ \A s \in Slot : refs.ptr[s] \in Linked \cup {None}
         /\ \A m \in Mobj : refs.ptr[Target(m)] \in Linked \cup {None}
<1>1. Linked \in SUBSET Mobj
  BY InRange DEF Core, ListInv, Linked
<1>2. owned \subseteq Linked /\ Player \in Linked /\ owned = {Player}
  <2>1. PICK p \in Linked : owned = {p}
    BY DEF Core, SetInv
  <2>2. Player = p
    BY <1>1, <2>1 DEF Player
  <2> QED BY <2>1, <2>2
<1>3. \A s \in Slot : refs.ptr[s] \in Linked \cup {None}
  BY DEF Core, Sound
<1> QED BY <1>1, <1>2, <1>3, NoneIsNoMobj, Slots

\* P_SpawnMobj.
LEMMA SpawnKeeps ==
  ASSUME Core, NEW n, NEW kind, SpawnMobj(n, kind)
  PROVE  /\ n \in Mobj /\ n \notin Linked
         /\ ListInv' /\ Linked' = Linked \cup {n}
         /\ monster' \subseteq Linked'
<1>1. n \in Mobj /\ n \notin Linked /\ list' = Append(list, n)
  BY DEF SpawnMobj, Free
<1>2. ListInv' /\ Linked' = Linked \cup {n}
  BY <1>1, AppendList DEF Core, ListInv, Linked
<1>3. monster' \subseteq monster \cup {n}
  BY DEF SpawnMobj
<1> QED BY <1>1, <1>2, <1>3 DEF Core, SetInv

\* P_SafeRemoveMobj, on the mobj that P_RunMobjs stands on.
LEMMA SafeRemoveKeeps ==
  ASSUME Core, NEW m \in Linked, m \notin owned, NEW r,
         Sound(r, Linked), KeepsFades(refs, r), SafeRemoveMobj(m, r), owned' = owned
  PROVE  /\ ListInv' /\ cur' \in Linked' \cup {MobjHead}
         /\ SetInv' /\ Sound(refs', Linked') /\ KeepsFades(refs, refs')
<1>1. Linked \in SUBSET Mobj /\ owned \subseteq Linked
  BY CoreFacts
<1>2. ListInv /\ SetInv
  BY DEF Core
<1>3. CASE r.count[m] = 0
  <2>1. /\ cur' = Before(m) /\ list' = RemoveAt(list, Place(m))
        /\ removed' = removed \ {m} /\ monster' = monster \ {m}
        /\ shootable' = shootable \ {m} /\ unseen' = unseen \ {m}
        /\ refs' = Forgotten(r, m)
    BY <1>3 DEF SafeRemoveMobj, FreeMobj
  <2>2. Place(m) \in 1 .. Len(list) /\ list[Place(m)] = m
    BY <1>2, Neighbours
  <2>3. ListInv' /\ Linked' = Linked \ {m}
    BY <1>2, <2>1, <2>2, RemoveList DEF ListInv, Linked
  <2>4. cur' \in Linked' \cup {MobjHead}
    BY <1>2, <2>1, <2>3, Neighbours
  <2>5. SetInv'
    BY <1>1, <1>2, <2>1, <2>3 DEF SetInv
  <2>6. Sound(refs', Linked') /\ KeepsFades(r, refs')
    BY <1>1, <1>3, <2>1, <2>3, ForgottenSound
  <2> QED BY <2>3, <2>4, <2>5, <2>6, KeepsTwice
<1>4. CASE r.count[m] # 0
  <2>1. /\ cur' = m /\ removed' = removed \cup {m} /\ refs' = r
        /\ list' = list /\ monster' = monster /\ shootable' = shootable /\ unseen' = unseen
    BY <1>4 DEF SafeRemoveMobj, kinds
  <2>2. Linked' = Linked /\ ListInv'
    BY <1>2, <2>1 DEF Linked, ListInv
  <2>3. SetInv'
    BY <1>2, <2>1, <2>2 DEF SetInv
  <2> QED BY <2>1, <2>2, <2>3
<1> QED BY <1>3, <1>4

\* P_DamageMobj.
LEMMA HurtKeeps ==
  ASSUME Core, NEW t, NEW source \in Linked \cup {None}, Hurt(t, source)
  PROVE  /\ list' = list /\ owned' = owned /\ Linked' = Linked /\ ListInv'
         /\ SetInv' /\ Sound(refs', Linked') /\ KeepsFades(refs, refs')
<1>1. Linked \in SUBSET Mobj /\ None \notin Linked
  BY CoreFacts
<1>2. /\ list' = list /\ monster' = monster /\ owned' = owned /\ unseen' = unseen
      /\ t \in shootable
  BY DEF Hurt, kinds
<1>3. Linked' = Linked /\ ListInv'
  BY <1>2 DEF Core, ListInv, Linked
<1>4. t \in Mobj /\ t \in Linked
  BY <1>1, <1>2 DEF Core, SetInv
<1>5. PICK r \in Marked(refs, t, source) :
         \/ /\ shootable' = shootable \ {t}
            /\ refs' = r
            /\ UNCHANGED removed
         \/ /\ refs' \in {r} \cup {SetTarget(r, Target(t), s) : s \in {source} \ {None, t}}
            /\ removed' \in {removed, removed \ {t}}
            /\ UNCHANGED shootable
  BY DEF Hurt
<1>6. Sound(r, Linked) /\ KeepsFades(refs, r)
  <2>1. CASE r = refs
    BY <2>1 DEF Core, KeepsFades
  <2>2. CASE \E k \in Marker : r = SetTarget(refs, <<"marker", k>>, source)
    <3>1. PICK k \in Marker : r = SetTarget(refs, <<"marker", k>>, source)
      BY <2>2
    <3>2. <<"marker", k>> \in Slot /\ \A f \in Fade : <<"marker", k>> # <<"fade", f>>
      BY Slots
    <3> QED BY <1>1, <3>1, <3>2, SetTargetKeeps DEF Core
  <2> QED BY <1>5, <2>1, <2>2 DEF Marked
<1>7. Sound(refs', Linked) /\ KeepsFades(r, refs')
  <2>1. CASE refs' = r
    BY <1>6, <2>1 DEF KeepsFades
  <2>2. CASE refs' = SetTarget(r, Target(t), source) /\ source \in Linked
    <3>1. Target(t) \in Slot /\ \A f \in Fade : Target(t) # <<"fade", f>>
      BY <1>4, Slots
    <3> QED BY <1>1, <1>6, <2>2, <3>1, SetTargetKeeps
  <2> QED BY <1>5, <2>1, <2>2
<1>8. removed' \subseteq removed /\ shootable' \subseteq shootable
  BY <1>5
<1>9. SetInv'
  BY <1>2, <1>3, <1>8 DEF Core, SetInv
<1> QED BY <1>2, <1>3, <1>6, <1>7, <1>9, KeepsTwice

\* A_PainShootSkull, P_SpawnMissile, P_SpawnPlayerMissile, P_SpawnPuff.
LEMMA ShootKeeps ==
  ASSUME Core, NEW m \in Linked, NEW n, NEW hostile, Shoot(m, n, hostile)
  PROVE  /\ n \in Mobj /\ owned' = owned /\ Linked \subseteq Linked' /\ ListInv'
         /\ SetInv' /\ Sound(refs', Linked') /\ KeepsFades(refs, refs')
<1>1. /\ SpawnMobj(n, IF hostile THEN "monster" ELSE "other") /\ shootable' \subseteq shootable \cup {n}
      /\ refs' \in Offspring(m, n, hostile)
      /\ removed' = removed /\ owned' = owned /\ unseen' = unseen
  BY DEF Shoot
<1>2. /\ n \in Mobj /\ n \notin Linked /\ ListInv' /\ Linked' = Linked \cup {n}
      /\ monster' \subseteq Linked'
  BY <1>1, SpawnKeeps
<1>3. SetInv'
  BY <1>1, <1>2 DEF Core, SetInv
<1> DEFINE r == Cleared(refs, n)
           missile == SetTarget(r, Target(n), m)
           goal == refs.ptr[Target(m)]
<1>4. Linked' \in SUBSET Mobj /\ Linked \in SUBSET Mobj
  BY <1>2, CoreFacts
<1>5. goal \in Linked' \cup {None} /\ m \in Linked' \cup {None}
  BY <1>2, <1>4, CoreFacts
<1>6. Sound(r, Linked') /\ KeepsFades(refs, r)
  BY <1>2, <1>4, ClearedSound DEF Core
<1>7. /\ Target(n) \in Slot /\ \A f \in Fade : Target(n) # <<"fade", f>>
      /\ Tracer(n) \in Slot /\ \A f \in Fade : Tracer(n) # <<"fade", f>>
  BY <1>2, Slots
<1>8. refs' \in {r, missile, SetTarget(r, Target(n), goal), SetTarget(missile, Tracer(n), goal)}
  BY <1>1 DEF Offspring
<1> HIDE DEF r, goal
<1>9. Sound(missile, Linked') /\ KeepsFades(r, missile)
  BY <1>4, <1>5, <1>6, <1>7, SetTargetKeeps
<1>10. /\ Sound(SetTarget(r, Target(n), goal), Linked')
       /\ KeepsFades(r, SetTarget(r, Target(n), goal))
  BY <1>4, <1>5, <1>6, <1>7, SetTargetKeeps
<1> HIDE DEF missile
<1>11. /\ Sound(SetTarget(missile, Tracer(n), goal), Linked')
       /\ KeepsFades(missile, SetTarget(missile, Tracer(n), goal))
  BY <1>4, <1>5, <1>7, <1>9, SetTargetKeeps
<1>12. Sound(refs', Linked') /\ KeepsFades(refs, refs')
  BY <1>6, <1>8, <1>9, <1>10, <1>11, KeepsTwice
<1> QED BY <1>1, <1>2, <1>3, <1>12

---------------------------------------------------------------------------
(* The steps, one lemma for each of the three parts of a tic.              *)

\* Nothing that leaves the fade thinkers and their pointers alone disturbs
\* what they hold.
LEMMA FadeFrame ==
  ASSUME FadeInv, KeepsFades(refs, refs'), fade' = fade, indicator' = indicator,
         owned' = owned, pending' = pending
  PROVE  FadeInv'
  BY DEF FadeInv, KeepsFades, Faded

\* Outside the loops the cursor rests on the head of the list.
LEMMA CursorFrame ==
  ASSUME CursorInv, World, phase' = phase
  PROVE  CursorInv'
  BY DEF CursorInv, World

LEMMA WorldKeeps ==
  ASSUME Core, ~Switchable, WorldStep
  PROVE  Core'
<1>1. /\ ListInv /\ CursorInv /\ SetInv /\ FadeInv /\ Sound(refs, Linked)
      /\ Linked \in SUBSET Mobj /\ Player \in Linked /\ owned \subseteq Linked
      /\ None \notin Linked /\ indicator = TRUE
  BY CoreFacts DEF Core, FadeInv
<1>2. ASSUME NEW n \in Mobj, PlayerShoots(n)
      PROVE  Core'
  <2>1. /\ World /\ Shoot(Player, n, FALSE)
        /\ phase' = phase /\ fade' = fade /\ indicator' = indicator /\ pending' = pending
    BY <1>2 DEF PlayerShoots, World, options
  <2>2. CursorInv'
    BY <1>1, <2>1, CursorFrame
  <2>3. /\ ListInv' /\ SetInv' /\ Sound(refs', Linked') /\ KeepsFades(refs, refs')
        /\ owned' = owned
    BY <1>1, <2>1, ShootKeeps
  <2>4. FadeInv'
    BY <1>1, <2>1, <2>3, FadeFrame
  <2> QED BY <2>2, <2>3, <2>4 DEF Core
<1>3. ASSUME NEW t \in Mobj, NEW source \in {Player, None}, PlayerHits(t, source)
      PROVE  Core'
  <2>1. /\ World /\ Hurt(t, source) /\ source \in Linked \cup {None}
        /\ phase' = phase /\ fade' = fade /\ indicator' = indicator /\ pending' = pending
    BY <1>1, <1>3 DEF PlayerHits, World, options
  <2>2. CursorInv'
    BY <1>1, <2>1, CursorFrame
  <2>3. /\ ListInv' /\ SetInv' /\ Sound(refs', Linked') /\ KeepsFades(refs, refs')
        /\ owned' = owned
    BY <2>1, HurtKeeps
  <2>4. FadeInv'
    BY <1>1, <2>1, <2>3, FadeFrame
  <2> QED BY <2>2, <2>3, <2>4 DEF Core
<1>4. ASSUME NEW t \in Mobj, PickUp(t)
      PROVE  Core'
  <2>1. /\ World /\ t \in Linked /\ t \notin owned
        /\ removed' = removed \cup {t} /\ refs' = Released(refs, t)
        /\ phase' = phase /\ list' = list /\ monster' = monster /\ shootable' = shootable
        /\ owned' = owned /\ unseen' = unseen
        /\ fade' = fade /\ indicator' = indicator /\ pending' = pending
    BY <1>4 DEF PickUp, World, RemoveMobj, kinds, options
  <2>2. CursorInv' /\ ListInv' /\ Linked' = Linked
    BY <1>1, <2>1, CursorFrame DEF ListInv, Linked
  <2>3. Sound(refs', Linked') /\ KeepsFades(refs, refs')
    BY <1>1, <2>1, <2>2, ReleasedSound
  <2>4. SetInv'
    BY <1>1, <2>1, <2>2 DEF SetInv
  <2>5. FadeInv'
    BY <1>1, <2>1, <2>3, FadeFrame
  <2> QED BY <2>2, <2>3, <2>4, <2>5 DEF Core
<1>5. ASSUME NEW t \in Mobj, AlertTaggedMobj(t)
      PROVE  Core'
  <2>1. /\ World /\ t \in monster
        /\ refs' = SetTarget(refs, Target(t), Player)
        /\ shootable' \subseteq shootable \cup {t}
        /\ phase' = phase /\ list' = list /\ removed' = removed /\ monster' = monster
        /\ owned' = owned /\ unseen' = unseen
        /\ fade' = fade /\ indicator' = indicator /\ pending' = pending
    BY <1>5 DEF AlertTaggedMobj, World, kinds, options
  <2>2. CursorInv' /\ ListInv' /\ Linked' = Linked
    BY <1>1, <2>1, CursorFrame DEF ListInv, Linked
  <2>3. Sound(refs', Linked') /\ KeepsFades(refs, refs')
    <3>1. Target(t) \in Slot /\ \A f \in Fade : Target(t) # <<"fade", f>>
      BY Slots
    <3> QED BY <1>1, <2>1, <2>2, <3>1, SetTargetKeeps
  <2>4. SetInv'
    BY <1>1, <2>1, <2>2 DEF SetInv
  <2>5. FadeInv'
    BY <1>1, <2>1, <2>3, FadeFrame
  <2> QED BY <2>2, <2>3, <2>4, <2>5 DEF Core
<1>6. ASSUME NEW s \in Sector, NoiseAlert(s)
      PROVE  Core'
  <2>1. /\ World /\ refs' = SetTarget(refs, <<"soundtarget", s>>, Player)
        /\ phase' = phase /\ list' = list /\ removed' = removed /\ monster' = monster
        /\ shootable' = shootable /\ owned' = owned /\ unseen' = unseen
        /\ fade' = fade /\ indicator' = indicator /\ pending' = pending
    BY <1>6 DEF NoiseAlert, World, mobjVars, kinds, options
  <2>2. CursorInv' /\ ListInv' /\ Linked' = Linked
    BY <1>1, <2>1, CursorFrame DEF ListInv, Linked
  <2>3. Sound(refs', Linked') /\ KeepsFades(refs, refs')
    <3>1. /\ <<"soundtarget", s>> \in Slot
          /\ \A f \in Fade : <<"soundtarget", s>> # <<"fade", f>>
      BY Slots
    <3> QED BY <1>1, <2>1, <2>2, <3>1, SetTargetKeeps
  <2>4. SetInv'
    BY <1>1, <2>1, <2>2 DEF SetInv
  <2>5. FadeInv'
    BY <1>1, <2>1, <2>3, FadeFrame
  <2> QED BY <2>2, <2>3, <2>4, <2>5 DEF Core
<1>7. ASSUME NEW f \in Fade, NEW n \in Mobj, NEW kind \in MobjKind,
             SpawnMobjTemplate(f, n, kind)
      PROVE  Core'
  <2>1. /\ World /\ SpawnMobj(n, kind) /\ phase' = phase
        /\ shootable' = shootable /\ owned' = owned /\ indicator' = indicator
        /\ pending' = pending
    BY <1>7 DEF SpawnMobjTemplate, World, options
  <2>2. /\ n \notin Linked /\ ListInv' /\ Linked' = Linked \cup {n}
        /\ monster' \subseteq Linked'
    BY <2>1, SpawnKeeps
  <2>3. CursorInv'
    BY <1>1, <2>1, CursorFrame
  <2>4. /\ Sound(Cleared(refs, n), Linked') /\ KeepsFades(refs, Cleared(refs, n))
        /\ Linked' \in SUBSET Mobj
    BY <1>1, <2>2, ClearedSound
  <2>5. CASE /\ fade' = [fade EXCEPT ![f] = "in"]
             /\ refs' = SetTarget(Cleared(refs, n), <<"fade", f>>, n)
             /\ unseen' = unseen \cup {n}
             /\ removed' = removed
    <3>1. SetInv'
      BY <1>1, <2>1, <2>2, <2>5 DEF SetInv
    <3>2. /\ <<"fade", f>> \in Slot
          /\ \A g \in Fade \ {f} : <<"fade", g>> \in Slot \ {<<"fade", f>>}
      BY Slots
    <3>3. /\ Sound(refs', Linked') /\ refs'.ptr[<<"fade", f>>] = n
          /\ \A g \in Fade \ {f} : refs'.ptr[<<"fade", g>>] = refs.ptr[<<"fade", g>>]
      BY <2>2, <2>4, <2>5, <3>2, SetTargetSound DEF KeepsFades
    <3>4. FadeInv'
      <4>1. ASSUME NEW g \in Fade, fade'[g] \in {"in", "out"}
            PROVE  refs'.ptr[<<"fade", g>>] # None /\ refs'.ptr[<<"fade", g>>] \notin owned
        <5>1. CASE g = f
          BY <1>1, <2>2, <3>3, <5>1, NoneIsNoMobj
        <5>2. CASE g # f
          BY <1>1, <2>5, <3>3, <4>1, <5>2 DEF FadeInv, Faded
        <5> QED BY <5>1, <5>2
      <4> QED BY <1>1, <2>1, <2>5, <4>1 DEF FadeInv, Faded
    <3> QED BY <2>2, <2>3, <3>1, <3>3, <3>4 DEF Core
  <2>6. CASE /\ removed' = removed \cup {n}
             /\ refs' = Released(Cleared(refs, n), n)
             /\ unseen' = unseen
             /\ fade' = fade
    <3>1. SetInv'
      BY <1>1, <2>1, <2>2, <2>6 DEF SetInv
    <3>2. Sound(refs', Linked') /\ KeepsFades(refs, refs')
      BY <2>4, <2>6, ReleasedSound, KeepsTwice
    <3>3. FadeInv'
      BY <1>1, <2>1, <2>6, <3>2, FadeFrame
    <3> QED BY <2>2, <2>3, <3>1, <3>2, <3>3 DEF Core
  <2> QED BY <1>7, <2>5, <2>6 DEF SpawnMobjTemplate
<1>8. ASSUME NEW f \in Fade, NEW t \in Mobj, FadeOutMobj(f, t)
      PROVE  Core'
  <2>1. /\ World /\ t \in Linked /\ t \notin owned
        /\ fade' = [fade EXCEPT ![f] = "out"]
        /\ refs' = SetTarget(refs, <<"fade", f>>, t)
        /\ shootable' = shootable \ {t} /\ monster' \subseteq monster
        /\ phase' = phase /\ list' = list /\ removed' = removed
        /\ owned' = owned /\ unseen' = unseen /\ indicator' = indicator
        /\ pending' = pending
    BY <1>8 DEF FadeOutMobj, LosesFlags, World, kinds, options
  <2>2. CursorInv' /\ ListInv' /\ Linked' = Linked
    BY <1>1, <2>1, CursorFrame DEF ListInv, Linked
  <2>3. SetInv'
    BY <1>1, <2>1, <2>2 DEF SetInv
  <2>4. /\ <<"fade", f>> \in Slot
        /\ \A g \in Fade \ {f} : <<"fade", g>> \in Slot \ {<<"fade", f>>}
    BY Slots
  <2>5. /\ Sound(refs', Linked') /\ refs'.ptr[<<"fade", f>>] = t
        /\ \A g \in Fade \ {f} : refs'.ptr[<<"fade", g>>] = refs.ptr[<<"fade", g>>]
    <3>1. Sound(refs, Linked) /\ Linked \in SUBSET Mobj /\ t \in Linked \cup {None}
      BY <1>1, <2>1
    <3>2. /\ Sound(SetTarget(refs, <<"fade", f>>, t), Linked)
          /\ SetTarget(refs, <<"fade", f>>, t).ptr[<<"fade", f>>] = t
          /\ \A x \in Slot \ {<<"fade", f>>} :
                 SetTarget(refs, <<"fade", f>>, t).ptr[x] = refs.ptr[x]
      BY <2>4, <3>1, SetTargetSound
    <3> QED BY <2>1, <2>2, <2>4, <3>2
  <2>6. FadeInv'
    <3>1. ASSUME NEW g \in Fade, fade'[g] \in {"in", "out"}
          PROVE  refs'.ptr[<<"fade", g>>] # None /\ refs'.ptr[<<"fade", g>>] \notin owned
      <4>1. CASE g = f
        BY <1>1, <2>1, <2>5, <4>1
      <4>2. CASE g # f
        BY <1>1, <2>1, <2>5, <3>1, <4>2 DEF FadeInv, Faded
      <4> QED BY <4>1, <4>2
    <3> QED BY <1>1, <2>1, <3>1 DEF FadeInv, Faded
  <2> QED BY <2>2, <2>3, <2>5, <2>6 DEF Core
<1>9. ASSUME NEW k \in Marker, MarkerEnds(k)
      PROVE  Core'
  <2>1. /\ World /\ refs' = SetTarget(refs, <<"marker", k>>, None)
        /\ phase' = phase /\ list' = list /\ removed' = removed /\ monster' = monster
        /\ shootable' = shootable /\ owned' = owned /\ unseen' = unseen
        /\ fade' = fade /\ indicator' = indicator /\ pending' = pending
    BY <1>9 DEF MarkerEnds, World, mobjVars, kinds, options
  <2>2. CursorInv' /\ ListInv' /\ Linked' = Linked
    BY <1>1, <2>1, CursorFrame DEF ListInv, Linked
  <2>3. Sound(refs', Linked') /\ KeepsFades(refs, refs')
    <3>1. <<"marker", k>> \in Slot /\ \A f \in Fade : <<"marker", k>> # <<"fade", f>>
      BY Slots
    <3> QED BY <1>1, <2>1, <2>2, <3>1, SetTargetKeeps
  <2>4. SetInv'
    BY <1>1, <2>1, <2>2 DEF SetInv
  <2>5. FadeInv'
    BY <1>1, <2>1, <2>3, FadeFrame
  <2> QED BY <2>2, <2>3, <2>4, <2>5 DEF Core
<1>10. CASE SwitchIndicator
  BY <1>10 DEF SwitchIndicator
<1>13. CASE SwitchLock
  <2>1. /\ World /\ phase' = phase /\ pending' = pending
        /\ UNCHANGED <<list, removed, monster, shootable, owned, unseen, fade, indicator, refs>>
    BY <1>13 DEF SwitchLock, World, mobjVars, kinds
  <2>2. CursorInv' /\ ListInv' /\ Linked' = Linked
    BY <1>1, <2>1, CursorFrame DEF ListInv, Linked
  <2>3. SetInv' /\ FadeInv'
    BY <1>1, <2>1, <2>2 DEF SetInv, FadeInv, Faded
  <2> QED BY <1>1, <2>1, <2>2, <2>3 DEF Core
<1>11. ASSUME NEW p \in Mobj, EndLevel(p)
       PROVE  Core'
  <2>1. /\ World /\ phase' = phase /\ pending' = pending /\ indicator' = indicator
        /\ list' = <<p>> /\ owned' = {p} /\ shootable' = {p}
        /\ removed' = {} /\ monster' = {} /\ unseen' = {}
        /\ fade' = [f \in Fade |-> "free"]
        /\ refs' = [ptr |-> [s \in Slot |-> None], count |-> [m \in Mobj |-> 0]]
    BY <1>1, <1>11 DEF EndLevel, World, options
  <2>2. <<p>> \in Seq(Mobj) /\ IsInjective(<<p>>) /\ Range(<<p>>) = {p}
    BY DEF IsInjective, Range
  <2>3. ListInv' /\ Linked' = {p}
    BY <2>1, <2>2 DEF ListInv, Linked
  <2>4. CursorInv'
    BY <1>1, <2>1, CursorFrame
  <2>5. SetInv'
    BY <2>1, <2>3 DEF SetInv
  <2>6. FadeInv'
    BY <1>1, <2>1 DEF FadeInv
  <2>7. Sound(refs', Linked')
    <3>1. \A m \in Mobj : PtrsTo(refs', m) = {}
      BY <2>1, NoneIsNoMobj DEF PtrsTo
    <3> QED BY <2>1, <3>1, FS_EmptySet DEF Sound
  <2> QED BY <2>3, <2>4, <2>5, <2>6, <2>7 DEF Core
<1>12. CASE RunThinkers
  <2>1. /\ phase = "world" /\ phase' = "thinkers" /\ pending' \subseteq Fade
        /\ UNCHANGED <<cur, thinking, seen, list, removed, monster, shootable, owned,
                       unseen, fade, indicator, refs>>
    BY <1>12 DEF RunThinkers, mobjVars, kinds, options
  <2>2. CursorInv' /\ ListInv' /\ Linked' = Linked
    BY <1>1, <2>1 DEF CursorInv, ListInv, Linked
  <2>3. SetInv' /\ FadeInv'
    BY <1>1, <2>1, <2>2 DEF SetInv, FadeInv, Faded
  <2> QED BY <1>1, <2>1, <2>2, <2>3 DEF Core
<1> QED
  BY <1>2, <1>3, <1>4, <1>5, <1>6, <1>7, <1>8, <1>9, <1>10, <1>11, <1>12, <1>13
  DEF WorldStep

LEMMA ThinkerKeeps ==
  ASSUME Core, ThinkerStep
  PROVE  Core'
<1>1. /\ ListInv /\ CursorInv /\ SetInv /\ FadeInv /\ Sound(refs, Linked)
      /\ Linked \in SUBSET Mobj
  BY CoreFacts DEF Core
<1>2. \A f \in Fade : fade[f] \in {"in", "out"} => Faded(f) \in Linked /\ Faded(f) \notin owned
  <2>1. \A f \in Fade : <<"fade", f>> \in Slot
    BY Slots
  <2> QED BY <1>1, <2>1 DEF FadeInv, Sound, Faded
<1>3. ASSUME NEW f \in Fade, Running(f)
      PROVE  /\ CursorInv' /\ ListInv' /\ Linked' = Linked
             /\ monster' = monster /\ owned' = owned /\ indicator' = indicator
             /\ pending' \subseteq Fade
  BY <1>1, <1>3 DEF Running, CursorInv, ListInv, Linked, FadeInv, mobjVars, kinds, options
<1>4. ASSUME NEW f \in Fade, NEW r, Running(f), FadeEnds(f, r),
             Sound(r, Linked), KeepsFades(refs, r)
      PROVE  Sound(refs', Linked') /\ FadeInv'
  <2>1. /\ <<"fade", f>> \in Slot
        /\ \A g \in Fade \ {f} : <<"fade", g>> \in Slot \ {<<"fade", f>>}
    BY Slots
  <2>2. /\ refs' = SetTarget(r, <<"fade", f>>, None)
        /\ fade' = [fade EXCEPT ![f] = "unlink"]
    BY <1>4 DEF FadeEnds
  <2>3. /\ Sound(refs', Linked)
        /\ \A x \in Slot \ {<<"fade", f>>} : refs'.ptr[x] = r.ptr[x]
    BY <1>1, <1>4, <2>1, <2>2, SetTargetSound
  <2>4. \A g \in Fade \ {f} : refs'.ptr[<<"fade", g>>] = refs.ptr[<<"fade", g>>]
    BY <1>4, <2>1, <2>3 DEF KeepsFades
  <2>5. FadeInv'
    BY <1>1, <1>3, <1>4, <2>2, <2>4 DEF FadeInv, Faded
  <2> QED BY <1>3, <1>4, <2>3, <2>5
<1>5. ASSUME NEW f \in Fade, FadeIn(f)
      PROVE  Core'
  <2>1. /\ Running(f) /\ removed' = removed /\ unseen' \subseteq unseen
        /\ shootable' \subseteq shootable \cup monster
    BY <1>5 DEF FadeIn
  <2>2. SetInv'
    BY <1>1, <1>3, <2>1 DEF SetInv
  <2>3. CASE fade' = fade /\ refs' = refs
    <3>1. FadeInv'
      BY <1>1, <1>3, <2>1, <2>3 DEF FadeInv, Faded
    <3> QED BY <1>1, <1>3, <2>1, <2>2, <2>3, <3>1 DEF Core
  <2>4. CASE FadeEnds(f, refs)
    <3>1. Sound(refs', Linked') /\ FadeInv'
      BY <1>1, <1>4, <2>1, <2>4 DEF KeepsFades
    <3> QED BY <1>3, <2>1, <2>2, <3>1 DEF Core
  <2> QED BY <1>5, <2>3, <2>4 DEF FadeIn
<1>6. ASSUME NEW f \in Fade, FadeOut(f)
      PROVE  Core'
  <2>1. Running(f) /\ shootable' = shootable /\ Faded(f) \in Linked /\ Faded(f) \notin owned
    BY <1>1, <1>2, <1>6 DEF FadeOut
  <2>2. CASE FadeEnds(f, refs) /\ removed' = removed /\ unseen' = unseen
    <3>1. Sound(refs', Linked') /\ FadeInv'
      BY <1>1, <1>4, <2>1, <2>2 DEF KeepsFades
    <3>2. SetInv'
      BY <1>1, <1>3, <2>1, <2>2 DEF SetInv
    <3> QED BY <1>3, <2>1, <3>1, <3>2 DEF Core
  <2>3. CASE UNCHANGED <<removed, unseen, fade, refs>>
    <3>1. SetInv' /\ FadeInv'
      BY <1>1, <1>3, <2>1, <2>3 DEF SetInv, FadeInv, Faded
    <3> QED BY <1>1, <1>3, <2>1, <2>3, <3>1 DEF Core
  <2>4. CASE /\ removed' = removed \cup {Faded(f)}
             /\ FadeEnds(f, Released(refs, Faded(f)))
             /\ unseen' = unseen \cup {Faded(f)}
    <3>1. SetInv'
      BY <1>1, <1>3, <2>1, <2>4 DEF SetInv
    <3>2. /\ Sound(Released(refs, Faded(f)), Linked)
          /\ KeepsFades(refs, Released(refs, Faded(f)))
      BY <1>1, <2>1, ReleasedSound
    <3>3. Sound(refs', Linked') /\ FadeInv'
      BY <1>4, <2>1, <2>4, <3>2
    <3> QED BY <1>3, <2>1, <3>1, <3>3 DEF Core
  <2> QED BY <1>6, <2>2, <2>3, <2>4 DEF FadeOut
<1>7. ASSUME NEW f \in Fade, UnlinkThinker(f)
      PROVE  Core'
  <2>1. /\ Running(f) /\ fade' = [fade EXCEPT ![f] = "free"]
        /\ removed' = removed /\ shootable' = shootable /\ unseen' = unseen /\ refs' = refs
    BY <1>7 DEF UnlinkThinker
  <2>2. SetInv' /\ FadeInv'
    BY <1>1, <1>3, <2>1 DEF SetInv, FadeInv, Faded
  <2> QED BY <1>1, <1>3, <2>1, <2>2 DEF Core
<1>8. CASE RunMobjs
  <2>1. /\ phase = "thinkers" /\ phase' = "mobjs" /\ cur' = MobjHead /\ seen' = {}
        /\ UNCHANGED <<thinking, pending, list, removed, monster, shootable, owned,
                       unseen, fade, indicator, refs>>
    BY <1>8 DEF RunMobjs, mobjVars, kinds, options
  <2>2. CursorInv' /\ ListInv' /\ Linked' = Linked
    BY <1>1, <2>1 DEF CursorInv, ListInv, Linked
  <2>3. SetInv' /\ FadeInv'
    BY <1>1, <2>1, <2>2 DEF SetInv, FadeInv, Faded
  <2> QED BY <1>1, <2>1, <2>2, <2>3 DEF Core
<1> QED BY <1>5, <1>6, <1>7, <1>8 DEF ThinkerStep

LEMMA MobjKeeps ==
  ASSUME Core, MarkInv, MobjStep
  PROVE  Core'
<1>1. /\ ListInv /\ CursorInv /\ SetInv /\ FadeInv /\ Sound(refs, Linked)
      /\ Linked \in SUBSET Mobj /\ MobjHead \notin Linked /\ owned \subseteq Linked
      /\ MobjHead \notin Mobj
  BY CoreFacts, NoneIsNoMobj DEF Core
\* The cursor moves on to a mobj, and nothing else happens.
<1>2. ASSUME MovesTo(After(cur)), After(cur) \in Mobj, cur' = After(cur),
             thinking' \in BOOLEAN, thinking' = TRUE => After(cur) \notin owned,
             seen' \subseteq Mobj,
             UNCHANGED <<list, removed, kinds, shootable, unseen, refs>>
      PROVE  Core'
  <2>1. /\ phase' = "mobjs" /\ phase = "mobjs"
        /\ UNCHANGED <<pending, owned, fade, indicator>>
    BY <1>1, <1>2 DEF MovesTo, options
  <2>2. ListInv' /\ Linked' = Linked /\ SetInv'
    BY <1>1, <1>2, <2>1 DEF ListInv, Linked, SetInv, kinds
  <2>3. cur \in Linked \cup {MobjHead}
    BY <1>1 DEF CursorInv
  <2>4. After(cur) \in Linked
    BY <1>1, <1>2, <2>3, Neighbours
  <2>5. CursorInv'
    BY <1>1, <1>2, <2>1, <2>2, <2>4 DEF CursorInv
  <2>6. FadeInv'
    BY <1>1, <1>2, <2>1 DEF FadeInv, Faded
  <2> QED BY <1>1, <1>2, <2>2, <2>5, <2>6 DEF Core
<1>3. CASE VisitPlayer
  BY <1>1, <1>2, <1>3 DEF VisitPlayer, CursorInv
<1>4. CASE VisitMobj
  BY <1>1, <1>2, <1>4 DEF VisitMobj, CursorInv
<1>15. CASE VisitPassedOver
  <2>1. After(cur) \in Linked
    BY <1>1, <1>15 DEF VisitPassedOver, PassedOver, MarkInv, SetInv
  <2> QED BY <1>1, <1>2, <1>15, <2>1 DEF VisitPassedOver, CursorInv
\* The current mobj is freed or kept for its references.
<1>5. ASSUME NEW m \in Linked, m \notin owned, NEW r, SafeRemoveMobj(m, r),
             Sound(r, Linked), KeepsFades(refs, r),
             phase' = "mobjs", thinking' = FALSE, seen' \subseteq Mobj,
             UNCHANGED <<pending, owned, fade, indicator>>
      PROVE  Core'
  <2>1. /\ ListInv' /\ cur' \in Linked' \cup {MobjHead}
        /\ SetInv' /\ Sound(refs', Linked') /\ KeepsFades(refs, refs')
    BY <1>5, SafeRemoveKeeps
  <2>2. CursorInv'
    BY <1>5, <2>1 DEF CursorInv
  <2>3. FadeInv'
    BY <1>1, <1>5, <2>1, FadeFrame
  <2> QED BY <2>1, <2>2, <2>3 DEF Core
<1>6. CASE VisitRemoved
  <2>1. /\ After(cur) \in removed /\ SafeRemoveMobj(After(cur), refs)
        /\ thinking' = FALSE /\ seen' \subseteq seen \cup {After(cur)}
        /\ MovesTo(After(cur))
    BY <1>6 DEF VisitRemoved
  <2>2. After(cur) \in Linked /\ After(cur) \notin owned
    BY <1>1, <2>1 DEF SetInv
  <2>3. phase' = "mobjs" /\ UNCHANGED <<pending, owned, fade, indicator>>
    BY <1>1, <2>1, <2>2 DEF MovesTo, options
  <2>4. seen' \subseteq Mobj
    BY <1>1, <2>1, <2>2 DEF CursorInv
  <2> QED BY <1>1, <1>5, <2>1, <2>2, <2>3, <2>4 DEF KeepsFades
<1>7. CASE EndPass
  <2>1. /\ phase' = "world" /\ cur' = MobjHead /\ thinking' = FALSE /\ seen' = {}
        /\ UNCHANGED <<pending, owned, fade, indicator, list, removed, monster,
                       shootable, unseen, refs>>
    BY <1>7 DEF EndPass, MovesTo, mobjVars, kinds, options
  <2>2. ListInv' /\ Linked' = Linked /\ CursorInv'
    BY <1>1, <2>1 DEF ListInv, Linked, CursorInv
  <2>3. SetInv' /\ FadeInv'
    BY <1>1, <2>1, <2>2 DEF SetInv, FadeInv, Faded
  <2> QED BY <1>1, <2>1, <2>2, <2>3 DEF Core
\* The turn of a mobj of the list.
<1>8. thinking => phase = "mobjs" /\ cur \in Linked /\ cur \notin owned
  BY <1>1 DEF CursorInv
<1>9. ASSUME Turn, ListInv', SetInv', Linked \subseteq Linked', owned' = owned,
             Sound(refs', Linked'), KeepsFades(refs, refs')
      PROVE  Core'
  <2>1. CursorInv'
    BY <1>1, <1>8, <1>9 DEF Turn, CursorInv
  <2>2. FadeInv'
    BY <1>1, <1>9, FadeFrame DEF Turn, options
  <2> QED BY <1>9, <2>1, <2>2 DEF Core
<1>10. ASSUME NEW t \in Mobj, Targets(t)
       PROVE  Core'
  <2>1. /\ Turn /\ t \in Linked /\ refs' = SetTarget(refs, Target(cur), t)
        /\ UNCHANGED <<list, removed, monster, shootable, owned, unseen>>
    BY <1>10 DEF Targets, mobjVars, kinds
  <2>2. ListInv' /\ Linked' = Linked
    BY <1>1, <2>1 DEF ListInv, Linked
  <2>3. SetInv'
    BY <1>1, <2>1, <2>2 DEF SetInv
  <2>4. Target(cur) \in Slot /\ \A f \in Fade : Target(cur) # <<"fade", f>>
    BY <1>1, <1>8, <2>1, Slots DEF Turn
  <2>5. Sound(refs', Linked') /\ KeepsFades(refs, refs')
    BY <1>1, <2>1, <2>2, <2>4, SetTargetKeeps
  <2> QED BY <1>9, <2>1, <2>2, <2>3, <2>5
<1>11. ASSUME NEW n \in Mobj, NEW hostile \in BOOLEAN, Shoots(n, hostile)
       PROVE  Core'
  <2>1. Turn /\ Shoot(cur, n, hostile) /\ cur \in Linked
    BY <1>8, <1>11 DEF Shoots, Turn
  <2> QED BY <1>9, <2>1, ShootKeeps
<1>12. ASSUME NEW t \in Mobj, NEW source \in {cur, refs.ptr[Target(cur)]}, Strikes(t, source)
       PROVE  Core'
  <2>1. Turn /\ Hurt(t, source) /\ cur \in Linked
    BY <1>8, <1>12 DEF Strikes, Turn
  <2>2. source \in Linked \cup {None}
    BY <1>1, <2>1, CoreFacts
  <2> QED BY <1>9, <2>1, <2>2, HurtKeeps
<1>13. CASE Vanishes
  <2>1. /\ thinking /\ thinking' = FALSE /\ phase' = phase
        /\ UNCHANGED <<pending, owned, fade, indicator>>
        /\ SafeRemoveMobj(cur, Released(refs, cur)) /\ seen' \subseteq seen
    BY <1>13 DEF Vanishes, TurnEnds, options
  <2>2. Sound(Released(refs, cur), Linked) /\ KeepsFades(refs, Released(refs, cur))
    BY <1>1, <1>8, <2>1, ReleasedSound
  <2>3. seen' \subseteq Mobj
    BY <1>1, <2>1 DEF CursorInv
  <2> QED BY <1>5, <1>8, <2>1, <2>2, <2>3
<1>14. CASE FliesAway
  <2>1. /\ thinking /\ thinking' = FALSE /\ phase' = phase /\ cur' = cur /\ seen' = seen
        /\ removed' = removed \cup {cur} /\ refs' = Released(refs, cur)
        /\ UNCHANGED <<pending, owned, fade, indicator, list, monster, shootable, unseen>>
    BY <1>14 DEF FliesAway, TurnEnds, RemoveMobj, kinds, options
  <2>2. ListInv' /\ Linked' = Linked /\ CursorInv'
    BY <1>1, <2>1 DEF ListInv, Linked, CursorInv
  <2>3. SetInv'
    BY <1>1, <1>8, <2>1, <2>2 DEF SetInv
  <2>4. Sound(refs', Linked') /\ KeepsFades(refs, refs')
    BY <1>1, <1>8, <2>1, <2>2, ReleasedSound
  <2>5. FadeInv'
    BY <1>1, <2>1, <2>4, FadeFrame
  <2> QED BY <2>2, <2>3, <2>4, <2>5 DEF Core
<1> QED
  BY <1>3, <1>4, <1>6, <1>7, <1>10, <1>11, <1>12, <1>13, <1>14, <1>15 DEF MobjStep

\* MF_NOSECTOR goes with its mobj, and the lock is an option.
LEMMA MarksKept ==
  ASSUME Core, MarkInv, Next
  PROVE  MarkInv'
<1>1. ListInv /\ CursorInv /\ SetInv /\ MobjHead \notin Linked
  BY CoreFacts DEF Core
<1>2. ASSUME list' = list, nosector' \subseteq nosector, locked' \in BOOLEAN, game' = game
      PROVE  MarkInv'
  BY <1>2 DEF MarkInv, Linked
<1>3. ASSUME NEW n, NEW kind, SpawnMobj(n, kind), locked' = locked, game' = game
      PROVE  MarkInv'
  <2>1. Linked' = Linked \cup {n}
    BY <1>3, SpawnKeeps
  <2>2. nosector' \subseteq nosector \cup {n}
    BY <1>3 DEF SpawnMobj
  <2> QED BY <1>3, <2>1, <2>2 DEF MarkInv
<1>4. ASSUME NEW m \in Linked, NEW r, SafeRemoveMobj(m, r), locked' = locked,
             game' = game
      PROVE  MarkInv'
  <2>1. CASE r.count[m] = 0
    <3>1. list' = RemoveAt(list, Place(m)) /\ nosector' = nosector \ {m}
      BY <1>4, <2>1 DEF SafeRemoveMobj, FreeMobj
    <3>2. Place(m) \in 1 .. Len(list) /\ list[Place(m)] = m
      BY <1>1, Neighbours
    <3>3. Linked' = Linked \ {m}
      BY <1>1, <3>1, <3>2, RemoveList DEF ListInv, Linked
    <3> QED BY <1>4, <3>1, <3>3 DEF MarkInv
  <2>2. CASE r.count[m] # 0
    <3>1. list' = list /\ nosector' = nosector
      BY <1>4, <2>2 DEF SafeRemoveMobj, kinds
    <3> QED BY <1>2, <1>4, <3>1 DEF MarkInv
  <2> QED BY <2>1, <2>2
<1>5. CASE WorldStep
  <2>1. ASSUME NEW n \in Mobj, PlayerShoots(n) PROVE MarkInv'
    BY <1>3, <2>1 DEF PlayerShoots, Shoot, options
  <2>2. ASSUME NEW f \in Fade, NEW n \in Mobj, NEW kind, SpawnMobjTemplate(f, n, kind)
        PROVE  MarkInv'
    BY <1>3, <2>2 DEF SpawnMobjTemplate, options
  <2>3. ASSUME NEW f \in Fade, NEW t \in Mobj, FadeOutMobj(f, t) PROVE MarkInv'
    <3>1. list' = list /\ nosector' \subseteq nosector /\ UNCHANGED <<locked, game>>
      BY <2>3 DEF FadeOutMobj, LosesFlags, kinds, options
    <3> QED BY <1>2, <3>1 DEF MarkInv
  <2>4. ASSUME NEW p \in Mobj, EndLevel(p) PROVE MarkInv'
    <3>1. nosector' = {} /\ UNCHANGED <<locked, game>>
      BY <2>4 DEF EndLevel, options
    <3> QED BY <3>1 DEF MarkInv
  <2>5. CASE SwitchLock
    <3>1. list' = list /\ nosector' = nosector /\ locked' = ~locked /\ game' = game
      BY <2>5 DEF SwitchLock, mobjVars, kinds
    <3> QED BY <1>2, <3>1 DEF MarkInv
  <2>6. ASSUME NEW t \in Mobj, NEW source, PlayerHits(t, source) PROVE MarkInv'
    BY <1>2, <2>6 DEF PlayerHits, Hurt, kinds, options, MarkInv
  <2>7. ASSUME NEW t \in Mobj, PickUp(t) \/ AlertTaggedMobj(t) PROVE MarkInv'
    BY <1>2, <2>7 DEF PickUp, AlertTaggedMobj, kinds, options, MarkInv
  <2>8. ASSUME NEW s \in Sector, NoiseAlert(s) PROVE MarkInv'
    BY <1>2, <2>8 DEF NoiseAlert, mobjVars, kinds, options, MarkInv
  <2>9. ASSUME NEW k \in Marker, MarkerEnds(k) PROVE MarkInv'
    BY <1>2, <2>9 DEF MarkerEnds, mobjVars, kinds, options, MarkInv
  <2>10. CASE SwitchIndicator \/ RunThinkers
    BY <1>2, <2>10 DEF SwitchIndicator, RunThinkers, mobjVars, kinds, options, MarkInv
  <2> QED
    BY <1>5, <2>1, <2>2, <2>3, <2>4, <2>5, <2>6, <2>7, <2>8, <2>9, <2>10 DEF WorldStep
<1>6. CASE ThinkerStep
  <2>1. ASSUME NEW f \in Fade, FadeIn(f) \/ FadeOut(f) \/ UnlinkThinker(f) PROVE MarkInv'
    BY <1>2, <2>1 DEF FadeIn, FadeOut, UnlinkThinker, Running, kinds, options, MarkInv
  <2>2. CASE RunMobjs
    BY <1>2, <2>2 DEF RunMobjs, mobjVars, kinds, options, MarkInv
  <2> QED BY <1>6, <2>1, <2>2 DEF ThinkerStep
<1>7. CASE MobjStep
  <2>1. CASE VisitRemoved
    BY <1>1, <1>4, <2>1 DEF VisitRemoved, MovesTo, options, SetInv
  <2>2. CASE Vanishes
    <3>1. cur \in Linked
      BY <1>1, <2>2 DEF Vanishes, TurnEnds, CursorInv
    <3> QED BY <1>4, <2>2, <3>1 DEF Vanishes, TurnEnds, options
  <2>3. ASSUME NEW n \in Mobj, NEW hostile \in BOOLEAN, Shoots(n, hostile) PROVE MarkInv'
    BY <1>3, <2>3 DEF Shoots, Turn, Shoot, options
  <2>4. CASE VisitPlayer \/ VisitPassedOver \/ VisitMobj \/ EndPass
    BY <1>2, <2>4
       DEF VisitPlayer, VisitPassedOver, VisitMobj, EndPass, MovesTo, kinds, options, MarkInv
  <2>5. ASSUME NEW t \in Mobj, Targets(t) PROVE MarkInv'
    BY <1>2, <2>5 DEF Targets, Turn, mobjVars, kinds, options, MarkInv
  <2>6. ASSUME NEW t \in Mobj, NEW source, Strikes(t, source) PROVE MarkInv'
    BY <1>2, <2>6 DEF Strikes, Turn, Hurt, kinds, options, MarkInv
  <2>7. CASE FliesAway
    BY <1>2, <2>7 DEF FliesAway, TurnEnds, kinds, options, MarkInv
  <2> QED BY <1>7, <2>1, <2>2, <2>3, <2>4, <2>5, <2>6, <2>7 DEF MobjStep
<1> QED BY <1>5, <1>6, <1>7 DEF Next

---------------------------------------------------------------------------
(* The invariant and what follows from it.                                 *)

LEMMA InitInv == Init => IInv
<1> SUFFICES ASSUME Init PROVE IInv
  OBVIOUS
<1>1. PICK p \in Mobj : list = <<p>> /\ owned = {p} /\ shootable = {p}
  BY DEF Init
<1>2. /\ removed = {} /\ monster = {} /\ nosector = {} /\ unseen = {}
      /\ phase = "world" /\ cur = MobjHead /\ thinking = FALSE
      /\ pending = {} /\ seen = {} /\ due = {}
      /\ fade = [f \in Fade |-> "free"]
      /\ game \in Games /\ indicator = TRUE /\ locked \in {FALSE, game.lockable}
      /\ refs = [ptr |-> [s \in Slot |-> None], count |-> [m \in Mobj |-> 0]]
  BY DEF Init
<1>3. <<p>> \in Seq(Mobj) /\ IsInjective(<<p>>) /\ Range(<<p>>) = {p}
  BY DEF IsInjective, Range
<1>4. ListInv /\ Linked = {p}
  BY <1>1, <1>3 DEF ListInv, Linked
<1>5. CursorInv /\ SetInv
  BY <1>1, <1>2, <1>4 DEF CursorInv, SetInv
<1>6. FadeInv
  BY <1>2 DEF FadeInv
<1>7. Sound(refs, Linked)
  <2>1. \A m \in Mobj : PtrsTo(refs, m) = {}
    BY <1>2, NoneIsNoMobj DEF PtrsTo
  <2> QED BY <1>2, <2>1, FS_EmptySet DEF Sound
<1>8. MarkInv
  BY <1>2, GamesAssumption DEF MarkInv
<1> QED BY <1>2, <1>4, <1>5, <1>6, <1>7, <1>8 DEF IInv, Core

LEMMA NextInv ==
  ASSUME ~Switchable, IInv, [Next]_vars
  PROVE  IInv'
<1>1. CASE Next
  <2>1. Core'
    BY <1>1, WorldKeeps, ThinkerKeeps, MobjKeeps DEF IInv, Next
  <2>2. removed' \subseteq Mobj
    <3>1. Linked' \subseteq Mobj
      BY <2>1, InRange DEF Core, ListInv, Linked
    <3> QED BY <2>1, <3>1 DEF Core, SetInv
  <2>4. MarkInv'
    BY <1>1, MarksKept DEF IInv
  <2>3. due' \subseteq removed'
    BY <1>1 DEF Next
  <2> QED BY <2>1, <2>2, <2>3, <2>4 DEF IInv
<1>2. CASE UNCHANGED vars
  BY <1>2 DEF vars, mobjVars, kinds, options, loopVars, IInv, Core, ListInv, CursorInv, SetInv, FadeInv,
              MarkInv, Linked, Faded
<1> QED BY <1>1, <1>2

LEMMA Invariant ==
  ASSUME ~Switchable
  PROVE  Spec => []IInv
<1>1. Init => IInv
  BY InitInv
<1>2. IInv /\ [Next]_vars => IInv'
  BY NextInv
<1> QED BY <1>1, <1>2, PTL DEF Spec

\* TypeOK: in particular the cursor of P_RunMobjs is always in the list (or
\* at its head), so that the loop never goes on from freed memory, and the
\* player is never freed.
THEOREM TypeCorrect ==
  ASSUME ~Switchable
  PROVE  Spec => []TypeOK
<1>1. IInv => TypeOK
  <2> SUFFICES ASSUME IInv PROVE TypeOK
    OBVIOUS
  <2>1. /\ ListInv /\ CursorInv /\ SetInv /\ FadeInv /\ Sound(refs, Linked) /\ MarkInv
        /\ due \subseteq Mobj
    BY DEF IInv, Core
  <2>2. removed \cup monster \cup nosector \cup shootable \cup unseen \subseteq Linked
    BY <2>1 DEF SetInv, MarkInv
  <2> QED BY <2>1, <2>2 DEF MarkInv, TypeOK, ListInv, CursorInv, SetInv, FadeInv, Sound
<1> QED BY <1>1, Invariant, PTL

\* HeldIsLinked: no pointer that P_SetTarget counts leads to freed memory.
THEOREM NothingDangles ==
  ASSUME ~Switchable
  PROVE  Spec => []HeldIsLinked
<1>1. IInv => HeldIsLinked
  BY DEF IInv, Core, Sound, HeldIsLinked
<1> QED BY <1>1, Invariant, PTL

\* NeverUndercounted: refcount is at least the number of counted pointers, so
\* that P_SafeRemoveMobj, which asks only whether it is 0, is right to free.
THEOREM CountsSuffice ==
  ASSUME ~Switchable
  PROVE  Spec => []NeverUndercounted
<1>1. IInv => NeverUndercounted
  BY DEF IInv, Core, Sound, NeverUndercounted, Pointing, PtrsTo
<1> QED BY <1>1, Invariant, PTL

---------------------------------------------------------------------------
(* The order of the turns, and what is freed in a pass.                    *)

(* The cursor c stands at the k-th mobj of l, and s are those up to it.    *)
Upto(l, c, s, k) ==
    /\ c = IF k = 0 THEN MobjHead ELSE l[k]
    /\ s = {l[i] : i \in 1 .. k}

TurnsInv == phase = "mobjs" => \E k \in 0 .. Len(list) : Upto(list, cur, seen, k)

(* What is due has not been come to yet, and will not be passed over.      *)
DueInv ==
    /\ phase # "mobjs" => due = {}
    /\ due \subseteq removed /\ due \cap seen = {}
    /\ \A m \in due : refs.count[m] = 0
    /\ due \cap PassedOver = {}

LEMMA PlaceIs ==
  ASSUME NEW l \in Seq(Mobj), IsInjective(l), NEW k \in 1 .. Len(l)
  PROVE  (CHOOSE i \in 1 .. Len(l) : l[i] = l[k]) = k
<1>1. \A i, j \in 1 .. Len(l) : l[i] = l[j] => i = j
  BY InRange DEF IsInjective
<1> QED BY <1>1

\* The mobj that P_RunMobjs goes on to is the one after those it has come to.
LEMMA NextInLine ==
  ASSUME ListInv, NEW k \in 0 .. Len(list), cur = IF k = 0 THEN MobjHead ELSE list[k]
  PROVE  /\ Len(list) \in Nat
         /\ k < Len(list) => After(cur) = list[k + 1]
         /\ k = Len(list) => After(cur) = MobjHead
         /\ \A i, j \in 1 .. Len(list) : list[i] = list[j] => i = j
         /\ \A i \in 1 .. Len(list) : list[i] \in Mobj /\ list[i] # MobjHead /\ Place(list[i]) = i
         /\ \A x : x \in Linked <=> \E i \in 1 .. Len(list) : x = list[i]
<1>1. /\ list \in Seq(Mobj) /\ IsInjective(list) /\ Len(list) \in Nat
      /\ \A i, j \in 1 .. Len(list) : list[i] = list[j] => i = j
      /\ \A x : x \in Linked <=> \E i \in 1 .. Len(list) : x = list[i]
  BY InRange DEF ListInv, Linked, IsInjective
<1>2. \A i \in 1 .. Len(list) : list[i] \in Mobj /\ list[i] # MobjHead
  BY <1>1, NoneIsNoMobj
<1>3. \A i \in 1 .. Len(list) : Place(list[i]) = i
  BY <1>1, PlaceIs DEF Place
<1>4. CASE k = 0
  <2>1. cur = MobjHead
    BY <1>4
  <2>2. list = <<>> <=> Len(list) = 0
    BY <1>1, EmptySeq
  <2> QED BY <1>1, <1>2, <1>3, <1>4, <2>1, <2>2 DEF After
<1>5. CASE k # 0
  <2>1. k \in 1 .. Len(list) /\ cur = list[k] /\ cur # MobjHead /\ Place(cur) = k
    BY <1>1, <1>2, <1>3, <1>5
  <2> QED BY <1>1, <1>2, <1>3, <2>1 DEF After
<1> QED BY <1>4, <1>5

\* The cursor moves on to the next mobj.
LEMMA UptoNext ==
  ASSUME NEW l, NEW c, NEW s, NEW k \in Nat, Upto(l, c, s, k)
  PROVE  Upto(l, l[k + 1], s \cup {l[k + 1]}, k + 1)
<1>1. {l[i] : i \in 1 .. k + 1} = {l[i] : i \in 1 .. k} \cup {l[k + 1]}
  <2>1. \A i : i \in 1 .. k + 1 <=> i \in 1 .. k \/ i = k + 1
    OBVIOUS
  <2> QED BY <2>1
<1>2. k + 1 # 0
  OBVIOUS
<1> QED BY <1>1, <1>2 DEF Upto

\* A mobj joins the list behind the cursor.
LEMMA UptoAppend ==
  ASSUME NEW l \in Seq(Mobj), NEW n \in Mobj, NEW c, NEW s, NEW k \in 0 .. Len(l),
         Upto(l, c, s, k)
  PROVE  Upto(Append(l, n), c, s, k) /\ k \in 0 .. Len(Append(l, n))
<1>1. \A i \in 1 .. Len(l) : Append(l, n)[i] = l[i]
  OBVIOUS
<1>2. Len(Append(l, n)) = Len(l) + 1 /\ Len(l) \in Nat
  OBVIOUS
<1>3. \A i \in 1 .. k : Append(l, n)[i] = l[i]
  BY <1>1, <1>2
<1>4. {Append(l, n)[i] : i \in 1 .. k} = {l[i] : i \in 1 .. k}
  BY <1>3
<1>5. k = 0 \/ k \in 1 .. k
  BY <1>2
<1> QED BY <1>2, <1>3, <1>4, <1>5 DEF Upto

\* The mobj at place k, the last that was come to or the one after it, leaves
\* the list: the cursor steps back to the one before it.
LEMMA UptoRemove ==
  ASSUME NEW l \in Seq(Mobj), IsInjective(l), NEW k \in 1 .. Len(l)
  PROVE  /\ k - 1 \in 0 .. Len(RemoveAt(l, k))
         /\ Upto(RemoveAt(l, k), IF k = 1 THEN MobjHead ELSE l[k - 1],
                 {l[i] : i \in 1 .. k} \ {l[k]}, k - 1)
         /\ Upto(RemoveAt(l, k), IF k = 1 THEN MobjHead ELSE l[k - 1],
                 {l[i] : i \in 1 .. k - 1} \ {l[k]}, k - 1)
<1> DEFINE q == RemoveAt(l, k)
<1>1. Len(l) \in Nat /\ \A i, j \in 1 .. Len(l) : l[i] = l[j] => i = j
  BY InRange DEF IsInjective
<1>2. Len(q) = Len(l) - 1
  BY RemoveList
<1>3. \A i \in 1 .. k - 1 : q[i] = l[i]
  <2>1. \A j \in 1 .. Len(l) - 1 : q[j] = IF j < k THEN l[j] ELSE l[j + 1]
    BY RemoveAtElements
  <2> HIDE DEF q
  <2>2. \A i \in 1 .. k - 1 : i \in 1 .. Len(l) - 1 /\ i < k
    BY <1>1
  <2> QED BY <2>1, <2>2
<1> HIDE DEF q
<1>4. {q[i] : i \in 1 .. k - 1} = {l[i] : i \in 1 .. k - 1}
  BY <1>3
<1>5. {l[i] : i \in 1 .. k - 1} \ {l[k]} = {l[i] : i \in 1 .. k - 1}
  <2>1. \A i \in 1 .. k - 1 : i \in 1 .. Len(l) /\ i # k
    BY <1>1
  <2> QED BY <1>1, <2>1
<1>6. {l[i] : i \in 1 .. k} \ {l[k]} = {l[i] : i \in 1 .. k - 1}
  <2>1. \A i : i \in 1 .. k <=> i \in 1 .. k - 1 \/ i = k
    OBVIOUS
  <2> QED BY <1>5, <2>1
<1>7. k - 1 \in 0 .. Len(q) /\ (k - 1 = 0 <=> k = 1)
  BY <1>1, <1>2
<1>8. k # 1 => q[k - 1] = l[k - 1]
  BY <1>3
<1> QED BY <1>4, <1>5, <1>6, <1>7, <1>8 DEF Upto, q

LEMMA TurnsKept ==
  ASSUME Core, MarkInv, TurnsInv, Next, Core'
  PROVE  TurnsInv'
<1>1. /\ ListInv /\ CursorInv /\ Linked \in SUBSET Mobj /\ list \in Seq(Mobj) /\ IsInjective(list)
  BY CoreFacts DEF Core, ListInv
<1>2. CASE phase' # "mobjs"
  BY <1>2 DEF TurnsInv
<1>3. ASSUME phase = "mobjs", UNCHANGED <<list, cur, seen>>
      PROVE  TurnsInv'
  BY <1>3 DEF TurnsInv
<1>4. CASE WorldStep
  <2>1. phase' # "mobjs"
    BY <1>4 DEF WorldStep, PlayerShoots, PlayerHits, PickUp, AlertTaggedMobj, NoiseAlert,
         SpawnMobjTemplate, FadeOutMobj, MarkerEnds, SwitchIndicator, SwitchLock, EndLevel, RunThinkers, World
  <2> QED BY <1>2, <2>1
<1>5. CASE ThinkerStep
  <2>1. ASSUME NEW f \in Fade, FadeIn(f) \/ FadeOut(f) \/ UnlinkThinker(f)
        PROVE  phase' # "mobjs"
    BY <2>1 DEF FadeIn, FadeOut, UnlinkThinker, Running
  <2>2. ASSUME RunMobjs PROVE TurnsInv'
    <3>1. cur' = MobjHead /\ seen' = {} /\ list' = list
      BY <2>2 DEF RunMobjs, mobjVars
    <3>2. 0 \in 0 .. Len(list)
      BY <1>1, InRange
    <3>3. Upto(list, MobjHead, {}, 0)
      BY DEF Upto
    <3> QED BY <3>1, <3>2, <3>3 DEF TurnsInv
  <2> QED BY <1>2, <1>5, <2>1, <2>2 DEF ThinkerStep
<1>6. CASE MobjStep
  <2>1. CASE phase # "mobjs"
    <3>1. ~thinking /\ FALSE
      BY <1>1, <1>6, <2>1
         DEF CursorInv, MobjStep, VisitPlayer, VisitPassedOver, VisitRemoved, VisitMobj, EndPass, MovesTo, Targets,
             Turn, Shoots, Strikes, Vanishes, FliesAway, TurnEnds
    <3> QED BY <3>1
  <2>2. CASE phase = "mobjs"
    <3>1. PICK k \in 0 .. Len(list) : Upto(list, cur, seen, k)
      BY <2>2 DEF TurnsInv
    <3>2. cur = IF k = 0 THEN MobjHead ELSE list[k]
      BY <3>1 DEF Upto
    <3>3. /\ Len(list) \in Nat /\ k \in Nat
          /\ k < Len(list) => After(cur) = list[k + 1]
          /\ k = Len(list) => After(cur) = MobjHead
          /\ \A i \in 1 .. Len(list) : list[i] \in Mobj /\ list[i] # MobjHead /\ Place(list[i]) = i
      BY <1>1, <3>2, NextInLine
    <3>4. After(cur) \in Mobj => k < Len(list) /\ k + 1 \in 1 .. Len(list)
      BY <3>3, NoneIsNoMobj
    <3>5. ASSUME After(cur) \in Mobj, cur' = After(cur), seen' = seen \cup {After(cur)}, list' = list
          PROVE  TurnsInv'
      <4>1. Upto(list, list[k + 1], seen \cup {list[k + 1]}, k + 1)
        BY <3>1, <3>3, UptoNext
      <4>2. k + 1 \in 0 .. Len(list) /\ After(cur) = list[k + 1]
        BY <3>3, <3>4, <3>5
      <4>3. Upto(list', cur', seen', k + 1) /\ k + 1 \in 0 .. Len(list')
        BY <3>5, <4>1, <4>2
      <4> QED BY <4>3 DEF TurnsInv
    <3>6. CASE VisitPlayer
      <4>1. After(cur) \in owned /\ owned \subseteq Mobj
        BY <1>1, <3>6, CoreFacts DEF VisitPlayer
      <4> QED BY <3>5, <3>6, <4>1 DEF VisitPlayer
    <3>7. CASE VisitMobj
      BY <3>5, <3>7 DEF VisitMobj
    <3>15. CASE VisitPassedOver
      <4>1. After(cur) \in Mobj
        BY <1>1, <3>15 DEF VisitPassedOver, PassedOver, MarkInv, Core, SetInv
      <4> QED BY <3>5, <3>15, <4>1 DEF VisitPassedOver
    <3>8. CASE VisitRemoved
      <4>1. After(cur) \in Mobj
        BY <1>1, <3>8 DEF VisitRemoved, Core, SetInv
      <4>2. SafeRemoveMobj(After(cur), refs)
        BY <3>8 DEF VisitRemoved
      <4>3. CASE refs.count[After(cur)] = 0
        <5>1. /\ After(cur) = list[k + 1] /\ Place(After(cur)) = k + 1 /\ k + 1 \in 1 .. Len(list)
          BY <3>3, <3>4, <4>1
        <5>2. /\ list' = RemoveAt(list, k + 1)
              /\ cur' = IF k + 1 = 1 THEN MobjHead ELSE list[k + 1 - 1]
              /\ seen' = seen \ {list[k + 1]}
          BY <3>8, <4>2, <4>3, <5>1 DEF SafeRemoveMobj, FreeMobj, Before, VisitRemoved
        <5>3. k + 1 - 1 = k /\ seen = {list[i] : i \in 1 .. k + 1 - 1}
          BY <3>1, <3>3 DEF Upto
        <5> DEFINE j == k + 1
        <5>4. j \in 1 .. Len(list) /\ j - 1 = k
          BY <5>1, <5>3
        <5>5. /\ j - 1 \in 0 .. Len(list')
              /\ Upto(list', cur', seen', j - 1)
          <6> HIDE DEF j
          <6>1. /\ list' = RemoveAt(list, j)
                /\ cur' = IF j = 1 THEN MobjHead ELSE list[j - 1]
                /\ seen' = {list[i] : i \in 1 .. j - 1} \ {list[j]}
            BY <5>2, <5>3 DEF j
          <6> QED BY <1>1, <5>4, <6>1, UptoRemove
        <5> QED BY <5>5 DEF TurnsInv
      <4>4. CASE refs.count[After(cur)] # 0
        BY <3>5, <3>8, <4>1, <4>2, <4>4 DEF SafeRemoveMobj, VisitRemoved
      <4> QED BY <4>3, <4>4
    <3>9. CASE EndPass
      BY <1>2, <3>9 DEF EndPass, MovesTo
    <3>10. ASSUME NEW t \in Mobj, Targets(t) PROVE TurnsInv'
      BY <1>3, <2>2, <3>10 DEF Targets, Turn, mobjVars
    <3>11. ASSUME NEW n \in Mobj, NEW hostile \in BOOLEAN, Shoots(n, hostile) PROVE TurnsInv'
      <4>1. list' = Append(list, n) /\ cur' = cur /\ seen' = seen
        BY <3>11 DEF Shoots, Turn, Shoot, SpawnMobj
      <4> QED BY <1>1, <3>1, <4>1, UptoAppend DEF TurnsInv
    <3>12. ASSUME NEW t \in Mobj, NEW source, Strikes(t, source) PROVE TurnsInv'
      BY <1>3, <2>2, <3>12 DEF Strikes, Turn, Hurt
    <3>13. CASE Vanishes
      <4>1. thinking /\ SafeRemoveMobj(cur, Released(refs, cur)) /\ cur # MobjHead
        BY <1>1, <3>13 DEF Vanishes, TurnEnds, CursorInv
      <4>2. k \in 1 .. Len(list) /\ cur = list[k] /\ Place(cur) = k
        BY <3>2, <3>3, <4>1
      <4>3. CASE Released(refs, cur).count[cur] = 0
        <5>1. /\ list' = RemoveAt(list, k)
              /\ cur' = IF k = 1 THEN MobjHead ELSE list[k - 1]
              /\ seen' = seen \ {list[k]}
          BY <3>13, <4>1, <4>2, <4>3 DEF SafeRemoveMobj, FreeMobj, Before, Vanishes
        <5>2. seen = {list[i] : i \in 1 .. k}
          BY <3>1 DEF Upto
        <5> QED BY <1>1, <4>2, <5>1, <5>2, UptoRemove DEF TurnsInv
      <4>4. CASE Released(refs, cur).count[cur] # 0
        BY <1>3, <2>2, <3>13, <4>1, <4>4 DEF SafeRemoveMobj, Vanishes
      <4> QED BY <4>3, <4>4
    <3>14. CASE FliesAway
      BY <1>3, <2>2, <3>14 DEF FliesAway
    <3> QED
      BY <1>6, <3>6, <3>7, <3>8, <3>9, <3>10, <3>11, <3>12, <3>13, <3>14, <3>15 DEF MobjStep
  <2> QED BY <2>1, <2>2
<1> QED BY <1>4, <1>5, <1>6 DEF Next

(* In a pass the flags that P_RunMobjs asks for change with a new mobj only. *)
LEMMA MobjStepKinds ==
  ASSUME MobjStep
  PROVE  /\ owned' = owned /\ locked' = locked
         /\ \A x \in monster' : x \in monster \/ x \notin Linked
         /\ \A x \in nosector' : x \in nosector \/ x \notin Linked
<1>1. CASE VisitPlayer \/ VisitPassedOver \/ VisitMobj \/ EndPass
  BY <1>1 DEF VisitPlayer, VisitPassedOver, VisitMobj, EndPass, MovesTo, mobjVars, kinds, options
<1>2. CASE VisitRemoved
  BY <1>2 DEF VisitRemoved, SafeRemoveMobj, FreeMobj, MovesTo, kinds, options
<1>3. ASSUME NEW t \in Mobj, Targets(t)
      PROVE  UNCHANGED <<owned, locked, monster, nosector>>
  BY <1>3 DEF Targets, Turn, mobjVars, kinds, options
<1>4. ASSUME NEW n \in Mobj, NEW hostile \in BOOLEAN, Shoots(n, hostile)
      PROVE  /\ UNCHANGED <<owned, locked>>
             /\ \A x \in monster' : x \in monster \/ x \notin Linked
             /\ \A x \in nosector' : x \in nosector \/ x \notin Linked
  BY <1>4 DEF Shoots, Shoot, SpawnMobj, Free, Turn, options
<1>5. ASSUME NEW t \in Mobj, NEW source, Strikes(t, source)
      PROVE  UNCHANGED <<owned, locked, monster, nosector>>
  BY <1>5 DEF Strikes, Hurt, Turn, kinds, options
<1>6. CASE Vanishes
  BY <1>6 DEF Vanishes, TurnEnds, SafeRemoveMobj, FreeMobj, kinds, options
<1>7. CASE FliesAway
  BY <1>7 DEF FliesAway, TurnEnds, kinds, options
<1> QED BY <1>1, <1>2, <1>3, <1>4, <1>5, <1>6, <1>7 DEF MobjStep

LEMMA DueKept ==
  ASSUME Core, MarkInv, TurnsInv, DueInv, Next
  PROVE  DueInv'
<1>1. /\ ListInv /\ CursorInv /\ SetInv /\ Linked \in SUBSET Mobj /\ MobjHead \notin Mobj
      /\ owned \subseteq Linked /\ removed \subseteq Linked /\ nosector \subseteq Linked
  BY CoreFacts, NoneIsNoMobj DEF Core, SetInv, MarkInv
<1>2. due' = IF phase' = "thinkers" THEN {}
             ELSE {m \in Due \cap removed' : refs'.count[m] = 0}
  BY DEF Next
<1>3. due' \subseteq removed' /\ \A m \in due' : refs'.count[m] = 0
  BY <1>2
<1>4. CASE WorldStep
  <2>1. phase = "world" /\ phase' # "mobjs"
    BY <1>4 DEF WorldStep, PlayerShoots, PlayerHits, PickUp, AlertTaggedMobj, NoiseAlert,
         SpawnMobjTemplate, FadeOutMobj, MarkerEnds, SwitchIndicator, SwitchLock, EndLevel, RunThinkers, World
  <2>2. due' = {}
    BY <1>2, <2>1 DEF Due, DueInv
  <2> QED BY <2>1, <2>2 DEF DueInv
<1>5. CASE ThinkerStep
  <2>1. ASSUME NEW f \in Fade, FadeIn(f) \/ FadeOut(f) \/ UnlinkThinker(f)
        PROVE  DueInv'
    <3>1. phase' = "thinkers"
      BY <2>1 DEF FadeIn, FadeOut, UnlinkThinker, Running
    <3>2. due' = {}
      BY <1>2, <3>1
    <3> QED BY <3>2 DEF DueInv
  <2>2. ASSUME RunMobjs PROVE DueInv'
    <3>1. phase = "thinkers" /\ phase' = "mobjs" /\ seen' = {}
      BY <2>2 DEF RunMobjs
    <3>2. PassedOver' = PassedOver
      BY <2>2 DEF RunMobjs, PassedOver, mobjVars, kinds, options
    <3>3. due' \cap PassedOver' = {}
      BY <1>2, <3>1, <3>2 DEF Due
    <3> QED BY <1>3, <3>1, <3>3 DEF DueInv
  <2> QED BY <1>5, <2>1, <2>2 DEF ThinkerStep
<1>6. CASE MobjStep
  <2>1. phase = "mobjs"
    BY <1>1, <1>6
       DEF CursorInv, MobjStep, VisitPlayer, VisitPassedOver, VisitRemoved, VisitMobj, EndPass, MovesTo, Targets,
           Turn, Shoots, Strikes, Vanishes, FliesAway, TurnEnds
  <2>2. due' \subseteq due \cap removed'
    BY <1>2, <2>1 DEF Due
  \* Nobody joins the passed over but new mobjs, and none of those is due.
  <2>14. \A x \in PassedOver' : x \in PassedOver \/ x \notin Linked
    BY <1>1, <1>6, MobjStepKinds DEF PassedOver
  <2>15. due' \cap PassedOver' = {}
    BY <1>1, <2>1, <2>2, <2>14 DEF DueInv
  \* Nothing that is due is come to, and the pass goes on.
  <2>3. ASSUME phase' = "mobjs", NEW m, m \notin due', seen' \subseteq seen \cup {m}
        PROVE  DueInv'
    <3>1. due' \cap seen' = {}
      BY <2>2, <2>3 DEF DueInv
    <3> QED BY <1>3, <2>3, <2>15, <3>1 DEF DueInv
  <2>4. ASSUME phase' = "mobjs", seen' \subseteq seen
        PROVE  DueInv'
    <3>1. due' \cap seen' = {}
      BY <2>2, <2>4 DEF DueInv
    <3> QED BY <1>3, <2>4, <2>15, <3>1 DEF DueInv
  <2>5. CASE VisitPlayer
    <3>1. After(cur) \in owned /\ seen' = seen \cup {After(cur)} /\ removed' = removed
      BY <2>5 DEF VisitPlayer
    <3>2. After(cur) \notin removed
      BY <1>1, <3>1 DEF SetInv
    <3>3. phase' = "mobjs"
      BY <1>1, <2>5, <3>1 DEF VisitPlayer, MovesTo
    <3> QED BY <2>2, <2>3, <3>1, <3>2, <3>3
  <2>16. CASE VisitPassedOver
    <3>1. After(cur) \in PassedOver /\ seen' = seen \cup {After(cur)}
      BY <2>16 DEF VisitPassedOver
    <3>2. After(cur) \in Mobj
      BY <1>1, <3>1 DEF PassedOver, SetInv
    <3>3. phase' = "mobjs"
      BY <1>1, <2>16, <3>2 DEF VisitPassedOver, MovesTo
    <3>4. After(cur) \notin due'
      BY <2>2, <3>1 DEF DueInv
    <3> QED BY <2>3, <3>1, <3>3, <3>4
  <2>6. CASE VisitMobj
    <3>1. /\ After(cur) \in Mobj /\ After(cur) \notin removed
          /\ seen' = seen \cup {After(cur)} /\ removed' = removed
      BY <2>6 DEF VisitMobj
    <3>2. phase' = "mobjs"
      BY <1>1, <2>6, <3>1 DEF VisitMobj, MovesTo
    <3> QED BY <2>2, <2>3, <3>1, <3>2
  <2>7. CASE VisitRemoved
    <3>1. After(cur) \in removed /\ SafeRemoveMobj(After(cur), refs)
      BY <2>7 DEF VisitRemoved
    <3>2. phase' = "mobjs"
      BY <1>1, <2>7, <3>1 DEF VisitRemoved, MovesTo, SetInv
    <3>3. CASE refs.count[After(cur)] = 0
      BY <2>4, <2>7, <3>2, <3>3 DEF VisitRemoved
    <3>4. CASE refs.count[After(cur)] # 0
      <4>1. refs' = refs /\ seen' = seen \cup {After(cur)}
        BY <2>7, <3>1, <3>4 DEF VisitRemoved, SafeRemoveMobj
      <4>2. After(cur) \notin due'
        BY <1>3, <3>4, <4>1
      <4> QED BY <2>3, <3>2, <4>1, <4>2
    <3> QED BY <3>3, <3>4
  <2>8. CASE EndPass
    <3>1. After(cur) = MobjHead /\ phase' = "world" /\ seen' = {}
      BY <2>8 DEF EndPass, MovesTo
    <3>2. PICK k \in 0 .. Len(list) : Upto(list, cur, seen, k)
      BY <2>1 DEF TurnsInv
    <3>3. cur = IF k = 0 THEN MobjHead ELSE list[k]
      BY <3>2 DEF Upto
    <3>4. /\ Len(list) \in Nat
          /\ k < Len(list) => After(cur) = list[k + 1]
          /\ \A i \in 1 .. Len(list) : list[i] # MobjHead
          /\ \A x : x \in Linked <=> \E i \in 1 .. Len(list) : x = list[i]
      BY <1>1, <3>3, NextInLine
    <3>5. k = Len(list)
      BY <3>1, <3>4
    <3>6. Linked \subseteq seen
      BY <3>2, <3>4, <3>5 DEF Upto
    <3>7. due = {}
      BY <1>1, <3>6 DEF DueInv, SetInv
    <3>8. due' = {}
      BY <2>2, <3>7
    <3> QED BY <3>1, <3>8 DEF DueInv
  <2>9. ASSUME NEW t \in Mobj, Targets(t) PROVE DueInv'
    BY <2>1, <2>4, <2>9 DEF Targets, Turn
  <2>10. ASSUME NEW n \in Mobj, NEW hostile \in BOOLEAN, Shoots(n, hostile) PROVE DueInv'
    BY <2>1, <2>4, <2>10 DEF Shoots, Turn
  <2>11. ASSUME NEW t \in Mobj, NEW source, Strikes(t, source) PROVE DueInv'
    BY <2>1, <2>4, <2>11 DEF Strikes, Turn
  <2>12. CASE Vanishes
    BY <2>1, <2>4, <2>12 DEF Vanishes, TurnEnds
  <2>13. CASE FliesAway
    BY <2>1, <2>4, <2>13 DEF FliesAway, TurnEnds
  <2> QED
    BY <1>6, <2>5, <2>6, <2>7, <2>8, <2>9, <2>10, <2>11, <2>12, <2>13, <2>16
       DEF MobjStep
<1> QED BY <1>4, <1>5, <1>6 DEF Next

LEMMA PassInvariant ==
  ASSUME ~Switchable
  PROVE  Spec => [](Core /\ TurnsInv /\ DueInv)
<1>1. Init => IInv /\ TurnsInv /\ DueInv
  <2> SUFFICES ASSUME Init PROVE IInv /\ TurnsInv /\ DueInv
    OBVIOUS
  <2>1. phase = "world" /\ due = {}
    BY DEF Init
  <2> QED BY <2>1, InitInv DEF TurnsInv, DueInv
<1>2. IInv /\ TurnsInv /\ DueInv /\ [Next]_vars => IInv' /\ TurnsInv' /\ DueInv'
  <2> SUFFICES ASSUME IInv, TurnsInv, DueInv, [Next]_vars
               PROVE  IInv' /\ TurnsInv' /\ DueInv'
    OBVIOUS
  <2>1. IInv'
    BY NextInv
  <2>2. CASE Next
    BY <2>1, <2>2, TurnsKept, DueKept DEF IInv
  <2>3. CASE UNCHANGED vars
    <3>1. UNCHANGED <<list, cur, seen, phase, due, removed, refs, monster, nosector, owned, locked>>
      BY <2>3 DEF vars, mobjVars, kinds, options, loopVars
    <3> QED BY <2>1, <3>1 DEF TurnsInv, DueInv, PassedOver
  <2> QED BY <2>1, <2>2, <2>3
<1>3. IInv /\ TurnsInv /\ DueInv => Core /\ TurnsInv /\ DueInv
  BY DEF IInv
<1> QED BY <1>1, <1>2, <1>3, PTL DEF Spec

\* TurnsInOrder: P_RunMobjs comes to every mobj of the list once in a pass, in
\* the order of the list, although mobjs are freed under its cursor and others
\* join the list while it runs; it may pass over one that it has come to.
THEOREM OneTurnEach ==
  ASSUME ~Switchable
  PROVE  Spec => []TurnsInOrder
<1>1. ASSUME Core, TurnsInv PROVE TurnsInOrder
  <2>1. SUFFICES ASSUME phase = "mobjs", NEW i \in 1 .. Len(list)
                 PROVE  list[i] \in seen <=> cur # MobjHead /\ i <= Place(cur)
    BY DEF TurnsInOrder
  <2>2. PICK k \in 0 .. Len(list) : Upto(list, cur, seen, k)
    BY <1>1, <2>1 DEF TurnsInv
  <2>3. cur = IF k = 0 THEN MobjHead ELSE list[k]
    BY <2>2 DEF Upto
  <2>4. /\ Len(list) \in Nat
        /\ \A a, b \in 1 .. Len(list) : list[a] = list[b] => a = b
        /\ \A a \in 1 .. Len(list) : list[a] # MobjHead /\ Place(list[a]) = a
    BY <1>1, <2>3, NextInLine DEF Core
  <2>5. list[i] \in seen <=> i <= k
    <3>1. \A j \in 1 .. k : j \in 1 .. Len(list)
      BY <2>4
    <3> QED BY <2>2, <2>4, <3>1 DEF Upto
  <2>6. CASE k = 0
    BY <2>3, <2>5, <2>6
  <2>7. CASE k # 0
    BY <2>3, <2>4, <2>5, <2>7
  <2> QED BY <2>6, <2>7
<1> QED BY <1>1, PassInvariant, PTL

\* FreedInTime: what P_RunMobjs finds removed and unreferenced when it starts,
\* and what stays so, has been freed when it ends, unless it is one of those
\* that the loop goes past: MF_NOSECTOR, or a monster while monsters are locked.
THEOREM NothingLeftLying ==
  ASSUME ~Switchable
  PROVE  Spec => []FreedInTime
<1>1. DueInv => FreedInTime
  BY DEF DueInv, FreedInTime
<1> QED BY <1>1, PassInvariant, PTL
===============================================================================
