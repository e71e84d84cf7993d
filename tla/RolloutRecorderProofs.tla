------------------------- MODULE RolloutRecorderProofs -------------------------
(***************************************************************************)
(* Proofs about the rollout, for any number of items, of failed and        *)
(* partial writes, of crashes and of recorders discarded at work, as long  *)
(* as the compression worker does not unlink a file that a recorder has    *)
(* opened since it last looked, and a writer meets no part of a line of    *)
(* another one (~FileRaces): what was acknowledged can be read again,      *)
(* inherited records come first, ordinals are in order unless two writers  *)
(* shared the file, the projection is exact, and a reader sees a log that  *)
(* only grows.                                                             *)
(*                                                                         *)
(* The first part is about the elements of a sequence at a set of indexes, *)
(* the second about files and their lines; then one section for each part  *)
(* of the invariant, which is put together at the end.                     *)
(***************************************************************************)
EXTENDS RolloutRecorder, SequenceTheorems, FiniteSetTheorems, TLAPS

-----------------------------------------------------------------------------
(* Elements of a sequence, by the set of their indexes. *)

LEMMA NatSet ==
    ASSUME NEW T \in SUBSET Nat, 0 \in T, \A n \in T : n + 1 \in T
    PROVE  T = Nat
  <1> SUFFICES ASSUME Nat \ T # {} PROVE FALSE
    OBVIOUS
  <1>1. IsWellFoundedOn(OpToRel(<, Nat), Nat)
    BY NatLessThanWellFounded
  <1>2. PICK x \in Nat \ T : \A y \in Nat \ T : <<y, x>> \notin OpToRel(<, Nat)
    BY <1>1, WFMin
  <1>3. \A y \in Nat \ T : ~(y < x)
    BY <1>2 DEF OpToRel
  <1>4. x # 0 /\ x - 1 \in Nat /\ x - 1 < x
    OBVIOUS
  <1>5. x - 1 \in T
    BY <1>3, <1>4
  <1> QED BY <1>4, <1>5

(* The members of J up to j: their number is the place of j among them.    *)
UpTo(J, j) == {k \in J : k <= j}

LEMMA Indexes ==
    ASSUME NEW n \in Nat, NEW J \in SUBSET (1..n)
    PROVE  /\ IsFiniteSet(J) /\ Cardinality(J) \in Nat
           /\ \A j \in J : UpTo(J, j) \subseteq J /\ IsFiniteSet(UpTo(J, j))
                           /\ Cardinality(UpTo(J, j)) \in 1..Cardinality(J)
  <1>1. IsFiniteSet(J) /\ Cardinality(J) \in Nat
    <2>1. 1 \in Int /\ n \in Int
      OBVIOUS
    <2>2. IsFiniteSet(1..n)
      BY <2>1, FS_Interval
    <2>3. IsFiniteSet(J)
      BY <2>2, FS_Subset
    <2> QED BY <2>3, FS_CardinalityType
  <1>2. ASSUME NEW j \in J
        PROVE  /\ UpTo(J, j) \subseteq J /\ IsFiniteSet(UpTo(J, j))
               /\ Cardinality(UpTo(J, j)) \in 1..Cardinality(J)
    <2>0. j \in Nat
      OBVIOUS
    <2>1. UpTo(J, j) \subseteq J /\ j \in UpTo(J, j)
      BY <2>0 DEF UpTo
    <2>2. /\ IsFiniteSet(UpTo(J, j)) /\ Cardinality(UpTo(J, j)) \in Nat
          /\ Cardinality(UpTo(J, j)) <= Cardinality(J)
      BY <1>1, <2>1, FS_Subset, FS_CardinalityType
    <2>3. Cardinality(UpTo(J, j)) # 0
      BY <2>1, <2>2, FS_EmptySet
    <2> QED BY <1>1, <2>1, <2>2, <2>3
  <1> QED BY <1>1, <1>2

LEMMA PlaceIsUnique ==
    ASSUME NEW n \in Nat, NEW J \in SUBSET (1..n), NEW j \in J, NEW k \in J,
           Cardinality(UpTo(J, j)) = Cardinality(UpTo(J, k))
    PROVE  j = k
  <1>1. ASSUME NEW a \in J, NEW b \in J, a < b
        PROVE  Cardinality(UpTo(J, a)) # Cardinality(UpTo(J, b))
    <2>1. UpTo(J, a) \in SUBSET UpTo(J, b) /\ b \in UpTo(J, b) /\ b \notin UpTo(J, a)
      <3>1. J \subseteq Nat /\ a \in Nat /\ b \in Nat /\ a < b /\ b <= b /\ ~(b <= a)
        BY <1>1
      <3>2. \A m \in J : m <= a => m <= b
        BY <3>1
      <3> QED BY <3>1, <3>2 DEF UpTo
    <2>2. IsFiniteSet(UpTo(J, b))
      BY Indexes
    <2> QED BY <2>1, <2>2, FS_Subset
  <1>2. j \in Nat /\ k \in Nat
    OBVIOUS
  <1> QED BY <1>1, <1>2

LEMMA PlaceIsTaken ==
    ASSUME NEW n \in Nat
    PROVE  \A J \in SUBSET (1..n) : \A i \in 1..Cardinality(J) :
              \E j \in J : Cardinality(UpTo(J, j)) = i
  <1> DEFINE P(m) == \A J \in SUBSET (1..m) : \A i \in 1..Cardinality(J) :
                        \E j \in J : Cardinality(UpTo(J, j)) = i
             T == {m \in Nat : P(m)}
  <1>1. 0 \in T
    <2>1. \A J \in SUBSET (1..0) : J = {}
      OBVIOUS
    <2>2. \A J \in SUBSET (1..0) : Cardinality(J) = 0
      BY <2>1, FS_EmptySet
    <2>3. 1..0 = {}
      OBVIOUS
    <2>4. P(0)
      BY <2>2, <2>3
    <2> QED BY <2>4
  <1>2. ASSUME NEW m \in T PROVE m + 1 \in T
    <2>1. m \in Nat /\ P(m)
      BY <1>2
    <2> SUFFICES ASSUME NEW J \in SUBSET (1..(m + 1)), NEW i \in 1..Cardinality(J)
                 PROVE  \E j \in J : Cardinality(UpTo(J, j)) = i
      BY <2>1
    <2> DEFINE K == J \ {m + 1}
    <2>2. K \in SUBSET (1..m)
      BY <2>1
    <2>3. CASE m + 1 \notin J
      <3>1. J \in SUBSET (1..m)
        BY <2>1, <2>3
      <3> QED BY <2>1, <3>1
    <2>4. CASE m + 1 \in J
      <3>1. /\ IsFiniteSet(J) /\ Cardinality(J) \in Nat
            /\ Cardinality(K) = Cardinality(J) - 1
        <4>1. m + 1 \in Nat
          BY <2>1
        <4>2. IsFiniteSet(J) /\ Cardinality(J) \in Nat
          BY <4>1, Indexes
        <4> QED BY <2>4, <4>2, FS_RemoveElement
      <3>2. CASE i = Cardinality(J)
        <4>1. UpTo(J, m + 1) = J
          <5>1. \A k \in J : k <= m + 1
            BY <2>1
          <5> QED BY <5>1 DEF UpTo
        <4> QED BY <2>4, <3>2, <4>1
      <3>3. CASE i # Cardinality(J)
        <4>1. i \in 1..Cardinality(K)
          BY <3>1, <3>3
        <4>2. PICK j \in K : Cardinality(UpTo(K, j)) = i
          BY <2>1, <2>2, <4>1
        <4>3. UpTo(J, j) = UpTo(K, j)
          BY <2>1, <2>2 DEF UpTo
        <4> QED BY <4>2, <4>3
      <3> QED BY <3>2, <3>3
    <2> QED BY <2>3, <2>4
  <1> HIDE DEF T
  <1>3. T \in SUBSET Nat
    BY DEF T
  <1>4. T = Nat
    BY <1>1, <1>2, <1>3, NatSet
  <1> QED BY <1>4 DEF T

LEMMA NthIs ==
    ASSUME NEW n \in Nat, NEW J \in SUBSET (1..n), NEW i \in 1..Cardinality(J)
    PROVE  /\ Nth(J, i) \in J /\ Cardinality(UpTo(J, Nth(J, i))) = i
           /\ \A j \in J : Cardinality(UpTo(J, j)) = i => Nth(J, i) = j
  <1>1. Nth(J, i) = CHOOSE j \in J : Cardinality(UpTo(J, j)) = i
    BY DEF Nth, UpTo
  <1>2. \E j \in J : Cardinality(UpTo(J, j)) = i
    BY PlaceIsTaken
  <1>3. Nth(J, i) \in J /\ Cardinality(UpTo(J, Nth(J, i))) = i
    BY <1>1, <1>2
  <1> QED BY <1>3, PlaceIsUnique

(* The selected indexes in two parts, one before the other.                *)
LEMMA NthOfParts ==
    ASSUME NEW n \in Nat, NEW m \in Nat, m <= n,
           NEW J \in SUBSET (1..m), NEW K \in SUBSET ((m + 1)..n)
    PROVE  /\ Cardinality(J \cup K) = Cardinality(J) + Cardinality(K)
           /\ Cardinality(J) \in Nat /\ Cardinality(K) \in Nat
           /\ \A i \in 1..Cardinality(J) : Nth(J \cup K, i) = Nth(J, i)
           /\ \A i \in 1..Cardinality(K) : Nth(J \cup K, Cardinality(J) + i) = Nth(K, i)
  <1> DEFINE U == J \cup K
  <1>1. J \in SUBSET (1..n) /\ K \in SUBSET (1..n) /\ U \in SUBSET (1..n)
    OBVIOUS
  <1>2. /\ IsFiniteSet(J) /\ Cardinality(J) \in Nat
        /\ IsFiniteSet(K) /\ Cardinality(K) \in Nat
        /\ Cardinality(U) \in Nat
    BY <1>1, Indexes
  <1>3. J \cap K = {}
    OBVIOUS
  <1>4. Cardinality(U) = Cardinality(J) + Cardinality(K)
    <2>1. Cardinality(U) = Cardinality(J) + Cardinality(K) - Cardinality(J \cap K)
      BY <1>2, FS_Union
    <2>2. Cardinality(J \cap K) = 0
      BY <1>3, FS_EmptySet
    <2> QED BY <1>2, <2>1, <2>2
  <1>5. ASSUME NEW i \in 1..Cardinality(J) PROVE Nth(U, i) = Nth(J, i)
    <2>1. Nth(J, i) \in J /\ Cardinality(UpTo(J, Nth(J, i))) = i
      BY NthIs
    <2>2. UpTo(U, Nth(J, i)) = UpTo(J, Nth(J, i))
      <3>1. \A j \in J, k \in K : ~(k <= j)
        OBVIOUS
      <3>2. \A k \in K : ~(k <= Nth(J, i))
        BY <2>1, <3>1
      <3> QED BY <3>2 DEF UpTo
    <2>3. i \in 1..Cardinality(U)
      BY <1>2, <1>4
    <2>4. Nth(J, i) \in U /\ Cardinality(UpTo(U, Nth(J, i))) = i
      BY <2>1, <2>2
    <2> HIDE DEF U
    <2> QED BY <1>1, <2>3, <2>4, NthIs
  <1>6. ASSUME NEW i \in 1..Cardinality(K) PROVE Nth(U, Cardinality(J) + i) = Nth(K, i)
    <2>1. Nth(K, i) \in K /\ Cardinality(UpTo(K, Nth(K, i))) = i
      BY <1>1, NthIs
    <2>2. UpTo(U, Nth(K, i)) = J \cup UpTo(K, Nth(K, i))
      <3>1. \A j \in J, k \in K : j <= k
        OBVIOUS
      <3>2. \A k \in J : k <= Nth(K, i)
        BY <2>1, <3>1
      <3> QED BY <3>2 DEF UpTo
    <2>3. IsFiniteSet(UpTo(K, Nth(K, i))) /\ J \cap UpTo(K, Nth(K, i)) = {}
      BY <1>1, <1>3, <2>1, Indexes
    <2>4. Cardinality(UpTo(U, Nth(K, i))) = Cardinality(J) + i
      <3> DEFINE V == UpTo(K, Nth(K, i))
      <3>1. Cardinality(J \cup V) = Cardinality(J) + Cardinality(V) - Cardinality(J \cap V)
        BY <1>2, <2>3, FS_Union
      <3>2. Cardinality(J \cap V) = 0
        BY <2>3, FS_EmptySet
      <3>3. Cardinality(V) = i
        BY <2>1
      <3> QED BY <1>2, <2>2, <3>1, <3>2, <3>3
    <2>5. Cardinality(J) + i \in 1..Cardinality(U) /\ Nth(K, i) \in U
      BY <1>2, <1>4, <2>1
    <2> QED BY <1>1, <2>4, <2>5, NthIs
  <1> QED BY <1>2, <1>4, <1>5, <1>6

(* Whether it selects everything or not.                                   *)
LEMMA SelectedAt ==
    ASSUME NEW S, NEW s \in Seq(S), NEW J \in SUBSET (1..Len(s))
    PROVE  Selected(s, J) = [i \in 1..Cardinality(J) |-> s[Nth(J, i)]]
  <1> DEFINE n == Len(s)
             all == 1..n
             places == [i \in 1..Cardinality(all) |-> s[Nth(all, i)]]
  <1>1. n \in Nat /\ DOMAIN s = all /\ s = [i \in all |-> s[i]]
    OBVIOUS
  <1> HIDE DEF n
  <1>2. \A m \in Nat : Cardinality(1..m) = m
    <2> TAKE m \in Nat
    <2>1. 1 \in Int /\ m \in Int
      OBVIOUS
    <2> QED BY <2>1, FS_Interval
  <1>3. ASSUME NEW i \in all PROVE Nth(all, i) = i
    <2>1. UpTo(all, i) = 1..i
      BY <1>1 DEF UpTo
    <2>2. Cardinality(UpTo(all, i)) = i /\ i \in 1..Cardinality(all)
      BY <1>1, <1>2, <2>1
    <2>3. all \in SUBSET (1..n)
      OBVIOUS
    <2> HIDE DEF all
    <2> QED BY <1>1, <2>2, <2>3, NthIs
  <1>4. places = s
    BY <1>1, <1>2, <1>3
  <1>5. CASE J = all
    BY <1>1, <1>4, <1>5 DEF Selected
  <1>6. CASE J # all
    BY <1>1, <1>6 DEF Selected
  <1> QED BY <1>5, <1>6

LEMMA SelectedIs ==
    ASSUME NEW S, NEW s \in Seq(S), NEW J \in SUBSET (1..Len(s))
    PROVE  /\ Selected(s, J) \in Seq(S) /\ Len(Selected(s, J)) = Cardinality(J)
           /\ Cardinality(J) \in Nat
           /\ \A i \in 1..Cardinality(J) :
                 Nth(J, i) \in J /\ Selected(s, J)[i] = s[Nth(J, i)]
           /\ \A j \in J : \E i \in 1..Cardinality(J) : Selected(s, J)[i] = s[j]
  <1>1. Len(s) \in Nat /\ Cardinality(J) \in Nat
    <2>1. Len(s) \in Nat
      OBVIOUS
    <2> QED BY <2>1, Indexes
  <1>2. \A i \in 1..Cardinality(J) : Nth(J, i) \in J
    BY <1>1, NthIs
  <1>3. \A i \in 1..Cardinality(J) : s[Nth(J, i)] \in S
    <2>1. \A j \in J : j \in 1..Len(s) /\ s[j] \in S
      BY ElementOfSeq
    <2> QED BY <1>2, <2>1
  <1>4. Selected(s, J) = [i \in 1..Cardinality(J) |-> s[Nth(J, i)]]
    BY SelectedAt
  <1>5. Selected(s, J) \in Seq(S) /\ Len(Selected(s, J)) = Cardinality(J)
    BY <1>1, <1>3, <1>4
  <1>6. ASSUME NEW j \in J PROVE \E i \in 1..Cardinality(J) : Selected(s, J)[i] = s[j]
    <2> DEFINE i == Cardinality(UpTo(J, j))
    <2>1. i \in 1..Cardinality(J)
      BY <1>1, Indexes
    <2>2. Nth(J, i) = j
      BY <1>1, <2>1, NthIs
    <2> QED BY <1>4, <2>1, <2>2
  <1> QED BY <1>1, <1>2, <1>4, <1>5, <1>6

LEMMA SelectedInParts ==
    ASSUME NEW S, NEW s \in Seq(S), NEW m \in 0..Len(s),
           NEW J \in SUBSET (1..m), NEW K \in SUBSET ((m + 1)..Len(s))
    PROVE  Selected(s, J \cup K) = Selected(s, J) \o Selected(s, K)
  <1> DEFINE U == J \cup K
             n == Len(s)
             a == Selected(s, J)
             b == Selected(s, K)
  <1>1. /\ n \in Nat /\ m \in Nat /\ m <= n
        /\ J \in SUBSET (1..n) /\ K \in SUBSET (1..n) /\ U \in SUBSET (1..n)
    OBVIOUS
  <1>2. /\ Cardinality(U) = Cardinality(J) + Cardinality(K)
        /\ Cardinality(J) \in Nat /\ Cardinality(K) \in Nat
        /\ \A i \in 1..Cardinality(J) : Nth(U, i) = Nth(J, i)
        /\ \A i \in 1..Cardinality(K) : Nth(U, Cardinality(J) + i) = Nth(K, i)
    BY <1>1, NthOfParts
  <1>3. /\ a \in Seq(S) /\ Len(a) = Cardinality(J)
        /\ \A i \in 1..Cardinality(J) : a[i] = s[Nth(J, i)]
    BY <1>1, SelectedIs
  <1>4. /\ b \in Seq(S) /\ Len(b) = Cardinality(K)
        /\ \A i \in 1..Cardinality(K) : b[i] = s[Nth(K, i)]
    BY <1>1, SelectedIs
  <1>5. /\ Selected(s, U) \in Seq(S) /\ Len(Selected(s, U)) = Cardinality(U)
        /\ \A i \in 1..Cardinality(U) : Selected(s, U)[i] = s[Nth(U, i)]
    BY <1>1, SelectedIs
  <1> HIDE DEF U, n, a, b
  <1>6. /\ a \o b \in Seq(S) /\ Len(a \o b) = Len(a) + Len(b)
        /\ \A i \in 1..(Len(a) + Len(b)) :
              (a \o b)[i] = IF i <= Len(a) THEN a[i] ELSE b[i - Len(a)]
    BY <1>3, <1>4, ConcatProperties
  <1>7. ASSUME NEW i \in 1..Cardinality(U) PROVE Selected(s, U)[i] = (a \o b)[i]
    <2>1. CASE i <= Cardinality(J)
      BY <1>2, <1>3, <1>4, <1>5, <1>6, <2>1
    <2>2. CASE ~(i <= Cardinality(J))
      <3>1. i - Cardinality(J) \in 1..Cardinality(K)
        BY <1>2, <2>2
      <3>2. Cardinality(J) + (i - Cardinality(J)) = i
        BY <1>2
      <3>3. Nth(U, i) = Nth(K, i - Cardinality(J))
        BY <1>2, <3>1, <3>2
      <3> QED BY <1>2, <1>3, <1>4, <1>5, <1>6, <2>2, <3>1, <3>3
    <2> QED BY <2>1, <2>2
  <1>8. Selected(s, U) = a \o b
    BY <1>2, <1>3, <1>4, <1>5, <1>6, <1>7, SeqEqual
  <1> QED BY <1>8 DEF U, a, b
-----------------------------------------------------------------------------
(* Contents of files. *)

LEMMA LastLine ==
    ASSUME NEW c \in Seq(Line), c # <<>>
    PROVE  /\ Len(c) \in Nat \ {0}
           /\ Last(c) = c[Len(c)] /\ Last(c) \in Line
           /\ Front(c) \in Seq(Line) /\ Len(Front(c)) = Len(c) - 1
           /\ \A i \in 1..(Len(c) - 1) : Front(c)[i] = c[i]
  <1>1. Len(c) \in Nat \ {0} /\ DOMAIN c = 1..Len(c)
    OBVIOUS
  <1>2. Last(c) = c[Len(c)] /\ Last(c) \in Line
    BY <1>1 DEF Last
  <1>3. Front(c) = SubSeq(c, 1, Len(c) - 1)
    BY DEF Front
  <1> QED BY <1>1, <1>2, <1>3, SubSeqProperties

LEMMA ItemsOf ==
    ASSUME NEW c
    PROVE  ItemsIn(c) = {c[i].item : i \in {j \in DOMAIN c : c[j].whole}}
  BY DEF ItemsIn, WholeLines

(* One content holds another when it begins with the same lines, of which  *)
(* the last may have been ended since.                                     *)
Alike(l, m) == l.item = m.item /\ l.ordinal = m.ordinal /\ l.whole = m.whole
Within(c, d) == Len(c) <= Len(d) /\ \A i \in 1..Len(c) : Alike(c[i], d[i])
Same(c, d) == Within(c, d) /\ Within(d, c)

LEMMA SameItself ==
    ASSUME NEW c \in Seq(Line) PROVE Within(c, c) /\ Same(c, c)
  <1>1. Len(c) \in Nat
    OBVIOUS
  <1> QED BY <1>1 DEF Within, Same, Alike

LEMMA WithinMore ==
    ASSUME NEW b \in Seq(Line), NEW c \in Seq(Line), NEW d \in Seq(Line),
           Within(b, c), Within(c, d)
    PROVE  Within(b, d)
  <1>1. Len(b) \in Nat /\ Len(c) \in Nat /\ Len(d) \in Nat
    OBVIOUS
  <1> QED BY <1>1 DEF Within, Alike

LEMMA WithinItems ==
    ASSUME NEW c \in Seq(Line), NEW d \in Seq(Line), Within(c, d)
    PROVE  ItemsIn(c) \subseteq ItemsIn(d)
  <1>1. DOMAIN c = 1..Len(c) /\ DOMAIN d = 1..Len(d) /\ Len(c) \in Nat /\ Len(d) \in Nat
    OBVIOUS
  <1>2. \A i \in DOMAIN c : i \in DOMAIN d /\ d[i].item = c[i].item /\ d[i].whole = c[i].whole
    BY <1>1 DEF Within, Alike
  <1> QED BY <1>2, ItemsOf

LEMMA LineAppended ==
    ASSUME NEW c \in Seq(Line), Ended(c), NEW line \in Line
    PROVE  /\ Appended(c, line) = Append(c, line) /\ Appended(c, line) \in Seq(Line)
           /\ Ended(Appended(c, line)) <=> line.ended
           /\ Within(c, Appended(c, line))
           /\ line.whole => line.item \in ItemsIn(Appended(c, line))
  <1> DEFINE d == Append(c, line)
             n == Len(c)
  <1>1. Appended(c, line) = d
    BY DEF Appended
  <1>2. /\ n \in Nat /\ d \in Seq(Line) /\ Len(d) = n + 1 /\ d[n + 1] = line
        /\ \A i \in 1..n : d[i] = c[i]
        /\ DOMAIN d = 1..(n + 1) /\ DOMAIN c = 1..n
    BY AppendProperties
  <1>3. d # <<>> /\ Last(d) = line
    BY <1>2 DEF Last
  <1>4. Within(c, d)
    BY <1>2 DEF Within, Alike
  <1> HIDE DEF d, n
  <1>5. line.whole => line.item \in ItemsIn(d)
    BY <1>2, ItemsOf
  <1>6. Ended(d) <=> line.ended
    BY <1>3 DEF Ended
  <1> QED BY <1>1, <1>2, <1>4, <1>5, <1>6 DEF d

LEMMA LineRepaired ==
    ASSUME NEW c \in Seq(Line)
    PROVE  /\ Repaired(c) \in Seq(Line) /\ Ended(Repaired(c))
           /\ Same(c, Repaired(c))
  <1>1. CASE Ended(c)
    BY <1>1, SameItself DEF Repaired
  <1>2. CASE ~Ended(c)
    <2> DEFINE l == [Last(c) EXCEPT !.ended = TRUE]
               d == Append(Front(c), l)
               n == Len(c)
    <2>1. /\ Repaired(c) = d /\ c # <<>>
      BY <1>2 DEF Repaired, Ended
    <2>2. /\ n \in Nat \ {0} /\ Last(c) = c[n] /\ Last(c) \in Line
          /\ Front(c) \in Seq(Line) /\ Len(Front(c)) = n - 1
          /\ \A i \in 1..(n - 1) : Front(c)[i] = c[i]
      BY <2>1, LastLine
    <2>3. l \in Line /\ l.ended /\ Alike(l, c[n])
      BY <2>2 DEF Line, Alike
    <2> HIDE DEF l, n
    <2>4. /\ d \in Seq(Line) /\ Len(d) = n /\ d[n] = l
          /\ \A i \in 1..(n - 1) : d[i] = c[i]
          /\ DOMAIN d = 1..n /\ DOMAIN c = 1..n
      BY <2>2, <2>3, AppendProperties DEF n
    <2> HIDE DEF d
    <2>5. Same(c, d)
      <3>1. \A i \in 1..n : Alike(c[i], d[i]) /\ Alike(d[i], c[i])
        BY <2>2, <2>3, <2>4 DEF Alike
      <3> QED BY <2>2, <2>4, <3>1 DEF Same, Within, n
    <2>6. Ended(d)
      BY <2>2, <2>3, <2>4 DEF Ended, Last
    <2> QED BY <2>1, <2>4, <2>5, <2>6
  <1> QED BY <1>1, <1>2

LEMMA NoItems == ItemsIn(<<>>) = {}
  BY DEF ItemsIn, WholeLines

-----------------------------------------------------------------------------
(* The records of a content, and what tells one from another: its item and *)
(* its ordinal.                                                            *)

Entry(l) == [item |-> l.item, ordinal |-> l.ordinal]
Entries(c) == [i \in DOMAIN Records(c) |-> Entry(Records(c)[i])]
AnEntry == [item : Item \cup {SessionMeta}, ordinal : Int]

LEMMA WholeAre ==
    ASSUME NEW c \in Seq(Line)
    PROVE  /\ WholeLines(c) \in SUBSET (1..Len(c)) /\ Len(c) \in Nat
           /\ WholeLines(c) = {j \in 1..Len(c) : c[j].whole}
  <1>1. DOMAIN c = 1..Len(c) /\ Len(c) \in Nat
    OBVIOUS
  <1> QED BY <1>1 DEF WholeLines

LEMMA RecordsAre ==
    ASSUME NEW c \in Seq(Line)
    PROVE  /\ Records(c) \in Seq(Line)
           /\ ItemsIn(c) = {Records(c)[i].item : i \in DOMAIN Records(c)}
  <1> DEFINE J == WholeLines(c)
             r == Records(c)
             n == Cardinality(J)
  <1>1. J \in SUBSET (1..Len(c)) /\ r = Selected(c, J)
    BY WholeAre DEF Records
  <1>2. /\ r \in Seq(Line) /\ Len(r) = n /\ n \in Nat
        /\ \A i \in 1..n : Nth(J, i) \in J /\ r[i] = c[Nth(J, i)]
        /\ \A j \in J : \E i \in 1..n : r[i] = c[j]
    <2>1. /\ Selected(c, J) \in Seq(Line) /\ Len(Selected(c, J)) = Cardinality(J)
          /\ Cardinality(J) \in Nat
          /\ \A i \in 1..Cardinality(J) :
                Nth(J, i) \in J /\ Selected(c, J)[i] = c[Nth(J, i)]
          /\ \A j \in J : \E i \in 1..Cardinality(J) : Selected(c, J)[i] = c[j]
      <3> HIDE DEF J
      <3> QED BY <1>1, SelectedIs
    <2> QED BY <1>1, <2>1
  <1>3. ItemsIn(c) = {c[j].item : j \in J}
    BY DEF ItemsIn
  <1>4. DOMAIN r = 1..n
    BY <1>2
  <1> HIDE DEF J, r, n
  <1>5. \A i \in 1..n : r[i].item \in ItemsIn(c)
    BY <1>2, <1>3
  <1>6. \A x \in ItemsIn(c) : \E i \in 1..n : r[i].item = x
    BY <1>2, <1>3
  <1>7. ItemsIn(c) = {r[i].item : i \in DOMAIN r}
    BY <1>4, <1>5, <1>6
  <1> QED BY <1>2, <1>7 DEF r

LEMMA LastRecord ==
    ASSUME NEW c \in Seq(Line), NEW m \in ItemsIn(c)
    PROVE  /\ Len(Records(c)) \in Nat \ {0}
           /\ LastOrdinal(c) = Records(c)[Len(Records(c))].ordinal /\ LastOrdinal(c) \in Int
  <1> DEFINE r == Records(c)
  <1>1. r \in Seq(Line) /\ ItemsIn(c) = {r[i].item : i \in DOMAIN r}
    BY RecordsAre
  <1>2. r # <<>>
    BY <1>1
  <1>3. Len(r) \in Nat \ {0} /\ Last(r) = r[Len(r)] /\ Last(r) \in Line
    BY <1>1, <1>2, LastLine
  <1> QED BY <1>3 DEF LastOrdinal, Line

LEMMA EntriesAre ==
    ASSUME NEW c \in Seq(Line)
    PROVE  /\ Entries(c) \in Seq(AnEntry) /\ Len(Entries(c)) = Len(Records(c))
           /\ DOMAIN Records(c) = 1..Len(Records(c)) /\ Len(Records(c)) \in Nat
           /\ \A i \in 1..Len(Records(c)) : Entries(c)[i] = Entry(Records(c)[i])
           /\ ItemsIn(c) = {Entries(c)[i].item : i \in 1..Len(Entries(c))}
  <1> DEFINE r == Records(c)
  <1>1. r \in Seq(Line) /\ ItemsIn(c) = {r[i].item : i \in DOMAIN r}
    BY RecordsAre
  <1>2. /\ DOMAIN r = 1..Len(r) /\ Len(r) \in Nat
        /\ \A i \in 1..Len(r) : r[i] \in Line
    BY <1>1
  <1> HIDE DEF r
  <1>3. \A i \in 1..Len(r) : Entry(r[i]) \in AnEntry /\ Entry(r[i]).item = r[i].item
    BY <1>2 DEF Entry, AnEntry, Line
  <1>4. Entries(c) = [i \in 1..Len(r) |-> Entry(r[i])]
    BY <1>2 DEF Entries, r
  <1>5. Entries(c) \in Seq(AnEntry) /\ Len(Entries(c)) = Len(r)
    BY <1>2, <1>3, <1>4
  <1>6. ItemsIn(c) = {Entries(c)[i].item : i \in 1..Len(Entries(c))}
    <2>1. DOMAIN r = 1..Len(Entries(c)) /\ \A i \in 1..Len(r) : Entries(c)[i].item = r[i].item
      BY <1>2, <1>3, <1>4, <1>5
    <2> QED BY <1>1, <1>2, <1>5, <2>1
  <1> QED BY <1>2, <1>4, <1>5, <1>6 DEF r

LEMMA SelectedAlike ==
    ASSUME NEW c \in Seq(Line), NEW d \in Seq(Line), Within(c, d),
           NEW J \in SUBSET (1..Len(c))
    PROVE  /\ Selected(c, J) \in Seq(Line) /\ Selected(d, J) \in Seq(Line)
           /\ Len(Selected(d, J)) = Len(Selected(c, J))
           /\ \A i \in 1..Len(Selected(c, J)) : Alike(Selected(c, J)[i], Selected(d, J)[i])
  <1>1. J \in SUBSET (1..Len(d)) /\ Len(c) \in Nat /\ Len(d) \in Nat
    BY DEF Within
  <1>2. /\ Selected(c, J) \in Seq(Line) /\ Len(Selected(c, J)) = Cardinality(J)
        /\ \A i \in 1..Cardinality(J) : Nth(J, i) \in J /\ Selected(c, J)[i] = c[Nth(J, i)]
    BY SelectedIs
  <1>3. /\ Selected(d, J) \in Seq(Line) /\ Len(Selected(d, J)) = Cardinality(J)
        /\ \A i \in 1..Cardinality(J) : Selected(d, J)[i] = d[Nth(J, i)]
    BY <1>1, SelectedIs
  <1>4. \A j \in J : Alike(c[j], d[j])
    BY DEF Within
  <1> QED BY <1>2, <1>3, <1>4

LEMMA EntriesSame ==
    ASSUME NEW c \in Seq(Line), NEW d \in Seq(Line), Same(c, d)
    PROVE  Entries(c) = Entries(d)
  <1>1. Within(c, d) /\ Len(c) = Len(d) /\ Len(c) \in Nat
    BY DEF Same, Within
  <1>2. \A j \in 1..Len(c) : c[j].whole = d[j].whole
    BY <1>1 DEF Within, Alike
  <1>3. WholeLines(c) = WholeLines(d) /\ WholeLines(c) \in SUBSET (1..Len(c))
    BY <1>1, <1>2, WholeAre
  <1>4. /\ Len(Records(d)) = Len(Records(c))
        /\ \A i \in 1..Len(Records(c)) : Alike(Records(c)[i], Records(d)[i])
    BY <1>1, <1>3, SelectedAlike DEF Records
  <1>5. \A i \in 1..Len(Records(c)) : Entries(c)[i] = Entries(d)[i]
    <2>1. ASSUME NEW i \in 1..Len(Records(c)) PROVE Entries(c)[i] = Entries(d)[i]
      <3>1. Entries(c)[i] = Entry(Records(c)[i]) /\ Entries(d)[i] = Entry(Records(d)[i])
        BY <1>4, EntriesAre
      <3> QED BY <1>4, <3>1 DEF Alike, Entry
    <2> QED BY <2>1
  <1>6. /\ Entries(c) \in Seq(AnEntry) /\ Len(Entries(c)) = Len(Records(c))
        /\ Entries(d) \in Seq(AnEntry) /\ Len(Entries(d)) = Len(Records(d))
    BY EntriesAre
  <1> QED BY <1>4, <1>5, <1>6, SeqEqual

(* An appended line is the last record, if it is one.                      *)
LEMMA EntriesAppended ==
    ASSUME NEW c \in Seq(Line), NEW l \in Line
    PROVE  /\ l.whole => Entries(Append(c, l)) = Append(Entries(c), Entry(l))
           /\ ~l.whole => Entries(Append(c, l)) = Entries(c)
  <1> DEFINE d == Append(c, l)
             n == Len(c)
             J == WholeLines(c)
             K == IF l.whole THEN {n + 1} ELSE {}
  <1>1. /\ n \in Nat /\ d \in Seq(Line) /\ Len(d) = n + 1 /\ d[n + 1] = l
        /\ \A i \in 1..n : d[i] = c[i]
    BY AppendProperties
  <1>2. Within(c, d)
    BY <1>1 DEF Within, Alike
  <1>3. J \in SUBSET (1..n) /\ J = {j \in 1..n : c[j].whole}
    BY WholeAre
  <1>4. WholeLines(d) = {j \in 1..(n + 1) : d[j].whole}
    BY <1>1, WholeAre
  <1> HIDE DEF d, n, J
  <1>5. 1..(n + 1) = (1..n) \cup {n + 1}
    BY <1>1
  <1>6. WholeLines(d) = J \cup K
    BY <1>1, <1>3, <1>4, <1>5
  <1>7. K \in SUBSET ((n + 1)..Len(d)) /\ n \in 0..Len(d)
    BY <1>1
  <1>8. Records(d) = Selected(d, J) \o Selected(d, K)
    <2>1. J \in SUBSET (1..n)
      BY <1>3
    <2>2. Selected(d, J \cup K) = Selected(d, J) \o Selected(d, K)
      <3> HIDE DEF K
      <3> QED BY <1>1, <1>7, <2>1, SelectedInParts, ZenonT(40)
    <2> QED BY <1>6, <2>2 DEF Records
  <1>9. Records(c) = Selected(c, J)
    BY DEF Records, J
  <1>10. /\ Selected(c, J) \in Seq(Line) /\ Selected(d, J) \in Seq(Line)
         /\ Len(Selected(d, J)) = Len(Selected(c, J))
         /\ \A i \in 1..Len(Selected(c, J)) : Alike(Selected(c, J)[i], Selected(d, J)[i])
    BY <1>1, <1>2, <1>3, SelectedAlike DEF n
  <1>11. /\ Selected(d, K) \in Seq(Line) /\ Len(Selected(d, K)) = Cardinality(K)
         /\ \A i \in 1..Cardinality(K) : Nth(K, i) \in K /\ Selected(d, K)[i] = d[Nth(K, i)]
    BY <1>1, <1>7, SelectedIs
  <1>12. /\ Len(Records(c)) \in Nat /\ Entries(c) \in Seq(AnEntry)
         /\ Len(Entries(c)) = Len(Records(c))
         /\ \A i \in 1..Len(Records(c)) : Entries(c)[i] = Entry(Records(c)[i])
    BY EntriesAre
  <1>13. /\ Len(Records(d)) \in Nat /\ Entries(d) \in Seq(AnEntry)
         /\ Len(Entries(d)) = Len(Records(d))
         /\ \A i \in 1..Len(Records(d)) : Entries(d)[i] = Entry(Records(d)[i])
    BY <1>1, EntriesAre
  <1>14. /\ Len(Records(d)) = Len(Records(c)) + Cardinality(K)
         /\ \A i \in 1..Len(Records(d)) :
               Records(d)[i] = IF i <= Len(Records(c)) THEN Selected(d, J)[i]
                               ELSE Selected(d, K)[i - Len(Records(c))]
    <2> DEFINE a == Selected(d, J)
               b == Selected(d, K)
    <2>1. a \in Seq(Line) /\ b \in Seq(Line) /\ Records(d) = a \o b
      BY <1>8, <1>10, <1>11
    <2>2. Len(a) = Len(Records(c)) /\ Len(b) = Cardinality(K)
      BY <1>9, <1>10, <1>11
    <2> HIDE DEF a, b, K
    <2>3. /\ Len(a \o b) = Len(a) + Len(b)
          /\ \A i \in 1..(Len(a) + Len(b)) :
                (a \o b)[i] = IF i <= Len(a) THEN a[i] ELSE b[i - Len(a)]
      BY <2>1, ConcatProperties
    <2> QED BY <2>1, <2>2, <2>3 DEF a, b
  <1>15. \A i \in 1..Len(Records(c)) : Entry(Selected(d, J)[i]) = Entry(Records(c)[i])
    BY <1>9, <1>10 DEF Entry, Alike
  <1>16. ASSUME l.whole PROVE Entries(d) = Append(Entries(c), Entry(l))
    <2>1. Cardinality(K) = 1 /\ K = {n + 1}
      BY <1>16, FS_Singleton
    <2>2. Selected(d, K)[1] = l
      <3>1. 1 \in 1..Cardinality(K)
        BY <2>1
      <3>2. Nth(K, 1) \in K /\ Selected(d, K)[1] = d[Nth(K, 1)]
        BY <1>11, <3>1
      <3>3. Nth(K, 1) = n + 1
        BY <2>1, <3>2
      <3> QED BY <1>1, <3>2, <3>3
    <2>3. Entry(l) \in AnEntry
      BY DEF Entry, AnEntry, Line
    <2> DEFINE e == Append(Entries(c), Entry(l))
               m == Len(Records(c))
    <2>4. /\ e \in Seq(AnEntry) /\ Len(e) = m + 1 /\ e[m + 1] = Entry(l)
          /\ \A i \in 1..m : e[i] = Entries(c)[i]
      BY <1>12, <2>3, AppendProperties
    <2> HIDE DEF e, m
    <2>5. Len(Records(d)) = m + 1 /\ m \in Nat
      BY <1>12, <1>14, <2>1 DEF m
    <2>6. ASSUME NEW i \in 1..(m + 1) PROVE Entries(d)[i] = e[i]
      <3>1. CASE i \in 1..m
        <4>1. Records(d)[i] = Selected(d, J)[i]
          <5>1. i \in 1..Len(Records(d)) /\ i <= Len(Records(c))
            BY <2>5, <3>1 DEF m
          <5> QED BY <1>14, <5>1
        <4> QED BY <1>12, <1>13, <1>15, <2>4, <2>5, <3>1, <4>1 DEF m
      <3>2. CASE i = m + 1
        <4>1. Records(d)[i] = Selected(d, K)[1]
          <5>1. i \in 1..Len(Records(d)) /\ ~(i <= Len(Records(c))) /\ i - Len(Records(c)) = 1
            BY <2>5, <3>2 DEF m
          <5> QED BY <1>14, <5>1
        <4> QED BY <1>13, <2>2, <2>4, <2>5, <3>2, <4>1
      <3> QED BY <2>5, <3>1, <3>2
    <2>7. Entries(d) = e
      BY <1>13, <2>4, <2>5, <2>6, SeqEqual
    <2> QED BY <2>7 DEF e
  <1>17. ASSUME ~l.whole PROVE Entries(d) = Entries(c)
    <2>1. Cardinality(K) = 0
      BY <1>17, FS_EmptySet
    <2>2. Len(Records(d)) = Len(Records(c))
      BY <1>12, <1>14, <2>1
    <2>3. \A i \in 1..Len(Records(c)) : Entries(d)[i] = Entries(c)[i]
      <3>1. ASSUME NEW i \in 1..Len(Records(c)) PROVE Entries(d)[i] = Entries(c)[i]
        <4>1. i \in 1..Len(Records(d)) /\ i <= Len(Records(c))
          BY <1>12, <2>2
        <4>2. Records(d)[i] = Selected(d, J)[i]
          BY <1>14, <4>1
        <4>3. Entries(d)[i] = Entry(Records(d)[i]) /\ Entries(c)[i] = Entry(Records(c)[i])
          BY <1>12, <1>13, <4>1
        <4> QED BY <1>15, <4>2, <4>3
      <3> QED BY <3>1
    <2> QED BY <1>12, <1>13, <2>2, <2>3, SeqEqual
  <1> QED BY <1>16, <1>17 DEF d

-----------------------------------------------------------------------------
(* Files. *)

Message == Item \cup {SessionMeta}
Steps == {"recv", "open", "meta", "items", "answer"}

FilesTyped == inode \in Seq(Seq(Line))
JobTyped ==
    job \in [at : {"idle", "encode", "persist", "check", "unlink"}, file : Nat,
             seen : Seq(Line), copy : Seq(Line)]
LinesTyped == next \in Int /\ FilesTyped /\ JobTyped

NamesTyped == plain \in 0..Len(inode) /\ zst \in 0..Len(inode) /\ fd \in 0..Len(inode)

TypeInv ==
    /\ LinesTyped
    /\ NamesTyped
    /\ pending \in Seq(Message) /\ queue \in Seq(Command) /\ cmd \in Command
    /\ step \in Steps /\ up \in BOOLEAN /\ recorded \in 0..MaxItem

(* A discarded writer is at work on the file that a reader opens.          *)
HandInv ==
    /\ old \in [file : Nat, next : Int, items : Seq(Message)] /\ shared \in BOOLEAN
    /\ old # NoWriter => old.file # NoFile /\ old.file = plain /\ old.items # <<>>

(* The writer appends to the file a reader opens, at the end of a line.    *)
WriterInv ==
    /\ fd # NoFile => fd = plain /\ Ended(inode[fd])
    /\ step \in {"meta", "items"} => fd # NoFile
    /\ step = "answer" /\ cmd.op # "Add" => pending = <<>>
    /\ HandInv

(* The compression worker knows which file it saw, and its copy holds all  *)
(* that it saw.                                                            *)
JobInv ==
    /\ job.at # "idle" => plain # NoFile /\ plain = job.file
    /\ job.at = "encode" => Within(job.seen, inode[plain])
    /\ job.at \in {"persist", "check", "unlink"} =>
          Within(job.seen, job.copy) /\ Within(job.copy, inode[plain])
    /\ job.at \in {"check", "unlink"} => zst # NoFile /\ zst # plain /\ inode[zst] = job.copy

(* No file loses anything, and only the plain one is written to.           *)
FilesGrow ==
    /\ Len(inode') \in Nat /\ Len(inode) <= Len(inode')
    /\ \A k \in 1..Len(inode) :
          /\ Within(inode[k], inode'[k])
          /\ k # plain => inode'[k] = inode[k]

LEMMA GrowsAt ==
    ASSUME FilesGrow, NEW k \in 1..Len(inode)
    PROVE  /\ Within(inode[k], inode'[k])
           /\ k # plain => inode'[k] = inode[k]
  BY DEF FilesGrow

LEMMA FilesSame ==
    ASSUME FilesTyped, UNCHANGED inode PROVE FilesGrow
  <1>1. Len(inode) \in Nat /\ \A k \in 1..Len(inode) : inode[k] \in Seq(Line)
    BY LenProperties, ElementOfSeq DEF FilesTyped
  <1> QED BY <1>1, SameItself DEF FilesGrow

LEMMA FilesWritten ==
    ASSUME FilesTyped, NEW f \in 1..Len(inode), f = plain, Ended(inode[f]),
           NEW line \in Line, WriteTo(f, line)
    PROVE  /\ FilesTyped' /\ FilesGrow /\ Len(inode') = Len(inode)
           /\ Ended(inode'[f]) <=> line.ended
           /\ line.whole => line.item \in ItemsIn(inode'[f])
           /\ inode'[f] = Append(inode[f], line)
  <1> DEFINE n == Len(inode)
  <1>2. /\ inode \in Seq(Seq(Line)) /\ n \in Nat /\ f \in 1..n /\ DOMAIN inode = 1..n
        /\ inode[f] \in Seq(Line) /\ inode' = [inode EXCEPT ![f] = Appended(@, line)]
    BY DEF FilesTyped, WriteTo
  <1>3. /\ Appended(inode[f], line) \in Seq(Line)
        /\ Appended(inode[f], line) = Append(inode[f], line)
        /\ Ended(Appended(inode[f], line)) <=> line.ended
        /\ Within(inode[f], Appended(inode[f], line))
        /\ line.whole => line.item \in ItemsIn(Appended(inode[f], line))
    BY <1>2, LineAppended
  <1>4. inode'[f] = Appended(inode[f], line) /\ \A k \in 1..n : k # f => inode'[k] = inode[k]
    BY <1>2
  <1>5. inode' \in Seq(Seq(Line)) /\ Len(inode') = n
    BY <1>2, <1>3, ExceptSeq
  <1>6. \A k \in 1..n : Within(inode[k], inode'[k])
    <2>1. ASSUME NEW k \in 1..n PROVE Within(inode[k], inode'[k])
      <3>1. inode[k] \in Seq(Line)
        BY <1>2
      <3>2. CASE k = f
        BY <1>3, <1>4, <3>2
      <3>3. CASE k # f
        BY <1>4, <3>1, <3>3, SameItself
      <3> QED BY <3>2, <3>3
    <2> QED BY <2>1
  <1> QED BY <1>2, <1>3, <1>4, <1>5, <1>6 DEF FilesTyped, FilesGrow

LEMMA ReadableIs ==
    /\ plain # NoFile => Readable = inode[plain]
    /\ plain = NoFile /\ zst # NoFile => Readable = inode[zst]
    /\ plain = NoFile /\ zst = NoFile => Readable = <<>>
  BY DEF Readable

LEMMA ReadableTyped ==
    ASSUME TypeInv
    PROVE  Readable \in Seq(Line) /\ (plain # NoFile => plain \in 1..Len(inode))
  <1>1. inode \in Seq(Seq(Line)) /\ plain \in 0..Len(inode) /\ zst \in 0..Len(inode)
    BY DEF TypeInv, LinesTyped, FilesTyped, NamesTyped
  <1>2. \A k \in 1..Len(inode) : inode[k] \in Seq(Line)
    BY <1>1
  <1>3. <<>> \in Seq(Line)
    OBVIOUS
  <1>4. /\ plain # NoFile => plain \in 1..Len(inode)
        /\ zst # NoFile => zst \in 1..Len(inode)
    BY <1>1 DEF NoFile
  <1> QED BY <1>2, <1>3, <1>4, ReadableIs

LEMMA FilesOpened ==
    ASSUME TypeInv, NEW keeps \in BOOLEAN, OpenPlain(keeps)
    PROVE  /\ FilesTyped' /\ FilesGrow
           /\ plain' \in 1..Len(inode') /\ zst' \in 0..Len(inode')
           /\ Ended(inode'[plain'])
           /\ Same(Readable, inode'[plain'])
           /\ plain # NoFile => UNCHANGED <<plain, zst>>
  <1> DEFINE n == Len(inode)
  <1>1. /\ inode \in Seq(Seq(Line)) /\ n \in Nat /\ DOMAIN inode = 1..n
        /\ \A k \in 1..n : inode[k] \in Seq(Line)
    BY DEF TypeInv, LinesTyped, FilesTyped
  <1>2. CASE plain # NoFile
    <2>1. /\ inode' = [inode EXCEPT ![plain] = Repaired(@)] /\ UNCHANGED <<plain, zst>>
          /\ plain \in 1..n /\ inode[plain] \in Seq(Line)
      BY <1>1, <1>2, ReadableTyped DEF OpenPlain
    <2>2. /\ Repaired(inode[plain]) \in Seq(Line) /\ Ended(Repaired(inode[plain]))
          /\ Same(inode[plain], Repaired(inode[plain]))
      BY <2>1, LineRepaired
    <2>3. inode' \in Seq(Seq(Line)) /\ Len(inode') = n
      BY <1>1, <2>1, <2>2, ExceptSeq
    <2>4. /\ inode'[plain] = Repaired(inode[plain])
          /\ \A k \in 1..n : k # plain => inode'[k] = inode[k]
      BY <1>1, <2>1
    <2>5. \A k \in 1..n : Within(inode[k], inode'[k])
      BY <1>1, <2>2, <2>4, SameItself DEF Same
    <2> QED BY <1>1, <1>2, <2>1, <2>2, <2>3, <2>4, <2>5, ReadableIs
            DEF FilesTyped, FilesGrow, TypeInv, NamesTyped
  <1>3. CASE plain = NoFile
    <2> DEFINE c == Readable
    <2>1. c \in Seq(Line)
      BY ReadableTyped
    <2>2. /\ inode' = Append(inode, Repaired(c)) /\ plain' = n + 1
          /\ zst' \in {zst, NoFile}
      BY <1>3 DEF OpenPlain
    <2> HIDE DEF c
    <2>3. Repaired(c) \in Seq(Line) /\ Ended(Repaired(c)) /\ Same(c, Repaired(c))
      BY <2>1, LineRepaired
    <2>4. /\ inode' \in Seq(Seq(Line)) /\ Len(inode') = n + 1 /\ inode'[n + 1] = Repaired(c)
          /\ \A k \in 1..n : inode'[k] = inode[k]
      BY <1>1, <2>2, <2>3, AppendProperties
    <2>5. \A k \in 1..n : Within(inode[k], inode'[k])
      BY <1>1, <2>4, SameItself
    <2> QED BY <1>1, <1>3, <2>2, <2>3, <2>4, <2>5
            DEF FilesTyped, FilesGrow, TypeInv, NamesTyped, NoFile, c
  <1> QED BY <1>2, <1>3

(* A line is written where the invariant allows it to be.                  *)
LEMMA WritesWell ==
    ASSUME TypeInv, WriterInv, HasDue, NEW whole \in BOOLEAN, NEW ended \in BOOLEAN,
           WriteTo(fd, Record(whole, ended)), LinesTyped
    PROVE  /\ FilesTyped' /\ FilesGrow /\ Len(inode') = Len(inode)
           /\ Ended(inode'[fd]) <=> ended
           /\ whole => Due \in ItemsIn(inode'[fd])
           /\ inode'[fd] = Append(inode[fd], Record(whole, ended))
           /\ Record(whole, ended) \in Line
           /\ fd # NoFile /\ fd = plain
  <1>1. fd # NoFile /\ fd = plain /\ Ended(inode[fd]) /\ fd \in 1..Len(inode) /\ FilesTyped
    BY DEF HasDue, WriterInv, TypeInv, NamesTyped, LinesTyped, FilesTyped, NoFile
  <1>2. Due \in Message
    BY DEF HasDue, Due, TypeInv, Message
  <1>3. /\ Record(whole, ended) \in Line /\ Record(whole, ended).item = Due
        /\ Record(whole, ended).whole = whole /\ Record(whole, ended).ended = ended
    BY <1>2 DEF Record, Line, Message, LinesTyped
  <1>4. PICK f \in 1..Len(inode) : f = fd
    BY <1>1
  <1>5. PICK line \in Line : line = Record(whole, ended)
    BY <1>3
  <1>6. WriteTo(f, line)
    BY <1>4, <1>5 DEF WriteTo
  <1>7. /\ FilesTyped' /\ FilesGrow /\ Len(inode') = Len(inode)
        /\ Ended(inode'[f]) <=> line.ended
        /\ line.whole => line.item \in ItemsIn(inode'[f])
        /\ inode'[f] = Append(inode[f], line)
    BY <1>1, <1>4, <1>6, FilesWritten
  <1> QED BY <1>1, <1>3, <1>4, <1>5, <1>7

(* And so it is by a discarded writer.                                     *)
LEMMA OldWritesWell ==
    ASSUME TypeInv, WriterInv, ~FileRaces, NEW whole \in BOOLEAN, NEW ended \in BOOLEAN,
           OldAppends(whole, ended)
    PROVE  /\ FilesTyped' /\ FilesGrow /\ Len(inode') = Len(inode)
           /\ ended => Ended(inode'[plain])
           /\ plain # NoFile /\ plain \in 1..Len(inode)
           /\ \E line \in Line : inode'[plain] = Append(inode[plain], line)
  <1> DEFINE late == [item |-> Head(old.items), ordinal |-> old.next,
                      whole |-> whole, ended |-> ended]
  <1>1. /\ old # NoWriter /\ Ended(inode[old.file]) /\ WriteTo(old.file, late)
    BY DEF OldAppends
  <1>2. /\ old.file # NoFile /\ old.file = plain /\ old.items # <<>>
        /\ old.items \in Seq(Message) /\ old.next \in Int
    BY <1>1 DEF WriterInv, HandInv
  <1>3. Head(old.items) \in Message
    BY <1>2
  <1>4. late \in Line /\ late.ended = ended
    BY <1>2, <1>3 DEF Line, Message
  <1> HIDE DEF late
  <1>5. plain \in 1..Len(inode) /\ FilesTyped
    BY <1>2 DEF TypeInv, NamesTyped, LinesTyped, FilesTyped, NoFile
  <1>6. PICK f \in 1..Len(inode) : f = plain
    BY <1>5
  <1>7. PICK line \in Line : line = late
    BY <1>4
  <1>8. WriteTo(f, line)
    BY <1>1, <1>2, <1>6, <1>7 DEF WriteTo
  <1>9. Ended(inode[f])
    BY <1>1, <1>2, <1>6
  <1>10. /\ FilesTyped' /\ FilesGrow /\ Len(inode') = Len(inode)
         /\ Ended(inode'[f]) <=> line.ended
         /\ inode'[f] = Append(inode[f], line)
    BY <1>5, <1>6, <1>8, <1>9, FilesWritten
  <1> QED BY <1>2, <1>4, <1>5, <1>6, <1>7, <1>10

LEMMA CommandsTyped ==
    /\ \A i \in Item : Add(i) \in Command
    /\ \A op \in {"Persist", "Flush", "Shutdown", "none"} : Barrier(op) \in Command
    /\ NoCommand \in Command
  BY DEF Add, Barrier, NoCommand, Command

LEMMA WriterTyped ==
    ASSUME TypeInv, WriterInv, WriterStep
    PROVE  TypeInv'
  <1> USE DEF fileVars, bounds, history, sqlVars
  <1>0. LinesTyped
    BY DEF TypeInv
  <1>1. UNCHANGED job /\ UNCHANGED recorded
    BY DEF WriterStep, Receive, EnsureWriterOpen, OpenFails, WriteItem, WriteFails, WrittenAll,
           Answer
  <1>2. JobTyped'
    BY <1>0, <1>1 DEF LinesTyped, JobTyped
  <1>b. next' \in Int
    <2>1. next \in Int /\ next' \in {next, next + 1, NoOrdinal}
      BY <1>0 DEF WriterStep, Receive, EnsureWriterOpen, OpenFails, WriteItem, WriteFails, WrittenAll,
           Answer, Gone, LinesTyped
    <2> QED BY <2>1 DEF NoOrdinal
  <1>3. ASSUME FilesTyped', NamesTyped', pending' \in Seq(Message), queue' \in Seq(Command),
               cmd' \in Command, step' \in Steps, up' \in BOOLEAN
        PROVE  TypeInv'
    BY <1>1, <1>2, <1>3, <1>b DEF TypeInv, LinesTyped
  <1>4. ASSUME UNCHANGED inode PROVE FilesTyped'
    BY <1>0, <1>4 DEF LinesTyped, FilesTyped
  <1>a. ASSUME UNCHANGED <<inode, plain, zst>>, UNCHANGED fd \/ fd' = NoFile PROVE NamesTyped'
    BY <1>0, <1>a DEF TypeInv, NamesTyped, NoFile, LinesTyped, FilesTyped
  <1>5. 0 \in 0..Len(inode) /\ Len(inode) \in Nat
    BY <1>0 DEF LinesTyped, FilesTyped
  <1>6. CASE Receive
    <2>1. /\ queue # <<>> /\ queue' = Tail(queue) /\ cmd' = Head(queue)
          /\ pending' = pending \/ pending' = Append(pending, Head(queue).item)
          /\ step' \in {"answer", "open"}
          /\ UNCHANGED <<inode, plain, zst, fd, up>>
      BY <1>6 DEF Receive
    <2>2. Head(queue) \in Command /\ Tail(queue) \in Seq(Command)
      BY <2>1, HeadTailProperties DEF TypeInv
    <2>3. Head(queue).item \in Message
      BY <2>2 DEF Command, Message
    <2>4. pending' \in Seq(Message)
      <3>1. pending \in Seq(Message)
        BY DEF TypeInv
      <3>2. Append(pending, Head(queue).item) \in Seq(Message)
        BY <2>3, <3>1, AppendProperties
      <3> QED BY <2>1, <3>1, <3>2
    <2> QED BY <1>3, <1>4, <1>a, <2>1, <2>2, <2>4 DEF TypeInv, Steps
  <1>7. CASE EnsureWriterOpen
    <2>1. /\ UNCHANGED <<pending, queue, cmd, up>> /\ step' = "meta"
          /\ UNCHANGED <<inode, plain, zst, fd>> \/ (OpenPlain(FALSE) /\ fd' = plain')
      BY <1>7 DEF EnsureWriterOpen
    <2>2. FilesTyped' /\ NamesTyped'
      <3>1. CASE UNCHANGED <<inode, plain, zst, fd>>
        BY <1>4, <3>1 DEF TypeInv, NamesTyped
      <3>2. CASE OpenPlain(FALSE) /\ fd' = plain'
        <4>1. /\ FilesTyped' /\ plain' \in 1..Len(inode') /\ zst' \in 0..Len(inode')
              /\ Len(inode') \in Nat
          BY <3>2, FilesOpened DEF FilesGrow
        <4> QED BY <3>2, <4>1 DEF NamesTyped
      <3> QED BY <2>1, <3>1, <3>2
    <2> QED BY <1>3, <2>1, <2>2 DEF TypeInv, Steps
  <1>8. CASE OpenFails
    <2>1. /\ UNCHANGED <<pending, queue, up>> /\ Recover
          /\ UNCHANGED <<inode, plain, zst>> \/ OpenPlain(TRUE)
      BY <1>8 DEF OpenFails
    <2>2. fd' = NoFile /\ step' \in Steps /\ cmd' \in Command
      BY <2>1, CommandsTyped DEF Recover, TypeInv, Steps
    <2>3. FilesTyped' /\ NamesTyped'
      <3>1. CASE UNCHANGED <<inode, plain, zst>>
        BY <1>4, <1>5, <2>2, <3>1 DEF TypeInv, NamesTyped, NoFile
      <3>2. CASE OpenPlain(TRUE)
        <4>1. /\ FilesTyped' /\ plain' \in 1..Len(inode') /\ zst' \in 0..Len(inode')
              /\ Len(inode') \in Nat
          BY <3>2, FilesOpened DEF FilesGrow
        <4> QED BY <2>2, <4>1 DEF NamesTyped, NoFile
      <3> QED BY <2>1, <3>1, <3>2
    <2> QED BY <1>3, <2>1, <2>2, <2>3 DEF TypeInv
  <1>9. CASE WriteItem
    <2>1. /\ HasDue /\ WriteTo(fd, Record(TRUE, TRUE))
          /\ UNCHANGED <<plain, zst, fd, queue, cmd, up>>
          /\ \/ step' = "items" /\ UNCHANGED pending
             \/ step' = step /\ step # "meta" /\ pending' = Tail(pending)
      BY <1>9 DEF WriteItem
    <2>2. FilesTyped' /\ Len(inode') = Len(inode)
      BY <1>0, <2>1, WritesWell
    <2>3. pending' \in Seq(Message)
      BY <2>1, HeadTailProperties DEF HasDue, TypeInv
    <2> QED BY <1>3, <2>1, <2>2, <2>3 DEF TypeInv, NamesTyped, Steps
  <1>10. CASE WriteFails
    <2>1. /\ UNCHANGED <<plain, zst, pending, queue, up>> /\ Recover /\ HasDue
          /\ UNCHANGED inode \/ \E whole \in BOOLEAN : WriteTo(fd, Record(whole, FALSE))
      BY <1>10 DEF WriteFails
    <2>2. fd' = NoFile /\ step' \in Steps /\ cmd' \in Command
      BY <2>1, CommandsTyped DEF Recover, TypeInv, Steps
    <2>3. FilesTyped' /\ Len(inode') = Len(inode)
      BY <1>0, <1>4, <2>1, WritesWell
    <2> QED BY <1>3, <1>5, <2>1, <2>2, <2>3 DEF TypeInv, NamesTyped, NoFile
  <1>11. CASE WrittenAll
    <2>1. UNCHANGED <<inode, plain, zst, fd, pending, queue, cmd, up>> /\ step' \in Steps
      BY <1>11 DEF WrittenAll, Steps
    <2> QED BY <1>3, <1>4, <2>1 DEF TypeInv, NamesTyped
  <1>12. CASE Answer
    <2>1. /\ UNCHANGED <<inode, plain, zst>> /\ step' = "recv" /\ cmd' = NoCommand
          /\ \/ up' = FALSE /\ queue' = <<>> /\ fd' = NoFile /\ pending' = <<>>
             \/ UNCHANGED <<up, queue, fd, pending>>
      BY <1>12 DEF Answer, Gone
    <2>2. /\ queue \in Seq(Command) /\ up \in BOOLEAN /\ <<>> \in Seq(Command)
          /\ pending \in Seq(Message) /\ <<>> \in Seq(Message)
      BY EmptySeq DEF TypeInv
    <2>3. queue' \in Seq(Command) /\ up' \in BOOLEAN /\ pending' \in Seq(Message)
      BY <2>1, <2>2
    <2> QED BY <1>3, <1>4, <1>a, <2>1, <2>3, CommandsTyped DEF TypeInv, Steps
  <1> QED BY <1>6, <1>7, <1>8, <1>9, <1>10, <1>11, <1>12 DEF WriterStep

LEMMA OthersTyped ==
    ASSUME TypeInv, WriterInv, ~FileRaces,
           \/ AppendItem \/ (\E op \in {"Persist", "Flush", "Shutdown"} : Request(op))
           \/ Discard \/ OldWrites \/ OldStops \/ Crash \/ Resume \/ Project
    PROVE  TypeInv'
  <1> USE DEF fileVars, bounds, history, sqlVars, writerVars
  <1>0. LinesTyped
    BY DEF TypeInv
  <1>1. UNCHANGED job
    BY DEF AppendItem, Request, Discard, OldWrites, OldStops, Crash, Resume, Project
  <1>2. JobTyped'
    BY <1>0, <1>1 DEF LinesTyped, JobTyped
  <1>b. next' \in Int
    <2>1. CASE Resume
      <3> DEFINE content == inode'[plain']
      <3>1. /\ OpenPlain(FALSE) /\ SessionMeta \in ItemsIn(Readable)
            /\ next' \in {next, NoOrdinal, LastOrdinal(content) + 1}
        BY <2>1 DEF Resume
      <3>2. content \in Seq(Line) /\ Same(Readable, content)
        BY <3>1, FilesOpened, ElementOfSeq DEF FilesTyped
      <3>3. SessionMeta \in ItemsIn(content)
        BY <3>1, <3>2, ReadableTyped, WithinItems DEF Same
      <3>4. LastOrdinal(content) \in Int
        BY <3>2, <3>3, LastRecord
      <3> QED BY <1>0, <3>1, <3>4 DEF LinesTyped, NoOrdinal
    <2>2. CASE Crash \/ Discard
      <3>1. next' \in {next, NoOrdinal}
        BY <2>2 DEF Crash, Discard, Gone
      <3> QED BY <1>0, <3>1 DEF LinesTyped, NoOrdinal
    <2>3. CASE ~(Resume \/ Crash \/ Discard)
      <3>1. UNCHANGED next
        BY <2>3 DEF AppendItem, Request, OldWrites, OldStops, Project
      <3> QED BY <1>0, <3>1 DEF LinesTyped
    <2> QED BY <2>1, <2>2, <2>3
  <1>3. ASSUME FilesTyped', NamesTyped', pending' \in Seq(Message), queue' \in Seq(Command),
               cmd' \in Command, step' \in Steps, up' \in BOOLEAN, recorded' \in 0..MaxItem
        PROVE  TypeInv'
    BY <1>1, <1>2, <1>3, <1>b DEF TypeInv, LinesTyped
  <1>4. ASSUME UNCHANGED inode PROVE FilesTyped'
    BY <1>0, <1>4 DEF LinesTyped, FilesTyped
  <1>5. /\ Len(inode) \in Nat /\ MaxItem \in Nat
        /\ <<>> \in Seq(Command) /\ <<>> \in Seq(Message)
    BY <1>0, EmptySeq, BoundAssumption DEF LinesTyped, FilesTyped
  <1>6. CASE AppendItem
    <2>1. /\ UNCHANGED <<inode, plain, zst, fd, pending, cmd, step, up>>
          /\ recorded' \in Item
          /\ queue' = queue \o <<Add(recorded'), Barrier("Flush")>>
      BY <1>6 DEF AppendItem
    <2>2. <<Add(recorded'), Barrier("Flush")>> \in Seq(Command)
      BY <2>1, CommandsTyped
    <2>3. queue' \in Seq(Command)
      BY <2>1, <2>2, ConcatProperties DEF TypeInv
    <2> QED BY <1>3, <1>4, <1>5, <2>1, <2>3 DEF TypeInv, NamesTyped, Item
  <1>7. ASSUME NEW op \in {"Persist", "Flush", "Shutdown"}, Request(op) PROVE TypeInv'
    <2>1. /\ UNCHANGED <<inode, plain, zst, fd, pending, cmd, step, up, recorded>>
          /\ queue' = Append(queue, Barrier(op))
      BY <1>7 DEF Request
    <2>2. Barrier(op) \in Command
      BY CommandsTyped
    <2>3. queue' \in Seq(Command)
      BY <2>1, <2>2, AppendProperties DEF TypeInv
    <2> QED BY <1>3, <1>4, <2>1, <2>3 DEF TypeInv, NamesTyped
  <1>8. CASE Crash
    <2>1. /\ UNCHANGED <<plain, zst, recorded>>
          /\ \/ UNCHANGED inode
             \/ \E whole \in BOOLEAN : HasDue /\ WriteTo(fd, Record(whole, FALSE))
             \/ \E whole \in BOOLEAN : OldAppends(whole, FALSE)
          /\ up' = FALSE /\ fd' = NoFile /\ queue' = <<>> /\ pending' = <<>>
          /\ step' = "recv" /\ cmd' = NoCommand
      BY <1>8 DEF Crash, Gone
    <2>2. FilesTyped' /\ Len(inode') = Len(inode)
      <3>1. CASE UNCHANGED inode
        BY <1>4, <3>1
      <3>2. CASE \E whole \in BOOLEAN : HasDue /\ WriteTo(fd, Record(whole, FALSE))
        BY <1>0, <3>2, WritesWell
      <3>3. CASE \E whole \in BOOLEAN : OldAppends(whole, FALSE)
        BY <3>3, OldWritesWell
      <3> QED BY <2>1, <3>1, <3>2, <3>3
    <2>3. NamesTyped'
      BY <1>5, <2>1, <2>2 DEF TypeInv, NamesTyped, NoFile
    <2> QED BY <1>3, <1>5, <2>1, <2>2, <2>3, CommandsTyped DEF TypeInv, Steps
  <1>9. CASE Resume
    <2>1. /\ UNCHANGED recorded /\ OpenPlain(FALSE)
          /\ \/ /\ up' = TRUE /\ fd' = plain' /\ pending' = <<>> /\ queue' = <<>>
                /\ step' = "recv" /\ cmd' = NoCommand
             \/ UNCHANGED <<up, fd, pending, queue, step, cmd>>
      BY <1>9 DEF Resume
    <2>2. /\ FilesTyped' /\ plain' \in 1..Len(inode') /\ zst' \in 0..Len(inode')
          /\ Len(inode') \in Nat /\ Len(inode) <= Len(inode')
      BY <2>1, FilesOpened DEF FilesGrow
    <2>3. NamesTyped'
      BY <1>5, <2>1, <2>2 DEF TypeInv, NamesTyped
    <2>4. up' \in BOOLEAN /\ pending' \in Seq(Message) /\ queue' \in Seq(Command)
      BY <1>5, <2>1 DEF TypeInv
    <2>5. step' \in Steps /\ cmd' \in Command
      BY <2>1, CommandsTyped DEF TypeInv, Steps
    <2> QED BY <1>3, <2>1, <2>2, <2>3, <2>4, <2>5 DEF TypeInv
  <1>11. CASE Discard
    <2>1. /\ UNCHANGED <<inode, plain, zst, recorded>> /\ up' = FALSE
          /\ \/ /\ fd' = NoFile /\ pending' = <<>> /\ queue' = <<>>
                /\ step' = "recv" /\ cmd' = NoCommand
             \/ UNCHANGED <<fd, pending, queue, step, cmd>>
      BY <1>11 DEF Discard, Gone
    <2>2. NamesTyped'
      BY <1>5, <2>1 DEF TypeInv, NamesTyped, NoFile
    <2>3. pending' \in Seq(Message) /\ queue' \in Seq(Command)
      BY <1>5, <2>1 DEF TypeInv
    <2>4. step' \in Steps /\ cmd' \in Command
      BY <2>1, CommandsTyped DEF TypeInv, Steps
    <2> QED BY <1>3, <1>4, <2>1, <2>2, <2>3, <2>4 DEF TypeInv
  <1>12. CASE OldWrites \/ OldStops
    <2>1. /\ UNCHANGED <<plain, zst, fd, pending, queue, cmd, step, up, recorded>>
          /\ UNCHANGED inode \/ OldAppends(TRUE, TRUE)
      BY <1>12 DEF OldWrites, OldStops
    <2>2. FilesTyped' /\ Len(inode') = Len(inode)
      BY <1>4, <2>1, OldWritesWell
    <2> QED BY <1>3, <2>1, <2>2 DEF TypeInv, NamesTyped
  <1>10. CASE Project
    <2>1. UNCHANGED <<inode, plain, zst, fd, pending, queue, cmd, step, up, recorded>>
      BY <1>10 DEF Project
    <2> QED BY <1>3, <1>4, <2>1 DEF TypeInv, NamesTyped
  <1> QED BY <1>6, <1>7, <1>8, <1>9, <1>10, <1>11, <1>12

LEMMA WorkerTyped ==
    ASSUME TypeInv, JobInv, WorkerStep
    PROVE  /\ TypeInv' /\ FilesGrow
           /\ \A k \in 1..Len(inode) : inode'[k] = inode[k]
  <1> USE DEF fileVars, bounds, history, sqlVars, writerVars
  <1>0. LinesTyped
    BY DEF TypeInv
  <1>1. UNCHANGED <<next, fd, pending, queue, cmd, step, up, recorded>>
    BY DEF WorkerStep, JobStat, JobEncode, JobPersist, JobCheck, JobUnlink, JobFails
  <1>2. ASSUME FilesTyped', JobTyped', NamesTyped' PROVE TypeInv'
    BY <1>0, <1>1, <1>2 DEF TypeInv, LinesTyped
  <1>3. ASSUME UNCHANGED inode PROVE FilesTyped' /\ FilesGrow
    BY <1>0, <1>3, FilesSame DEF LinesTyped, FilesTyped
  <1>4. /\ inode \in Seq(Seq(Line)) /\ Len(inode) \in Nat /\ JobTyped
        /\ plain # NoFile => plain \in 1..Len(inode) /\ inode[plain] \in Seq(Line)
    BY <1>0 DEF LinesTyped, FilesTyped, TypeInv, NamesTyped, NoFile
  <1>5. JobTyped'
    <2>1. NoJob \in [at : {"idle", "encode", "persist", "check", "unlink"}, file : Nat,
                     seen : Seq(Line), copy : Seq(Line)]
      BY EmptySeq DEF NoJob, NoFile
    <2>2. CASE JobStat
      <3>1. /\ plain # NoFile
            /\ job' = [at |-> "encode", file |-> plain, seen |-> inode[plain], copy |-> <<>>]
        BY <2>2 DEF JobStat
      <3> QED BY <1>4, <3>1, EmptySeq DEF JobTyped
    <2>3. CASE JobEncode
      <3>1. plain # NoFile /\ job' = [job EXCEPT !.at = "persist", !.copy = inode[plain]]
        BY <2>3 DEF JobEncode
      <3> QED BY <1>4, <3>1 DEF JobTyped
    <2>4. CASE JobPersist \/ JobCheck \/ JobUnlink \/ JobFails
      <3>1. \/ job' = NoJob
            \/ \E place \in {"check", "unlink"} : JobGoto(place)
        BY <2>4 DEF JobPersist, JobCheck, JobUnlink, JobFails
      <3> QED BY <1>4, <2>1, <3>1 DEF JobTyped, JobGoto
    <2> QED BY <2>2, <2>3, <2>4 DEF WorkerStep
  <1>6. CASE JobPersist /\ ~UNCHANGED inode
    <2>1. /\ inode' = Append(inode, job.copy) /\ zst' = Len(inode) + 1 /\ UNCHANGED plain
      BY <1>6 DEF JobPersist
    <2>2. job.copy \in Seq(Line)
      BY <1>4 DEF JobTyped
    <2>3. /\ inode' \in Seq(Seq(Line)) /\ Len(inode') = Len(inode) + 1
          /\ \A k \in 1..Len(inode) : inode'[k] = inode[k]
      BY <1>4, <2>1, <2>2, AppendProperties
    <2>4. NamesTyped'
      BY <1>1, <1>4, <2>1, <2>3 DEF TypeInv, NamesTyped
    <2>6. \A k \in 1..Len(inode) : Within(inode[k], inode'[k])
      BY <1>4, <2>3, ElementOfSeq, SameItself
    <2>7. FilesGrow
      BY <1>4, <2>3, <2>6 DEF FilesGrow
    <2>5. TypeInv'
      BY <1>2, <1>5, <2>3, <2>4 DEF FilesTyped
    <2> QED BY <2>3, <2>5, <2>7
  <1>7. CASE UNCHANGED inode
    <2>1. /\ UNCHANGED plain \/ plain' = NoFile
          /\ UNCHANGED zst \/ zst' = NoFile
      BY <1>7, <1>4
         DEF WorkerStep, JobStat, JobEncode, JobPersist, JobCheck, JobUnlink, JobFails
    <2> QED BY <1>1, <1>2, <1>3, <1>4, <1>5, <1>7, <2>1 DEF TypeInv, NamesTyped, NoFile
  <1>8. UNCHANGED inode \/ JobPersist
    BY DEF WorkerStep, JobStat, JobEncode, JobCheck, JobUnlink, JobFails
  <1> QED BY <1>6, <1>7, <1>8

-----------------------------------------------------------------------------
(* Steps of the recorder, and of the worker. *)

Recording ==
    \/ AppendItem \/ (\E op \in {"Persist", "Flush", "Shutdown"} : Request(op))
    \/ WriterStep \/ Discard \/ OldWrites \/ OldStops \/ Crash \/ Resume \/ Project

LEMMA RecordingOrWorker == Next => Recording \/ WorkerStep
  BY DEF Next, Recording

(* The recorder writes to the plain file, or makes one that holds what     *)
(* could be read before.                                                   *)
LEMMA RecordingFiles ==
    ASSUME TypeInv, WriterInv, ~FileRaces, Recording
    PROVE  /\ UNCHANGED job /\ FilesGrow
           /\ \/ UNCHANGED <<plain, zst>>
              \/ /\ plain = NoFile /\ plain' \in 1..Len(inode')
                 /\ Same(Readable, inode'[plain'])
  <1> USE DEF fileVars, sqlVars, writerVars
  <1>0. LinesTyped
    BY DEF TypeInv
  <1>1. UNCHANGED job
    BY DEF Recording, AppendItem, Request, Discard, OldWrites, OldStops, Crash, Resume, Project,
           WriterStep, Receive, EnsureWriterOpen, OpenFails, WriteItem, WriteFails, WrittenAll,
           Answer
  <1>2. \/ UNCHANGED <<inode, plain, zst>>
        \/ /\ HasDue /\ UNCHANGED <<plain, zst>>
           /\ \E whole \in BOOLEAN, ended \in BOOLEAN : WriteTo(fd, Record(whole, ended))
        \/ /\ UNCHANGED <<plain, zst>>
           /\ \E whole \in BOOLEAN, ended \in BOOLEAN : OldAppends(whole, ended)
        \/ \E keeps \in BOOLEAN : OpenPlain(keeps)
    BY DEF Recording, AppendItem, Request, Discard, OldWrites, OldStops, Crash, Resume, Project,
           WriterStep, Receive, EnsureWriterOpen, OpenFails, WriteItem, WriteFails, WrittenAll,
           Answer
  <1>3. CASE UNCHANGED <<inode, plain, zst>>
    BY <1>0, <1>1, <1>3, FilesSame DEF LinesTyped
  <1>4. CASE /\ HasDue /\ UNCHANGED <<plain, zst>>
             /\ \E whole \in BOOLEAN, ended \in BOOLEAN : WriteTo(fd, Record(whole, ended))
    BY <1>0, <1>1, <1>4, WritesWell
  <1>6. CASE /\ UNCHANGED <<plain, zst>>
             /\ \E whole \in BOOLEAN, ended \in BOOLEAN : OldAppends(whole, ended)
    BY <1>1, <1>6, OldWritesWell
  <1>5. ASSUME NEW keeps \in BOOLEAN, OpenPlain(keeps)
        PROVE  /\ FilesGrow
               /\ \/ UNCHANGED <<plain, zst>>
                  \/ /\ plain = NoFile /\ plain' \in 1..Len(inode')
                     /\ Same(Readable, inode'[plain'])
    BY <1>5, FilesOpened
  <1> QED BY <1>1, <1>2, <1>3, <1>4, <1>5, <1>6

LEMMA JobAfter ==
    ASSUME /\ job'.at # "idle" => plain' # NoFile /\ plain' = job'.file
           /\ job'.at = "encode" => Within(job'.seen, inode'[plain'])
           /\ job'.at \in {"persist", "check", "unlink"} =>
                 Within(job'.seen, job'.copy) /\ Within(job'.copy, inode'[plain'])
           /\ job'.at \in {"check", "unlink"} =>
                 zst' # NoFile /\ zst' # plain' /\ inode'[zst'] = job'.copy
    PROVE  JobInv'
  <1>1. /\ Within(job.seen, inode[plain])' <=> Within(job'.seen, inode'[plain'])
        /\ Within(job.seen, job.copy)' <=> Within(job'.seen, job'.copy)
        /\ Within(job.copy, inode[plain])' <=> Within(job'.copy, inode'[plain'])
    BY DEF Within, Alike
  <1> QED BY <1>1 DEF JobInv

LEMMA StepKeepsJob ==
    ASSUME TypeInv, TypeInv', WriterInv, JobInv, ~FileRaces, Recording \/ WorkerStep
    PROVE  JobInv'
  <1> USE DEF fileVars, sqlVars, writerVars
  <1>0. LinesTyped
    BY DEF TypeInv
  <1>a. /\ Len(inode) \in Nat /\ plain \in 0..Len(inode) /\ zst \in 0..Len(inode)
        /\ JobTyped /\ inode \in Seq(Seq(Line))
    BY <1>0 DEF LinesTyped, FilesTyped, TypeInv, NamesTyped
  <1>1. CASE Recording
    <2>1. UNCHANGED job /\ FilesGrow /\ (UNCHANGED <<plain, zst>> \/ plain = NoFile)
      BY <1>1, RecordingFiles
    <2>2. CASE job.at = "idle"
      BY <2>1, <2>2 DEF JobInv
    <2>3. CASE job.at # "idle"
      <3>1. plain # NoFile /\ UNCHANGED <<plain, zst>> /\ plain \in 1..Len(inode)
        BY <1>a, <2>1, <2>3 DEF JobInv, NoFile
      <3>2. Within(inode[plain], inode'[plain])
        BY <2>1, <3>1, GrowsAt
      <3>3. zst # NoFile /\ zst # plain => inode'[zst] = inode[zst]
        BY <1>a, <2>1, GrowsAt DEF NoFile
      <3>4. inode[plain] \in Seq(Line) /\ inode'[plain] \in Seq(Line)
        BY <1>a, <2>1, <3>1, ElementOfSeq DEF TypeInv, LinesTyped, FilesTyped, FilesGrow
      <3>5. job.seen \in Seq(Line) /\ job.copy \in Seq(Line)
        BY <1>a DEF JobTyped
      <3>6. /\ Within(job.seen, inode[plain]) => Within(job.seen, inode'[plain])
            /\ Within(job.copy, inode[plain]) => Within(job.copy, inode'[plain])
        BY <3>2, <3>4, <3>5, WithinMore
      <3> QED BY <2>1, <3>1, <3>3, <3>6, JobAfter DEF JobInv
    <2> QED BY <2>2, <2>3
  <1>2. CASE JobStat
    <2>1. /\ plain # NoFile /\ UNCHANGED <<inode, plain, zst>>
          /\ job' = [at |-> "encode", file |-> plain, seen |-> inode[plain], copy |-> <<>>]
      BY <1>2 DEF JobStat
    <2>2. inode[plain] \in Seq(Line) /\ Within(inode[plain], inode[plain])
      BY <1>a, <2>1, ElementOfSeq, SameItself DEF NoFile
    <2> QED BY <2>1, <2>2, JobAfter DEF JobInv
  <1>3. CASE JobEncode
    <2>1. /\ job.at = "encode" /\ UNCHANGED <<inode, plain, zst>>
          /\ job' = [job EXCEPT !.at = "persist", !.copy = inode[plain]]
      BY <1>3 DEF JobEncode
    <2>2. /\ job'.at = "persist" /\ job'.file = job.file /\ job'.seen = job.seen
          /\ job'.copy = inode[plain]
      BY <1>a, <2>1 DEF JobTyped
    <2>3. inode[plain] \in Seq(Line) /\ Within(inode[plain], inode[plain])
      BY <1>a, <2>1, ElementOfSeq, SameItself DEF NoFile, JobInv
    <2> QED BY <2>1, <2>2, <2>3, JobAfter DEF JobInv
  <1>4. CASE job' = NoJob
    BY <1>4 DEF JobInv, NoJob
  <1>5. CASE JobPersist /\ job' # NoJob
    <2>1. /\ job.at = "persist" /\ inode' = Append(inode, job.copy) /\ zst' = Len(inode) + 1
          /\ UNCHANGED plain /\ job' = [job EXCEPT !.at = "check"]
      BY <1>5 DEF JobPersist, JobGoto
    <2>2. /\ job'.at = "check" /\ job'.file = job.file /\ job'.seen = job.seen
          /\ job'.copy = job.copy /\ job.copy \in Seq(Line)
      BY <1>a, <2>1 DEF JobTyped
    <2>3. inode'[zst'] = job.copy
      BY <1>a, <2>1, <2>2, AppendProperties
    <2>4. plain \in 1..Len(inode) /\ inode'[plain] = inode[plain]
      BY <1>a, <2>1, <2>2, AppendProperties DEF JobInv, NoFile
    <2>5. zst' # NoFile /\ zst' # plain
      BY <1>a, <2>1 DEF NoFile
    <2> QED BY <2>1, <2>2, <2>3, <2>4, <2>5, JobAfter DEF JobInv
  <1>6. CASE JobCheck /\ job' # NoJob
    <2>1. /\ job.at = "check" /\ UNCHANGED <<inode, plain, zst>>
          /\ job' = [job EXCEPT !.at = "unlink"]
      BY <1>6 DEF JobCheck, JobGoto
    <2>2. /\ job'.at = "unlink" /\ job'.file = job.file /\ job'.seen = job.seen
          /\ job'.copy = job.copy
      BY <1>a, <2>1 DEF JobTyped
    <2> QED BY <2>1, <2>2, JobAfter DEF JobInv
  <1>7. JobUnlink \/ JobFails => job' = NoJob
    BY DEF JobUnlink, JobFails
  <1> QED BY <1>1, <1>2, <1>3, <1>4, <1>5, <1>6, <1>7 DEF WorkerStep

LEMMA ReadableAfter ==
    /\ plain' # NoFile => Readable' = inode'[plain']
    /\ plain' = NoFile /\ zst' # NoFile => Readable' = inode'[zst']
  BY DEF Readable

LEMMA ReadableTypedAfter == TypeInv' => Readable' \in Seq(Line)
  <1> SUFFICES ASSUME TypeInv' PROVE Readable' \in Seq(Line)
    OBVIOUS
  <1>1. /\ inode' \in Seq(Seq(Line)) /\ plain' \in 0..Len(inode') /\ zst' \in 0..Len(inode')
        /\ \A k \in 1..Len(inode') : inode'[k] \in Seq(Line)
    BY ElementOfSeq DEF TypeInv, LinesTyped, FilesTyped, NamesTyped
  <1>2. <<>> \in Seq(Line)
    OBVIOUS
  <1>3. CASE plain' # NoFile
    <2>1. plain' \in 1..Len(inode')
      BY <1>1, <1>3 DEF NoFile
    <2> QED BY <1>1, <1>3, <2>1, ReadableAfter
  <1>4. CASE plain' = NoFile /\ zst' # NoFile
    <2>1. zst' \in 1..Len(inode')
      BY <1>1, <1>4 DEF NoFile
    <2> QED BY <1>1, <1>4, <2>1, ReadableAfter
  <1>5. CASE plain' = NoFile /\ zst' = NoFile
    BY <1>2, <1>5 DEF Readable
  <1> QED BY <1>3, <1>4, <1>5

(* What a reader finds: a step of the recorder either leaves it as it is,  *)
(* or appends the record that is due, a discarded writer appends a record  *)
(* of its own, and no step of the worker changes it.                       *)
LEMMA WorkerLeavesIt ==
    ASSUME TypeInv, JobInv, ~FileRaces, WorkerStep
    PROVE  Same(Readable, Readable')
  <1> USE DEF fileVars, sqlVars, writerVars
  <1>a. /\ Readable \in Seq(Line)
        /\ plain # NoFile => plain \in 1..Len(inode)
        /\ zst # NoFile => zst \in 1..Len(inode)
        /\ \A k \in 1..Len(inode) : inode'[k] = inode[k]
    BY ReadableTyped, WorkerTyped DEF TypeInv, NamesTyped, NoFile
  <1>1. ASSUME UNCHANGED plain, UNCHANGED zst \/ plain # NoFile PROVE Readable' = Readable
    <2>1. CASE plain # NoFile
      <3>1. plain' # NoFile /\ inode'[plain'] = inode[plain]
        BY <1>1, <1>a, <2>1
      <3> QED BY <2>1, <3>1, ReadableIs, ReadableAfter
    <2>2. CASE plain = NoFile /\ zst # NoFile
      BY <1>1, <1>a, <2>2, ReadableIs, ReadableAfter
    <2>3. CASE plain = NoFile /\ zst = NoFile
      BY <1>1, <2>3 DEF Readable
    <2> QED BY <2>1, <2>2, <2>3
  <1>2. CASE JobUnlink
    <2>1. /\ job.at = "unlink" /\ Unwritten /\ plain' = NoFile /\ UNCHANGED <<inode, zst>>
      BY <1>2 DEF JobUnlink
    <2>2. /\ plain # NoFile /\ zst # NoFile /\ inode[zst] = job.copy /\ inode[plain] = job.seen
          /\ Within(job.seen, job.copy) /\ Within(job.copy, inode[plain])
      BY <2>1 DEF JobInv, Unwritten
    <2>3. Readable = job.seen /\ Readable' = job.copy
      BY <2>1, <2>2, ReadableIs, ReadableAfter
    <2> QED BY <2>2, <2>3 DEF Same
  <1>3. CASE WorkerStep /\ ~JobUnlink
    <2>1. UNCHANGED plain
      BY <1>3 DEF WorkerStep, JobStat, JobEncode, JobPersist, JobCheck, JobFails
    <2>2. UNCHANGED zst \/ plain # NoFile
      BY <1>3 DEF WorkerStep, JobStat, JobEncode, JobPersist, JobCheck, JobFails, JobInv
    <2>3. Readable' = Readable
      BY <1>1, <2>1, <2>2
    <2> QED BY <1>a, <2>3, SameItself
  <1> QED BY <1>2, <1>3

Writing(whole, ended) ==
    HasDue /\ Record(whole, ended) \in Line /\ Readable' = Append(Readable, Record(whole, ended))

LEMMA RecorderWrites ==
    ASSUME TypeInv, WriterInv, HasDue, NEW whole \in BOOLEAN, NEW ended \in BOOLEAN,
           WriteTo(fd, Record(whole, ended)), UNCHANGED plain
    PROVE  Writing(whole, ended)
  <1>1. /\ inode'[fd] = Append(inode[fd], Record(whole, ended)) /\ Record(whole, ended) \in Line
        /\ fd # NoFile /\ fd = plain
    BY WritesWell DEF TypeInv
  <1>2. Readable = inode[fd] /\ Readable' = inode'[fd]
    BY <1>1, ReadableIs, ReadableAfter
  <1> QED BY <1>1, <1>2 DEF Writing

LEMMA RecorderLeavesIt ==
    ASSUME TypeInv, UNCHANGED <<inode, plain, zst>> \/ \E keeps \in BOOLEAN : OpenPlain(keeps)
    PROVE  Same(Readable, Readable')
  <1>1. CASE UNCHANGED <<inode, plain, zst>>
    <2>1. Readable' = Readable
      BY <1>1 DEF Readable
    <2> QED BY <2>1, ReadableTyped, SameItself
  <1>2. ASSUME NEW keeps \in BOOLEAN, OpenPlain(keeps) PROVE Same(Readable, Readable')
    <2>1. Same(Readable, inode'[plain']) /\ plain' \in 1..Len(inode')
      BY <1>2, FilesOpened
    <2>2. plain' # NoFile
      BY <2>1 DEF NoFile
    <2> QED BY <2>1, <2>2, ReadableAfter
  <1> QED BY <1>1, <1>2

(* A record of a discarded writer.                                         *)
Sharing == old # NoWriter /\ shared' = TRUE /\ \E line \in Line : Readable' = Append(Readable, line)

LEMMA OldShares ==
    ASSUME TypeInv, WriterInv, ~FileRaces, NEW whole \in BOOLEAN, NEW ended \in BOOLEAN,
           OldAppends(whole, ended), UNCHANGED plain
    PROVE  Sharing
  <1>1. PICK line \in Line : inode'[plain] = Append(inode[plain], line)
    BY OldWritesWell
  <1>2. plain # NoFile /\ old # NoWriter /\ shared' = TRUE
    BY OldWritesWell DEF OldAppends
  <1>3. Readable = inode[plain] /\ Readable' = inode'[plain]
    BY <1>2, ReadableIs, ReadableAfter
  <1> QED BY <1>1, <1>2, <1>3 DEF Sharing

LEMMA ReadableMoves ==
    ASSUME TypeInv, WriterInv, JobInv, ~FileRaces, Recording \/ WorkerStep
    PROVE  /\ WriteItem => Writing(TRUE, TRUE)
           /\ WriteFails =>
                 \/ Same(Readable, Readable')
                 \/ \E whole \in BOOLEAN : Writing(whole, FALSE)
           /\ Crash =>
                 \/ Same(Readable, Readable') /\ UNCHANGED shared
                 \/ UNCHANGED shared /\ \E whole \in BOOLEAN : Writing(whole, FALSE)
                 \/ Sharing
           /\ OldWrites => Sharing
           /\ ~(WriteItem \/ WriteFails \/ Crash \/ OldWrites) => Same(Readable, Readable')
  <1> USE DEF fileVars, sqlVars, writerVars
  <1>1. ASSUME WriteItem PROVE Writing(TRUE, TRUE)
    BY <1>1, RecorderWrites DEF WriteItem
  <1>2. ASSUME UNCHANGED <<plain, zst>>,
               \/ UNCHANGED inode
               \/ HasDue /\ \E whole \in BOOLEAN : WriteTo(fd, Record(whole, FALSE))
        PROVE  \/ Same(Readable, Readable')
               \/ \E whole \in BOOLEAN : Writing(whole, FALSE)
    <2>2. CASE UNCHANGED inode
      BY <1>2, <2>2, RecorderLeavesIt
    <2>3. ASSUME NEW whole \in BOOLEAN, HasDue, WriteTo(fd, Record(whole, FALSE))
          PROVE  Writing(whole, FALSE)
      BY <1>2, <2>3, RecorderWrites
    <2> QED BY <1>2, <2>2, <2>3
  <1>4. ASSUME WriteFails
        PROVE  \/ Same(Readable, Readable')
               \/ \E whole \in BOOLEAN : Writing(whole, FALSE)
    <2>1. /\ UNCHANGED <<plain, zst>>
          /\ \/ UNCHANGED inode
             \/ HasDue /\ \E whole \in BOOLEAN : WriteTo(fd, Record(whole, FALSE))
      BY <1>4 DEF WriteFails
    <2> QED BY <1>2, <2>1
  <1>5. ASSUME Crash
        PROVE  \/ Same(Readable, Readable') /\ UNCHANGED shared
               \/ UNCHANGED shared /\ \E whole \in BOOLEAN : Writing(whole, FALSE)
               \/ Sharing
    <2>1. /\ UNCHANGED <<plain, zst>>
          /\ \/ UNCHANGED <<inode, shared>>
             \/ /\ HasDue /\ \E whole \in BOOLEAN : WriteTo(fd, Record(whole, FALSE))
                /\ UNCHANGED shared
             \/ \E whole \in BOOLEAN : OldAppends(whole, FALSE)
      BY <1>5 DEF Crash
    <2>2. CASE \E whole \in BOOLEAN : OldAppends(whole, FALSE)
      BY <2>1, <2>2, OldShares
    <2> QED BY <1>2, <2>1, <2>2
  <1>6. ASSUME OldWrites PROVE Sharing
    <2>1. OldAppends(TRUE, TRUE) /\ UNCHANGED plain
      BY <1>6 DEF OldWrites
    <2> QED BY <2>1, OldShares
  <1>3. ASSUME ~(WriteItem \/ WriteFails \/ Crash \/ OldWrites) PROVE Same(Readable, Readable')
    <2>1. CASE WorkerStep
      BY <2>1, WorkerLeavesIt
    <2>2. CASE Recording
      <3>1. UNCHANGED <<inode, plain, zst>> \/ \E keeps \in BOOLEAN : OpenPlain(keeps)
        BY <1>3, <2>2 DEF Recording, AppendItem, Request, Discard, OldStops, Resume, Project,
                          WriterStep, Receive, EnsureWriterOpen, OpenFails, WrittenAll, Answer
      <3> QED BY <3>1, RecorderLeavesIt
    <2> QED BY <2>1, <2>2
  <1> QED BY <1>1, <1>3, <1>4, <1>5, <1>6

(* What could be read can be read.                                         *)
LEMMA ReadableGrows ==
    ASSUME TypeInv, TypeInv', WriterInv, JobInv, ~FileRaces, Recording \/ WorkerStep
    PROVE  /\ Readable \in Seq(Line) /\ Readable' \in Seq(Line)
           /\ Within(Readable, Readable') /\ ItemsIn(Readable) \subseteq ItemsIn(Readable')
  <1>1. Readable \in Seq(Line) /\ Readable' \in Seq(Line)
    <2>1. Readable \in Seq(Line)
      BY ReadableTyped
    <2>2. (Readable \in Seq(Line))'
      BY ReadableTypedAfter
    <2> QED BY <2>1, <2>2
  <1>2. \/ Same(Readable, Readable')
        \/ \E whole, ended \in BOOLEAN : Writing(whole, ended)
        \/ Sharing
    BY ReadableMoves
  <1>3. ASSUME NEW line \in Line, Readable' = Append(Readable, line)
        PROVE  Within(Readable, Readable')
    <2>2. /\ Len(Readable) \in Nat /\ Len(Readable') = Len(Readable) + 1
          /\ \A i \in 1..Len(Readable) : Readable'[i] = Readable[i]
      BY <1>1, <1>3, AppendProperties
    <2> QED BY <2>2 DEF Within, Alike
  <1>4. Within(Readable, Readable')
    BY <1>2, <1>3 DEF Same, Writing, Sharing
  <1> QED BY <1>1, <1>4, WithinItems

-----------------------------------------------------------------------------
LEMMA EndedAfter ==
    ASSUME fd' # NoFile => fd' = plain' /\ Ended(inode'[fd']),
           step' \in {"meta", "items"} => fd' # NoFile,
           step' = "answer" /\ cmd'.op # "Add" => pending' = <<>>,
           HandInv'
    PROVE  WriterInv'
  <1>1. Ended(inode[fd])' <=> Ended(inode'[fd'])
    BY DEF Ended, Last
  <1> QED BY <1>1 DEF WriterInv

(* A writer that was discarded holds the file, or is to open the one, that *)
(* its successor opens.                                                    *)
LEMMA LeftAre ==
    ASSUME TypeInv
    PROVE  Left \in Seq(Message)
  <1> DEFINE J == {j \in DOMAIN queue : queue[j].op = "Add"}
             adds == Selected(queue, J)
  <1>1. queue \in Seq(Command) /\ pending \in Seq(Message) /\ J \in SUBSET (1..Len(queue))
    BY DEF TypeInv
  <1>2. adds \in Seq(Command)
    BY <1>1, SelectedIs
  <1> HIDE DEF adds
  <1>3. Items(adds) \in Seq(Message)
    <2>1. \A c \in Command : c.item \in Message
      BY DEF Command, Message
    <2>2. \A k \in 1..Len(adds) : adds[k] \in Command
      BY <1>2, ElementOfSeq
    <2>3. \A k \in 1..Len(adds) : adds[k].item \in Message
      BY <2>1, <2>2
    <2>4. DOMAIN adds = 1..Len(adds) /\ Len(adds) \in Nat
      BY <1>2
    <2>5. Items(adds) = [k \in 1..Len(adds) |-> adds[k].item]
      BY <2>4 DEF Items
    <2> QED BY <2>3, <2>4, <2>5
  <1>4. AddsIn(queue) = Items(adds)
    BY DEF AddsIn, adds
  <1>5. (IF metaDue THEN <<SessionMeta>> ELSE <<>>) \in Seq(Message)
    <2>1. SessionMeta \in Message
      BY DEF Message
    <2>2. \A m \in Message : <<m>> \in Seq(Message)
      OBVIOUS
    <2>3. <<SessionMeta>> \in Seq(Message) /\ <<>> \in Seq(Message)
      BY <2>1, <2>2, EmptySeq
    <2> QED BY <2>3
  <1> HIDE DEF J
  <1>6. <<>> \in Seq(Message)
    OBVIOUS
  <1>7. \A a, b, c \in Seq(Message) : a \o b \o c \in Seq(Message)
    OBVIOUS
  <1>8. AddsIn(queue) \in Seq(Message)
    BY <1>3, <1>4
  <1> QED BY <1>1, <1>5, <1>6, <1>7, <1>8 DEF Left

LEMMA StepKeepsHand ==
    ASSUME TypeInv, WriterInv, ~FileRaces, Recording \/ WorkerStep
    PROVE  HandInv'
  <1> USE DEF fileVars, bounds, history, sqlVars, writerVars, handed
  <1>h. HandInv
    BY DEF WriterInv
  <1>n. NoWriter \in [file : Nat, next : Int, items : Seq(Message)]
    BY EmptySeq DEF NoWriter, NoFile, NoOrdinal
  <1>1. ASSUME UNCHANGED <<old, shared>>, UNCHANGED plain \/ plain = NoFile PROVE HandInv'
    BY <1>1, <1>h DEF HandInv
  <1>2. ASSUME old' = NoWriter, shared' \in BOOLEAN PROVE HandInv'
    BY <1>2, <1>n DEF HandInv
  <1>3. CASE Recording /\ ~(OldWrites \/ OldStops \/ Crash \/ Resume)
    <2>1. UNCHANGED <<old, shared>>
      BY <1>3 DEF Recording, AppendItem, Request, Discard, Project, WriterStep, Receive,
                  EnsureWriterOpen, OpenFails, WriteItem, WriteFails, WrittenAll, Answer
    <2>2. UNCHANGED plain \/ plain = NoFile
      BY <1>3, RecordingFiles
    <2> QED BY <1>1, <2>1, <2>2
  <1>4. CASE OldWrites
    <2>1. /\ old # NoWriter /\ shared' = TRUE /\ UNCHANGED plain
          /\ old' = IF Len(old.items) = 1 THEN NoWriter
                    ELSE [old EXCEPT !.next = IF Paginated THEN @ + 1 ELSE @, !.items = Tail(@)]
      BY <1>4 DEF OldWrites, OldAppends
    <2>2. CASE Len(old.items) = 1
      BY <1>2, <2>1, <2>2
    <2>3. CASE Len(old.items) # 1
      <3>1. PICK t : t = old.items
        OBVIOUS
      <3>2. t \in Seq(Message) /\ t # <<>> /\ Len(t) # 1
        BY <1>h, <2>1, <2>3, <3>1 DEF HandInv
      <3>3. Tail(t) \in Seq(Message) /\ Tail(t) # <<>>
        <4>1. Tail(t) \in Seq(Message) /\ Len(Tail(t)) = Len(t) - 1
          BY <3>2, HeadTailProperties
        <4>2. Len(t) \in Nat /\ Len(t) # 0
          BY <3>2, EmptySeq
        <4>3. Len(Tail(t)) # 0
          BY <3>2, <4>1, <4>2
        <4> QED BY <4>1, <4>3, EmptySeq
      <3>4. PICK n : n = IF Paginated THEN old.next + 1 ELSE old.next
        OBVIOUS
      <3>5. /\ old \in [file : Nat, next : Int, items : Seq(Message)] /\ n \in Int
            /\ old' = [old EXCEPT !.next = n, !.items = Tail(t)]
        BY <1>h, <2>1, <2>3, <3>1, <3>4 DEF HandInv
      <3>6. /\ old'.file = old.file /\ old'.items = Tail(t)
            /\ old' \in [file : Nat, next : Int, items : Seq(Message)]
        BY <3>3, <3>5
      <3> QED BY <1>h, <2>1, <3>3, <3>6 DEF HandInv
    <2> QED BY <2>2, <2>3
  <1>5. CASE OldStops \/ Crash
    <2>1. old' = NoWriter /\ (shared' = shared \/ shared' = TRUE)
      BY <1>5 DEF OldStops, OldAppends, Crash
    <2> QED BY <1>2, <1>h, <2>1 DEF HandInv
  <1>6. CASE Resume
    <2>1. /\ OpenPlain(FALSE) /\ UNCHANGED shared
          /\ \/ UNCHANGED old
             \/ /\ Left # <<>>
                /\ old' = [file |-> IF fd # NoFile THEN fd ELSE plain', next |-> next,
                           items |-> Left]
      BY <1>6 DEF Resume
    <2>2. CASE UNCHANGED old
      <3>1. UNCHANGED plain \/ plain = NoFile
        BY <2>1, FilesOpened
      <3> QED BY <1>1, <2>1, <2>2, <3>1
    <2>3. CASE ~UNCHANGED old
      <3>1. Left # <<>> /\ Left \in Seq(Message) /\ next \in Int
        BY <2>1, <2>3, LeftAre DEF TypeInv, LinesTyped
      <3>2. plain' \in 1..Len(inode') /\ (plain # NoFile => plain' = plain)
        BY <2>1, FilesOpened
      <3>3. fd # NoFile => fd = plain
        BY DEF WriterInv
      <3>4. /\ old' \in [file : Nat, next : Int, items : Seq(Message)]
            /\ old'.file = plain' /\ old'.items = Left
        <4>1. PICK f : f = IF fd # NoFile THEN fd ELSE plain'
          OBVIOUS
        <4>2. f = plain' /\ f \in Nat
          BY <3>2, <3>3, <4>1 DEF NoFile
        <4>3. old' = [file |-> f, next |-> next, items |-> Left]
          BY <2>1, <2>3, <4>1
        <4> QED BY <3>1, <4>2, <4>3
      <3>5. plain' # NoFile
        BY <3>2 DEF NoFile
      <3> QED BY <1>h, <2>1, <3>1, <3>4, <3>5 DEF HandInv
    <2> QED BY <2>2, <2>3
  <1>7. CASE WorkerStep
    <2>1. UNCHANGED <<old, shared>>
      BY <1>7 DEF WorkerStep, JobStat, JobEncode, JobPersist, JobCheck, JobUnlink, JobFails
    <2>2. UNCHANGED plain \/ old.file # plain
      BY <1>7 DEF WorkerStep, JobStat, JobEncode, JobPersist, JobCheck, JobUnlink, JobFails
    <2> QED BY <1>h, <2>1, <2>2 DEF HandInv
  <1> QED BY <1>3, <1>4, <1>5, <1>6, <1>7

LEMMA WriterStepKeepsWriter ==
    ASSUME TypeInv, WriterInv, WriterStep, HandInv'
    PROVE  WriterInv'
  <1> USE DEF fileVars, bounds, history, sqlVars
  <1>0. LinesTyped
    BY DEF TypeInv
  <1>1. CASE Receive
    <2>1. /\ UNCHANGED <<inode, plain, zst, fd>> /\ cmd' = Head(queue)
          /\ step' \in {"answer", "open"}
          /\ step' = "answer" /\ Head(queue).op # "Add" => pending' = <<>>
      BY <1>1 DEF Receive
    <2> QED BY <2>1, EndedAfter DEF WriterInv
  <1>2. CASE EnsureWriterOpen
    <2>1. /\ step = "open" /\ step' = "meta"
          /\ \/ fd # NoFile /\ UNCHANGED <<inode, plain, zst, fd>>
             \/ OpenPlain(FALSE) /\ fd' = plain'
      BY <1>2 DEF EnsureWriterOpen
    <2>2. CASE fd # NoFile /\ UNCHANGED <<inode, plain, zst, fd>>
      BY <2>1, <2>2, EndedAfter DEF WriterInv
    <2>3. CASE OpenPlain(FALSE) /\ fd' = plain'
      <3>1. plain' \in 1..Len(inode') /\ Ended(inode'[plain'])
        BY <2>3, FilesOpened
      <3>2. plain' # NoFile
        BY <3>1 DEF NoFile
      <3> QED BY <2>1, <2>3, <3>1, <3>2, EndedAfter DEF WriterInv
    <2> QED BY <2>1, <2>2, <2>3
  <1>3. CASE OpenFails \/ WriteFails
    <2>1. /\ fd' = NoFile /\ step' \in {"open", "recv"}
      BY <1>3 DEF OpenFails, WriteFails, Recover, HasDue
    <2> QED BY <2>1, EndedAfter DEF WriterInv
  <1>4. CASE WriteItem
    <2>1. /\ HasDue /\ WriteTo(fd, Record(TRUE, TRUE)) /\ UNCHANGED <<plain, fd, cmd>>
          /\ step' \in {"meta", "items"} /\ step \in {"meta", "items"}
      BY <1>4 DEF WriteItem, HasDue
    <2>2. fd = plain /\ Ended(inode'[fd])
      BY <1>0, <2>1, WritesWell
    <2> QED BY <2>1, <2>2, EndedAfter DEF WriterInv
  <1>5. CASE WrittenAll
    <2>1. /\ UNCHANGED <<inode, plain, zst, fd, pending, cmd>>
          /\ step \in {"meta", "items"}
          /\ step' = "items" \/ (step' = "answer" /\ pending = <<>>)
      BY <1>5 DEF WrittenAll
    <2> QED BY <2>1, EndedAfter DEF WriterInv
  <1>6. CASE Answer
    <2>1. /\ UNCHANGED <<inode, plain, zst>> /\ step' = "recv"
          /\ UNCHANGED fd \/ fd' = NoFile
      BY <1>6 DEF Answer, Gone
    <2> QED BY <2>1, EndedAfter DEF WriterInv
  <1> QED BY <1>1, <1>2, <1>3, <1>4, <1>5, <1>6 DEF WriterStep

LEMMA StepKeepsWriter ==
    ASSUME TypeInv, WriterInv, JobInv, ~FileRaces, Recording \/ WorkerStep
    PROVE  WriterInv'
  <1> USE DEF fileVars, bounds, history, sqlVars, writerVars
  <1>0. LinesTyped
    BY DEF TypeInv
  <1>h. HandInv'
    BY StepKeepsHand
  <1>1. ASSUME UNCHANGED <<fd, step, cmd, pending>>,
               fd # NoFile => UNCHANGED plain /\ inode'[fd] = inode[fd]
        PROVE  WriterInv'
    BY <1>1, <1>h, EndedAfter DEF WriterInv
  <1>2. CASE AppendItem \/ (\E op \in {"Persist", "Flush", "Shutdown"} : Request(op)) \/ Project
    BY <1>1, <1>2 DEF AppendItem, Request, Project
  <1>3. CASE Crash
    BY <1>3, <1>h, EndedAfter DEF Crash, Gone
  <1>4. CASE Resume
    <2>1. /\ OpenPlain(FALSE)
          /\ \/ fd' = plain' /\ step' = "recv"
             \/ UNCHANGED <<fd, step, cmd, pending>>
      BY <1>4 DEF Resume
    <2>2. /\ plain' \in 1..Len(inode') /\ Ended(inode'[plain'])
          /\ plain # NoFile => UNCHANGED plain
      BY <2>1, FilesOpened
    <2>3. plain' # NoFile
      BY <2>2 DEF NoFile
    <2> QED BY <1>h, <2>1, <2>2, <2>3, EndedAfter DEF WriterInv
  <1>7. CASE Discard
    <2>1. /\ UNCHANGED <<inode, plain>>
          /\ \/ fd' = NoFile /\ step' = "recv"
             \/ UNCHANGED <<fd, step, cmd, pending>>
      BY <1>7 DEF Discard, Gone
    <2> QED BY <1>h, <2>1, EndedAfter DEF WriterInv
  <1>8. CASE OldWrites \/ OldStops
    <2>1. /\ UNCHANGED <<plain, fd, step, cmd, pending>>
          /\ UNCHANGED inode \/ OldAppends(TRUE, TRUE)
      BY <1>8 DEF OldWrites, OldStops
    <2>2. UNCHANGED inode \/ Ended(inode'[plain])
      BY <2>1, OldWritesWell
    <2> QED BY <1>h, <2>1, <2>2, EndedAfter DEF WriterInv
  <1>5. CASE WriterStep
    BY <1>5, <1>h, WriterStepKeepsWriter
  <1>6. CASE WorkerStep
    <2>1. UNCHANGED <<fd, step, cmd, pending>>
      BY <1>6 DEF WorkerStep, JobStat, JobEncode, JobPersist, JobCheck, JobUnlink, JobFails
    <2>2. \A k \in 1..Len(inode) : inode'[k] = inode[k]
      BY <1>6, WorkerTyped
    <2>3. UNCHANGED plain \/ fd # plain
      BY <1>6 DEF WorkerStep, JobStat, JobEncode, JobPersist, JobCheck, JobUnlink, JobFails
    <2>4. fd # NoFile => fd \in 1..Len(inode) /\ fd = plain
      BY <1>0 DEF TypeInv, NamesTyped, NoFile, WriterInv, LinesTyped, FilesTyped
    <2> QED BY <1>1, <2>1, <2>2, <2>3, <2>4
  <1> QED BY <1>2, <1>3, <1>4, <1>5, <1>6, <1>7, <1>8 DEF Recording

-----------------------------------------------------------------------------
(* What was taken off the channel. *)

Pending == {pending[i] : i \in DOMAIN pending}

LEMMA PendingAppended ==
    ASSUME pending \in Seq(Message), NEW m, pending' = Append(pending, m)
    PROVE  Pending' = Pending \cup {m}
  <1> DEFINE n == Len(pending)
  <1>1. /\ n \in Nat /\ DOMAIN pending = 1..n /\ DOMAIN pending' = 1..(n + 1)
        /\ \A i \in 1..n : pending'[i] = pending[i]
        /\ pending'[n + 1] = m
    OBVIOUS
  <1> QED BY <1>1 DEF Pending

LEMMA PendingTaken ==
    ASSUME pending \in Seq(Message), pending # <<>>, pending' = Tail(pending)
    PROVE  Pending \subseteq Pending' \cup {Head(pending)}
  <1> DEFINE n == Len(pending)
  <1>1. /\ n \in Nat \ {0} /\ DOMAIN pending = 1..n /\ DOMAIN pending' = 1..(n - 1)
        /\ Head(pending) = pending[1]
        /\ \A i \in 1..(n - 1) : pending'[i] = pending[i + 1]
    BY HeadTailProperties
  <1> SUFFICES ASSUME NEW i \in 1..n PROVE pending[i] \in Pending' \cup {Head(pending)}
    BY <1>1 DEF Pending
  <1>2. CASE i = 1
    BY <1>1, <1>2
  <1>3. CASE i # 1
    <2>1. i - 1 \in 1..(n - 1) /\ pending'[i - 1] = pending[i]
      BY <1>1, <1>3
    <2> QED BY <1>1, <2>1 DEF Pending
  <1> QED BY <1>2, <1>3

(* The recorder is live, its writer is at work, or has not written all     *)
(* that it took.                                                           *)
Alive == up \/ ~Idle \/ pending # <<>>

LEMMA AtWork == up \/ step # "recv" \/ queue # <<>> \/ HasDue => Alive
  BY DEF Alive, Idle, HasDue

KeptInv == (Alive => taken \subseteq ItemsIn(Readable) \cup Pending) /\ AckedReadable

LEMMA KeptAfter ==
    ASSUME Alive' => taken' \subseteq ItemsIn(Readable') \cup Pending',
           acked' \subseteq ItemsIn(Readable')
    PROVE  KeptInv'
  <1>1. ItemsIn(Readable)' = ItemsIn(Readable')
    BY DEF ItemsIn, WholeLines
  <1> QED BY <1>1 DEF KeptInv, AckedReadable

LEMMA StepKeepsItems ==
    ASSUME TypeInv, TypeInv', WriterInv, JobInv, KeptInv, ~FileRaces, Recording \/ WorkerStep
    PROVE  KeptInv'
  <1> USE DEF fileVars, bounds, history, sqlVars, writerVars
  <1>0. LinesTyped
    BY DEF TypeInv
  <1>a. ItemsIn(Readable) \subseteq ItemsIn(Readable')
    BY ReadableGrows
  <1>b. pending \in Seq(Message)
    BY DEF TypeInv
  <1>1. ASSUME UNCHANGED acked, Alive' => Alive /\ UNCHANGED <<taken, pending>> PROVE KeptInv'
    BY <1>1, <1>a, KeptAfter DEF KeptInv, AckedReadable, Pending
  <1>c. ASSUME UNCHANGED acked, taken' = {} PROVE KeptInv'
    BY <1>a, <1>c, KeptAfter DEF KeptInv, AckedReadable
  <1>2. CASE Receive
    <2>1. /\ queue # <<>> /\ UNCHANGED acked
          /\ \/ /\ pending' = Append(pending, Head(queue).item)
                /\ taken' = taken \cup {Head(queue).item}
             \/ UNCHANGED <<pending, taken>>
      BY <1>2 DEF Receive
    <2>4. Alive
      BY <2>1, AtWork
    <2>2. CASE UNCHANGED <<pending, taken>>
      BY <1>1, <2>1, <2>2, <2>4
    <2>3. CASE /\ pending' = Append(pending, Head(queue).item)
               /\ taken' = taken \cup {Head(queue).item}
      <3>1. Pending' = Pending \cup {Head(queue).item}
        BY <1>b, <2>3, PendingAppended
      <3> QED BY <1>a, <2>1, <2>3, <2>4, <3>1, KeptAfter DEF KeptInv, AckedReadable
    <2> QED BY <2>1, <2>2, <2>3
  <1>3. CASE WriteItem
    <2>1. /\ HasDue /\ WriteTo(fd, Record(TRUE, TRUE)) /\ UNCHANGED <<taken, acked, plain>>
          /\ \/ UNCHANGED pending
             \/ step = "items" /\ pending # <<>> /\ pending' = Tail(pending)
      BY <1>3 DEF WriteItem, HasDue
    <2>4. Alive
      BY <2>1, AtWork
    <2>2. CASE UNCHANGED pending
      BY <1>1, <2>1, <2>2, <2>4
    <2>3. CASE step = "items" /\ pending # <<>> /\ pending' = Tail(pending)
      <3>1. Due = Head(pending) /\ Pending \subseteq Pending' \cup {Head(pending)}
        BY <1>b, <2>3, PendingTaken DEF Due
      <3>2. fd # NoFile /\ fd = plain /\ Due \in ItemsIn(inode'[fd])
        BY <1>0, <2>1, WritesWell
      <3>3. Head(pending) \in ItemsIn(Readable')
        BY <2>1, <3>1, <3>2, ReadableAfter
      <3> QED BY <1>a, <2>1, <2>4, <3>1, <3>3, KeptAfter DEF KeptInv, AckedReadable
    <2> QED BY <2>1, <2>2, <2>3
  <1>4. CASE Answer
    <2>1. /\ step = "answer" /\ (taken' = {} \/ UNCHANGED <<pending, taken>>)
          /\ acked' = IF cmd.op = "Add" THEN acked ELSE acked \cup taken
      BY <1>4 DEF Answer, Gone
    <2>2. Alive
      BY <2>1, AtWork
    <2>3. CASE cmd.op = "Add"
      BY <1>1, <1>c, <2>1, <2>2, <2>3
    <2>4. CASE cmd.op # "Add"
      <3>1. pending = <<>>
        BY <2>1, <2>4 DEF WriterInv
      <3>2. Pending = {}
        BY <3>1 DEF Pending
      <3>3. taken \subseteq ItemsIn(Readable)
        BY <2>2, <3>2 DEF KeptInv
      <3>4. taken' \subseteq ItemsIn(Readable')
        BY <1>a, <2>1, <3>3
      <3> QED BY <1>a, <2>1, <2>4, <3>3, <3>4, KeptAfter DEF KeptInv, AckedReadable
    <2> QED BY <2>3, <2>4
  <1>5. CASE Resume
    <2>1. UNCHANGED acked /\ (taken' = {} \/ UNCHANGED <<up, step, queue, pending, taken>>)
      BY <1>5 DEF Resume
    <2> QED BY <1>1, <1>c, <2>1 DEF Alive, Idle
  <1>6. CASE Crash
    BY <1>6, <1>c DEF Crash, Gone
  <1>9. CASE Discard
    <2>1. up /\ UNCHANGED acked /\ (taken' = {} \/ UNCHANGED <<pending, taken>>)
      BY <1>9 DEF Discard, Gone
    <2> QED BY <1>1, <1>c, <2>1, AtWork
  <1>10. CASE OldWrites \/ OldStops \/ Project
    <2>1. UNCHANGED <<acked, taken, pending, up, step, queue>>
      BY <1>10 DEF OldWrites, OldStops, Project
    <2> QED BY <1>1, <2>1 DEF Alive, Idle
  <1>7. CASE \/ AppendItem \/ (\E op \in {"Persist", "Flush", "Shutdown"} : Request(op))
             \/ EnsureWriterOpen \/ OpenFails \/ WriteFails \/ WrittenAll
    <2>1. UNCHANGED <<acked, taken, pending>> /\ (up \/ step # "recv")
      BY <1>7 DEF AppendItem, Request, EnsureWriterOpen, OpenFails, WriteFails, WrittenAll, HasDue
    <2> QED BY <1>1, <2>1, AtWork
  <1>8. CASE WorkerStep
    <2>1. UNCHANGED <<acked, taken, pending, up, step, queue>>
      BY <1>8 DEF WorkerStep, JobStat, JobEncode, JobPersist, JobCheck, JobUnlink, JobFails
    <2> QED BY <1>1, <2>1 DEF Alive, Idle
  <1> QED BY <1>2, <1>3, <1>4, <1>5, <1>6, <1>7, <1>8, <1>9, <1>10 DEF Recording, WriterStep

-----------------------------------------------------------------------------
(* Items on their way to the file, in the order in which they were made.   *)

AddsAt(q) == {j \in DOMAIN q : q[j].op = "Add"}
AddsOf(q) == {q[j].item : j \in AddsAt(q)}
Ascending(s) == \A i, j \in DOMAIN s : i < j => s[i] < s[j]
AscendingAdds(q) == \A i, j \in AddsAt(q) : i < j => q[i].item < q[j].item

LEMMA MessagesAppended ==
    ASSUME NEW s \in Seq(Message), NEW m \in Message
    PROVE  /\ Range(Append(s, m)) = Range(s) \cup {m}
           /\ Ascending(s) /\ (\A p \in Range(s) : p < m) => Ascending(Append(s, m))
           /\ s # <<>> => Append(s, m) # <<>> /\ Head(Append(s, m)) = Head(s)
  <1> DEFINE n == Len(s)
             t == Append(s, m)
  <1>1. /\ n \in Nat /\ t \in Seq(Message) /\ Len(t) = n + 1 /\ t[n + 1] = m /\ t # <<>>
        /\ \A i \in 1..n : t[i] = s[i]
        /\ DOMAIN s = 1..n /\ DOMAIN t = 1..(n + 1)
    BY AppendProperties
  <1>2. s # <<>> => n >= 1 /\ Head(s) = s[1]
    OBVIOUS
  <1>3. Head(t) = t[1]
    BY <1>1
  <1> HIDE DEF n, t
  <1>4. Range(t) = Range(s) \cup {m}
    <2>1. \A i \in 1..(n + 1) : t[i] \in Range(s) \cup {m}
      BY <1>1 DEF Range
    <2>2. \A i \in 1..n : s[i] \in Range(t)
      BY <1>1 DEF Range
    <2>3. m \in Range(t)
      BY <1>1 DEF Range
    <2> QED BY <1>1, <2>1, <2>2, <2>3 DEF Range
  <1>5. ASSUME Ascending(s), \A p \in Range(s) : p < m PROVE Ascending(t)
    <2> SUFFICES ASSUME NEW i \in 1..(n + 1), NEW j \in 1..(n + 1), i < j PROVE t[i] < t[j]
      BY <1>1 DEF Ascending
    <2>1. i \in 1..n /\ t[i] = s[i] /\ s[i] \in Range(s)
      BY <1>1 DEF Range
    <2>2. CASE j = n + 1
      BY <1>1, <1>5, <2>1, <2>2
    <2>3. CASE j \in 1..n
      BY <1>1, <1>5, <2>1, <2>3 DEF Ascending
    <2> QED BY <1>1, <2>2, <2>3
  <1>6. s # <<>> => t # <<>> /\ Head(t) = Head(s)
    BY <1>1, <1>2, <1>3
  <1> QED BY <1>4, <1>5, <1>6 DEF t

LEMMA MessageTaken ==
    ASSUME NEW s \in Seq(Message), s # <<>>, Ascending(s)
    PROVE  /\ Range(Tail(s)) = Range(s) \ {Head(s)} /\ Head(s) \in Range(s)
           /\ Ascending(Tail(s)) /\ \A p \in Range(Tail(s)) : Head(s) < p
  <1> DEFINE n == Len(s)
             t == Tail(s)
  <1>1. /\ n \in Nat \ {0} /\ t \in Seq(Message) /\ Len(t) = n - 1
        /\ \A i \in 1..(n - 1) : t[i] = s[i + 1]
        /\ DOMAIN s = 1..n /\ DOMAIN t = 1..(n - 1) /\ Head(s) = s[1]
        /\ \A i \in 1..n : s[i] \in Int
    BY HeadTailProperties, ElementOfSeq DEF Message, Item, SessionMeta
  <1> HIDE DEF n, t
  <1>2. Head(s) \in Range(s)
    BY <1>1 DEF Range
  <1>3. ASSUME NEW i \in 1..(n - 1) PROVE Head(s) < t[i] /\ t[i] \in Range(s)
    <2>1. 1 \in 1..n /\ i + 1 \in 1..n /\ 1 < i + 1
      BY <1>1
    <2>2. s[1] < s[i + 1]
      BY <1>1, <2>1 DEF Ascending
    <2> QED BY <1>1, <2>1, <2>2 DEF Range
  <1>4. \A p \in Range(t) : Head(s) < p /\ p \in Range(s)
    BY <1>1, <1>3 DEF Range
  <1>5. ASSUME NEW i \in 1..n, i # 1 PROVE s[i] \in Range(t)
    <2>1. i - 1 \in 1..(n - 1) /\ t[i - 1] = s[i]
      BY <1>1, <1>5
    <2> QED BY <1>1, <2>1 DEF Range
  <1>6. \A p \in Range(t) : p \in Int
    BY <1>1 DEF Range
  <1>7. Head(s) \in Int
    BY <1>1
  <1>8. Range(s) = {s[i] : i \in 1..n}
    BY <1>1 DEF Range
  <1>9. Range(t) = Range(s) \ {Head(s)}
    BY <1>1, <1>4, <1>5, <1>6, <1>7, <1>8
  <1>10. Ascending(t)
    <2> SUFFICES ASSUME NEW i \in 1..(n - 1), NEW j \in 1..(n - 1), i < j PROVE t[i] < t[j]
      BY <1>1 DEF Ascending
    <2>1. i + 1 \in 1..n /\ j + 1 \in 1..n /\ i + 1 < j + 1
      BY <1>1
    <2>2. s[i + 1] < s[j + 1]
      BY <1>1, <2>1 DEF Ascending
    <2> QED BY <1>1, <2>2
  <1> QED BY <1>2, <1>4, <1>9, <1>10 DEF t

LEMMA CommandAppended ==
    ASSUME NEW q \in Seq(Command), NEW c \in Command
    PROVE  /\ AddsOf(Append(q, c)) = IF c.op = "Add" THEN AddsOf(q) \cup {c.item} ELSE AddsOf(q)
           /\ (c.op = "Add" => \A a \in AddsOf(q) : a < c.item) =>
                 (AscendingAdds(q) => AscendingAdds(Append(q, c)))
  <1> DEFINE n == Len(q)
             t == Append(q, c)
  <1>1. /\ n \in Nat /\ t \in Seq(Command) /\ Len(t) = n + 1 /\ t[n + 1] = c
        /\ \A i \in 1..n : t[i] = q[i]
        /\ DOMAIN q = 1..n /\ DOMAIN t = 1..(n + 1)
    BY AppendProperties
  <1> HIDE DEF n, t
  <1>2. AddsAt(q) \subseteq 1..n
    BY <1>1 DEF AddsAt
  <1>3. AddsAt(t) = IF c.op = "Add" THEN AddsAt(q) \cup {n + 1} ELSE AddsAt(q)
    <2>1. 1..(n + 1) = (1..n) \cup {n + 1} /\ n + 1 \notin 1..n
      BY <1>1
    <2> QED BY <1>1, <2>1 DEF AddsAt
  <1>4. \A j \in AddsAt(q) : t[j] = q[j]
    BY <1>1, <1>2
  <1>5. AddsOf(t) = IF c.op = "Add" THEN AddsOf(q) \cup {c.item} ELSE AddsOf(q)
    BY <1>1, <1>3, <1>4 DEF AddsOf
  <1>6. ASSUME c.op = "Add" => \A a \in AddsOf(q) : a < c.item, AscendingAdds(q)
        PROVE  AscendingAdds(t)
    <2> SUFFICES ASSUME NEW i \in AddsAt(t), NEW j \in AddsAt(t), i < j
                 PROVE  t[i].item < t[j].item
      BY DEF AscendingAdds
    <2>1. i \in AddsAt(q)
      BY <1>1, <1>2, <1>3
    <2>2. CASE j \in AddsAt(q)
      BY <1>4, <1>6, <2>1, <2>2 DEF AscendingAdds
    <2>3. CASE j \notin AddsAt(q)
      <3>1. j = n + 1 /\ c.op = "Add"
        BY <1>3, <2>3
      <3>2. q[i].item \in AddsOf(q)
        BY <2>1 DEF AddsOf
      <3> QED BY <1>1, <1>4, <1>6, <2>1, <3>1, <3>2
    <2> QED BY <2>2, <2>3
  <1> QED BY <1>5, <1>6 DEF t

LEMMA CommandTaken ==
    ASSUME NEW q \in Seq(Command), q # <<>>, AscendingAdds(q)
    PROVE  /\ Head(q) \in Command /\ Tail(q) \in Seq(Command) /\ AscendingAdds(Tail(q))
           /\ AddsOf(q) = IF Head(q).op = "Add" THEN AddsOf(Tail(q)) \cup {Head(q).item}
                          ELSE AddsOf(Tail(q))
           /\ Head(q).op = "Add" => \A a \in AddsOf(Tail(q)) : Head(q).item < a
  <1> DEFINE n == Len(q)
             t == Tail(q)
  <1>1. /\ n \in Nat \ {0} /\ t \in Seq(Command) /\ Len(t) = n - 1 /\ Head(q) \in Command
        /\ \A i \in 1..(n - 1) : t[i] = q[i + 1]
        /\ DOMAIN q = 1..n /\ DOMAIN t = 1..(n - 1) /\ Head(q) = q[1]
    BY HeadTailProperties
  <1> HIDE DEF n, t
  <1>2. \A j \in 1..(n - 1) : j \in AddsAt(t) <=> j + 1 \in AddsAt(q)
    BY <1>1 DEF AddsAt
  <1>3. AddsAt(t) \subseteq 1..(n - 1) /\ AddsAt(q) \subseteq 1..n
    BY <1>1 DEF AddsAt
  <1>4. Head(q).op = "Add" <=> 1 \in AddsAt(q)
    BY <1>1 DEF AddsAt
  <1>5. \A j \in AddsAt(t) : j + 1 \in AddsAt(q) /\ t[j] = q[j + 1] /\ 1 < j + 1
    BY <1>1, <1>2, <1>3
  <1>6. AscendingAdds(t)
    <2> SUFFICES ASSUME NEW i \in AddsAt(t), NEW j \in AddsAt(t), i < j
                 PROVE  t[i].item < t[j].item
      BY DEF AscendingAdds
    <2>1. i + 1 < j + 1
      BY <1>3
    <2> QED BY <1>5, <2>1 DEF AscendingAdds
  <1>7. AddsOf(t) \subseteq AddsOf(q)
    BY <1>5 DEF AddsOf
  <1>8. \A j \in AddsAt(q) : j # 1 => q[j].item \in AddsOf(t)
    <2> SUFFICES ASSUME NEW j \in AddsAt(q), j # 1 PROVE q[j].item \in AddsOf(t)
      OBVIOUS
    <2>1. j - 1 \in 1..(n - 1) /\ (j - 1) + 1 = j
      BY <1>1, <1>3
    <2>2. j - 1 \in AddsAt(t) /\ t[j - 1] = q[j]
      BY <1>1, <1>2, <2>1
    <2> QED BY <2>2 DEF AddsOf
  <1>9. AddsOf(q) = IF Head(q).op = "Add" THEN AddsOf(t) \cup {Head(q).item} ELSE AddsOf(t)
    <2>1. CASE Head(q).op = "Add"
      <3>1. Head(q).item \in AddsOf(q)
        BY <1>1, <1>4, <2>1 DEF AddsOf
      <3>2. \A x \in AddsOf(q) : x \in AddsOf(t) \cup {Head(q).item}
        BY <1>1, <1>8 DEF AddsOf
      <3> QED BY <1>7, <2>1, <3>1, <3>2
    <2>2. CASE Head(q).op # "Add"
      <3>1. \A x \in AddsOf(q) : x \in AddsOf(t)
        BY <1>4, <1>8, <2>2 DEF AddsOf
      <3> QED BY <1>7, <2>2, <3>1
    <2> QED BY <2>1, <2>2
  <1>10. ASSUME Head(q).op = "Add" PROVE \A a \in AddsOf(t) : Head(q).item < a
    <2>1. \A j \in AddsAt(t) : q[1].item < q[j + 1].item
      BY <1>4, <1>5, <1>10 DEF AscendingAdds
    <2> QED BY <1>1, <1>5, <2>1 DEF AddsOf
  <1> QED BY <1>1, <1>6, <1>9, <1>10 DEF t

LEMMA TwoAppended ==
    ASSUME NEW q \in Seq(Command), NEW b \in Command, NEW c \in Command
    PROVE  q \o <<b, c>> = Append(Append(q, b), c)
  <1>1. /\ <<b, c>> \in Seq(Command) /\ Len(<<b, c>>) = 2
        /\ <<b, c>>[1] = b /\ <<b, c>>[2] = c /\ Len(q) \in Nat
    OBVIOUS
  <1>2. /\ q \o <<b, c>> \in Seq(Command) /\ Len(q \o <<b, c>>) = Len(q) + 2
        /\ \A i \in 1..(Len(q) + 2) :
              (q \o <<b, c>>)[i] = IF i <= Len(q) THEN q[i] ELSE <<b, c>>[i - Len(q)]
    BY <1>1, ConcatProperties
  <1>3. /\ Append(q, b) \in Seq(Command) /\ Len(Append(q, b)) = Len(q) + 1
        /\ \A i \in 1..Len(q) : Append(q, b)[i] = q[i]
        /\ Append(q, b)[Len(q) + 1] = b
    BY AppendProperties
  <1> DEFINE t == Append(Append(q, b), c)
  <1>4. /\ t \in Seq(Command) /\ Len(t) = Len(q) + 2
        /\ \A i \in 1..(Len(q) + 1) : t[i] = Append(q, b)[i]
        /\ t[Len(q) + 2] = c
    BY <1>1, <1>3, AppendProperties
  <1> HIDE DEF t
  <1>5. ASSUME NEW i \in 1..(Len(q) + 2) PROVE (q \o <<b, c>>)[i] = t[i]
    <2>1. CASE i \in 1..Len(q)
      BY <1>1, <1>2, <1>3, <1>4, <2>1
    <2>2. CASE i = Len(q) + 1
      <3>1. ~(i <= Len(q)) /\ i - Len(q) = 1
        BY <1>1, <2>2
      <3> QED BY <1>1, <1>2, <1>3, <1>4, <2>2, <3>1
    <2>3. CASE i = Len(q) + 2
      <3>1. ~(i <= Len(q)) /\ i - Len(q) = 2
        BY <1>1, <2>3
      <3> QED BY <1>1, <1>2, <1>4, <2>3, <3>1
    <2> QED BY <1>1, <2>1, <2>2, <2>3
  <1>6. q \o <<b, c>> = t
    BY <1>1, <1>2, <1>4, <1>5, SeqEqual
  <1> QED BY <1>6 DEF t

Coming == Range(pending) \cup AddsOf(queue)

OrderInv ==
    /\ Ascending(pending) /\ AscendingAdds(queue)
    /\ \A p \in Range(pending), a \in AddsOf(queue) : p < a
    /\ Coming \subseteq 1..recorded
    /\ step = "items" => ~metaDue

LEMMA NothingComing ==
    /\ Range(<<>>) = {} /\ AddsOf(<<>>) = {} /\ Ascending(<<>>) /\ AscendingAdds(<<>>)
  BY DEF Range, AddsOf, AddsAt, Ascending, AscendingAdds

LEMMA OrderAfter ==
    ASSUME Ascending(pending'), AscendingAdds(queue'),
           \A p \in Range(pending'), a \in AddsOf(queue') : p < a,
           Range(pending') \cup AddsOf(queue') \subseteq 1..recorded',
           step' = "items" => ~metaDue'
    PROVE  OrderInv'
  <1>1. /\ Ascending(pending)' <=> Ascending(pending')
        /\ AscendingAdds(queue)' <=> AscendingAdds(queue')
        /\ Range(pending)' = Range(pending') /\ AddsOf(queue)' = AddsOf(queue')
    BY DEF Ascending, AscendingAdds, Range, AddsOf, AddsAt
  <1> QED BY <1>1 DEF OrderInv, Coming

LEMMA StepKeepsOrder ==
    ASSUME TypeInv, OrderInv, Recording \/ WorkerStep
    PROVE  OrderInv'
  <1> USE DEF fileVars, bounds, history, sqlVars, writerVars
  <1>a. /\ pending \in Seq(Message) /\ queue \in Seq(Command) /\ recorded \in Nat
    BY DEF TypeInv
  <1>b. \A x \in Range(pending) \cup AddsOf(queue) : x \in 1..recorded
    BY DEF OrderInv, Coming
  <1>1. ASSUME UNCHANGED <<pending, queue, recorded>>,
               step' = "items" => ~metaDue'
        PROVE  OrderInv'
    BY <1>1, OrderAfter DEF OrderInv, Coming
  <1>c. ASSUME pending' = <<>>, queue' = <<>>, step' = "recv" PROVE OrderInv'
    <2>1. Range(pending') = {} /\ AddsOf(queue') = {}
      BY <1>c, NothingComing
    <2> QED BY <1>c, <2>1, NothingComing, OrderAfter
  <1>2. CASE AppendItem
    <2> DEFINE i == recorded + 1
               q == Append(queue, Add(i))
    <2>1. /\ recorded' = i /\ i \in Item /\ queue' = queue \o <<Add(i), Barrier("Flush")>>
          /\ UNCHANGED <<pending, step, metaDue>>
      BY <1>2 DEF AppendItem
    <2>2. Add(i) \in Command /\ Barrier("Flush") \in Command
      BY <2>1, CommandsTyped
    <2>3. Add(i).op = "Add" /\ Add(i).item = i /\ Barrier("Flush").op # "Add"
      BY DEF Add, Barrier
    <2> HIDE DEF i
    <2>4. queue' = Append(q, Barrier("Flush"))
      BY <1>a, <2>1, <2>2, TwoAppended
    <2>5. q \in Seq(Command)
      BY <1>a, <2>2, AppendProperties
    <2>6. \A x \in Range(pending) \cup AddsOf(queue) : x < i
      BY <1>a, <1>b DEF i
    <2>7. AddsOf(q) = AddsOf(queue) \cup {i} /\ AscendingAdds(q)
      BY <1>a, <2>2, <2>3, <2>6, CommandAppended DEF OrderInv
    <2>8. AddsOf(queue') = AddsOf(queue) \cup {i} /\ AscendingAdds(queue')
      <3> HIDE DEF q
      <3> QED BY <2>2, <2>3, <2>4, <2>5, <2>7, CommandAppended
    <2>9. \A p \in Range(pending), x \in AddsOf(queue) \cup {i} : p < x
      BY <2>6 DEF OrderInv
    <2>10. Range(pending) \cup AddsOf(queue) \cup {i} \subseteq 1..i
      BY <1>a, <1>b DEF i
    <2> QED BY <2>1, <2>8, <2>9, <2>10, OrderAfter DEF OrderInv
  <1>3. ASSUME NEW op \in {"Persist", "Flush", "Shutdown"}, Request(op) PROVE OrderInv'
    <2>1. queue' = Append(queue, Barrier(op)) /\ UNCHANGED <<pending, step, metaDue, recorded>>
      BY <1>3 DEF Request
    <2>2. Barrier(op) \in Command /\ Barrier(op).op # "Add"
      BY CommandsTyped DEF Barrier
    <2>3. AddsOf(queue') = AddsOf(queue) /\ AscendingAdds(queue')
      BY <1>a, <2>1, <2>2, CommandAppended DEF OrderInv
    <2> QED BY <2>1, <2>3, OrderAfter DEF OrderInv, Coming
  <1>4. CASE Receive
    <2> DEFINE c == Head(queue)
    <2>1. /\ queue # <<>> /\ queue' = Tail(queue) /\ UNCHANGED <<recorded, metaDue>>
          /\ pending' = IF c.op = "Add" THEN Append(pending, c.item) ELSE pending
          /\ step' # "items"
      BY <1>4 DEF Receive
    <2>2. /\ c \in Command /\ AscendingAdds(Tail(queue))
          /\ AddsOf(queue) = IF c.op = "Add" THEN AddsOf(Tail(queue)) \cup {c.item}
                             ELSE AddsOf(Tail(queue))
          /\ c.op = "Add" => \A a \in AddsOf(Tail(queue)) : c.item < a
      BY <1>a, <2>1, CommandTaken DEF OrderInv
    <2>3. c.item \in Message
      BY <2>2 DEF Command, Message
    <2> HIDE DEF c
    <2>4. CASE c.op = "Add"
      <3>1. \A p \in Range(pending) : p < c.item
        BY <2>2, <2>4 DEF OrderInv
      <3>2. Range(pending') = Range(pending) \cup {c.item} /\ Ascending(pending')
        BY <1>a, <2>1, <2>3, <2>4, <3>1, MessagesAppended DEF OrderInv
      <3>3. \A p \in Range(pending'), a \in AddsOf(queue') : p < a
        BY <2>1, <2>2, <2>4, <3>2 DEF OrderInv
      <3>4. Range(pending') \cup AddsOf(queue') \subseteq 1..recorded
        BY <1>b, <2>1, <2>2, <2>4, <3>2
      <3> QED BY <2>1, <2>2, <3>2, <3>3, <3>4, OrderAfter
    <2>5. CASE c.op # "Add"
      BY <2>1, <2>2, <2>5, OrderAfter DEF OrderInv, Coming
    <2> QED BY <2>4, <2>5
  <1>5. CASE WriteItem
    <2>1. /\ UNCHANGED <<queue, recorded>>
          /\ \/ pending' = pending /\ ~metaDue'
             \/ /\ step = "items" /\ UNCHANGED metaDue
                /\ pending # <<>> /\ pending' = Tail(pending)
      BY <1>5 DEF WriteItem, HasDue
    <2>3. CASE pending' = pending /\ ~metaDue'
      BY <1>1, <2>1, <2>3
    <2>4. CASE /\ step = "items" /\ UNCHANGED metaDue
               /\ pending # <<>> /\ pending' = Tail(pending)
      <3>1. Range(pending') \subseteq Range(pending) /\ Ascending(pending')
        BY <1>a, <2>4, MessageTaken DEF OrderInv
      <3> QED BY <2>1, <2>4, <3>1, OrderAfter DEF OrderInv, Coming
    <2> QED BY <2>1, <2>3, <2>4
  <1>6. CASE Answer \/ Discard \/ Resume
    <2>1. \/ pending' = <<>> /\ queue' = <<>> /\ step' = "recv"
          \/ UNCHANGED <<pending, queue, recorded, metaDue>> /\ step' \in {step, "recv"}
      BY <1>6 DEF Answer, Discard, Gone, Resume
    <2> QED BY <1>1, <1>c, <2>1 DEF OrderInv
  <1>7. CASE Crash
    BY <1>7, <1>c DEF Crash, Gone
  <1>9. CASE WrittenAll
    BY <1>1, <1>9 DEF WrittenAll, OrderInv
  <1>10. CASE EnsureWriterOpen \/ OpenFails \/ WriteFails
    <2>1. UNCHANGED <<pending, queue, recorded, metaDue>> /\ step' # "items"
      BY <1>10 DEF EnsureWriterOpen, OpenFails, WriteFails, Recover
    <2> QED BY <1>1, <2>1
  <1>11. CASE Project \/ OldWrites \/ OldStops \/ WorkerStep
    <2>1. UNCHANGED <<pending, queue, recorded, metaDue, step>>
      BY <1>11 DEF Project, OldWrites, OldStops, WorkerStep, JobStat, JobEncode, JobPersist,
                   JobCheck, JobUnlink, JobFails
    <2> QED BY <1>1, <2>1 DEF OrderInv
  <1> QED BY <1>2, <1>3, <1>4, <1>5, <1>6, <1>7, <1>9, <1>10, <1>11 DEF Recording, WriterStep

-----------------------------------------------------------------------------
(* What a step does to the records that a reader finds, and to what is on  *)
(* its way to them.                                                        *)

Written == Entries(Readable)
NewEntry == [item |-> Due, ordinal |-> next]
Appends == HasDue /\ Written' = Append(Written, NewEntry)
Settled ==
    /\ UNCHANGED <<metaDue, next, recorded, shared>> /\ old' \in {old, NoWriter}
    /\ Alive' => Alive
    /\ up' => UNCHANGED <<up, crashes>>

(* Nothing is written and nothing is made.                                 *)
Keeping ==
    /\ Settled /\ Written' = Written /\ Coming' = Coming
    /\ pending # <<>> => pending' # <<>> /\ Head(pending') = Head(pending)

Making ==
    /\ up /\ UNCHANGED <<metaDue, next, up, crashes, pending, shared, old>>
    /\ Written' = Written
    /\ recorded' = recorded + 1 /\ Coming' = Coming \cup {recorded + 1}
    /\ recorded + 1 > Inherited /\ crashes = 0 => 1..Inherited \subseteq ItemsIn(Readable)

(* The metadata, or the first of the pending items.                        *)
Writes ==
    /\ Appends /\ ~metaDue'
    /\ UNCHANGED <<up, recorded, crashes, shared, old>>
    /\ next' = IF Paginated THEN next + 1 ELSE next
    /\ \/ metaDue /\ Due = SessionMeta /\ Coming' = Coming
       \/ /\ ~metaDue /\ Due \in Coming /\ Coming' = Coming \ {Due}
          /\ pending # <<>> /\ Due = Head(pending)
          /\ \A c \in Coming' : Due < c

(* A write that failed, and left a line that can be read.                  *)
Retries == Appends /\ Settled /\ UNCHANGED <<pending, queue>>

Ends ==
    /\ ~Alive' /\ UNCHANGED <<recorded, shared>> /\ old' \in {old, NoWriter}
    /\ Coming' = {}
    /\ Written' = Written \/ Appends

Resumes ==
    /\ up' /\ ~metaDue' /\ UNCHANGED <<recorded, shared>>
    /\ Coming' = {} /\ Written' = Written
    /\ Len(Written) \in Nat \ {0}
    /\ next' = IF Paginated THEN Written[Len(Written)].ordinal + 1 ELSE NoOrdinal
    /\ Paginated => Written[Len(Written)].ordinal >= Inherited

(* A writer that was discarded appends beside the one that was resumed.    *)
Shares ==
    /\ old # NoWriter /\ shared'
    /\ Written' = Written \/ \E e \in AnEntry : Written' = Append(Written, e)

LEMMA WrittenTyped ==
    ASSUME TypeInv
    PROVE  /\ Written \in Seq(AnEntry) /\ Len(Written) \in Nat
           /\ ItemsIn(Readable) = {Written[i].item : i \in 1..Len(Written)}
           /\ \A i \in 1..Len(Written) : Written[i].item \in Message /\ Written[i].ordinal \in Int
  <1>1. Readable \in Seq(Line)
    BY ReadableTyped
  <1>2. /\ Written \in Seq(AnEntry)
        /\ ItemsIn(Readable) = {Written[i].item : i \in 1..Len(Written)}
    BY <1>1, EntriesAre DEF Written
  <1>3. ASSUME NEW i \in 1..Len(Written)
        PROVE  Written[i].item \in Message /\ Written[i].ordinal \in Int
    <2>1. Written[i] \in AnEntry
      BY <1>2, ElementOfSeq
    <2> QED BY <2>1 DEF AnEntry, Message
  <1> QED BY <1>2, <1>3

LEMMA WrittenMoves ==
    ASSUME TypeInv, TypeInv', WriterInv, JobInv, ~FileRaces, Recording \/ WorkerStep
    PROVE  /\ WriteItem => Appends
           /\ WriteFails => Written' = Written \/ Appends
           /\ Crash => (UNCHANGED shared /\ (Written' = Written \/ Appends)) \/ Shares
           /\ OldWrites => Shares
           /\ ~(WriteItem \/ WriteFails \/ Crash \/ OldWrites) => Written' = Written
  <1>1. Readable \in Seq(Line) /\ Readable' \in Seq(Line)
    BY ReadableGrows
  <1>2. Written' = Entries(Readable')
    BY DEF Written, Entries, Entry, Records, Selected, Nth, WholeLines
  <1>3. Same(Readable, Readable') => Written' = Written
    BY <1>1, <1>2, EntriesSame DEF Written
  <1>4. ASSUME NEW whole \in BOOLEAN, NEW ended \in BOOLEAN, Writing(whole, ended)
        PROVE  IF whole THEN Appends ELSE Written' = Written
    <2> DEFINE l == Record(whole, ended)
    <2>1. l \in Line /\ Readable' = Append(Readable, l) /\ HasDue
      BY <1>4 DEF Writing
    <2>2. l.whole = whole /\ Entry(l) = NewEntry
      BY DEF Record, Entry, NewEntry
    <2> HIDE DEF l
    <2>3. /\ l.whole => Entries(Readable') = Append(Entries(Readable), Entry(l))
          /\ ~l.whole => Entries(Readable') = Entries(Readable)
      BY <1>1, <2>1, EntriesAppended
    <2> QED BY <1>2, <2>1, <2>2, <2>3 DEF Written, Appends
  <1>8. ASSUME Sharing PROVE Shares
    <2>1. PICK l \in Line : Readable' = Append(Readable, l)
      BY <1>8 DEF Sharing
    <2>2. /\ l.whole => Entries(Readable') = Append(Entries(Readable), Entry(l))
          /\ ~l.whole => Entries(Readable') = Entries(Readable)
      BY <1>1, <2>1, EntriesAppended
    <2>3. Entry(l) \in AnEntry
      BY DEF Entry, AnEntry, Line
    <2> QED BY <1>2, <1>8, <2>2, <2>3 DEF Written, Shares, Sharing
  <1>5. WriteItem => Appends
    BY <1>4, ReadableMoves
  <1>6. WriteFails => Written' = Written \/ Appends
    BY <1>3, <1>4, ReadableMoves
  <1>9. Crash => (UNCHANGED shared /\ (Written' = Written \/ Appends)) \/ Shares
    BY <1>3, <1>4, <1>8, ReadableMoves
  <1>10. OldWrites => Shares
    BY <1>8, ReadableMoves
  <1>7. ~(WriteItem \/ WriteFails \/ Crash \/ OldWrites) => Written' = Written
    BY <1>3, ReadableMoves
  <1> QED BY <1>5, <1>6, <1>7, <1>9, <1>10

LEMMA ComingAfter == Coming' = Range(pending') \cup AddsOf(queue')
  BY DEF Coming, Range, AddsOf, AddsAt

LEMMA StepIsOneOf ==
    ASSUME TypeInv, TypeInv', WriterInv, JobInv, KeptInv, OrderInv, ~FileRaces,
           Recording \/ WorkerStep
    PROVE  /\ UNCHANGED thread
           /\ Keeping \/ Making \/ Writes \/ Retries \/ Ends \/ Resumes \/ Shares
  <1> USE DEF fileVars, bounds, history, sqlVars, writerVars
  <1>a. /\ pending \in Seq(Message) /\ queue \in Seq(Command) /\ recorded \in Nat
        /\ up \in BOOLEAN
    BY DEF TypeInv
  <1>b. UNCHANGED thread
    BY DEF Recording, AppendItem, Request, Discard, OldWrites, OldStops, Crash, Resume, Project,
           WriterStep, Receive, EnsureWriterOpen, OpenFails, WriteItem, WriteFails, WrittenAll,
           Answer, WorkerStep, JobStat, JobEncode, JobPersist, JobCheck, JobUnlink, JobFails
  <1>1. ASSUME Settled, UNCHANGED <<pending, queue>>, Written' = Written PROVE Keeping
    <2>1. Coming' = Coming
      BY <1>1, ComingAfter DEF Coming
    <2> QED BY <1>1, <2>1 DEF Keeping
  <1>s. ASSUME UNCHANGED <<metaDue, next, recorded, shared, old, up, crashes>>, Alive' => Alive
        PROVE  Settled
    BY <1>s DEF Settled
  <1>c. ASSUME pending' = <<>>, queue' = <<>> PROVE Coming' = {}
    BY <1>c, ComingAfter, NothingComing
  <1>d. ASSUME ~up', step' = "recv", pending' = <<>>, queue' = <<>> PROVE ~Alive'
    BY <1>d DEF Alive, Idle
  <1>7. CASE Crash
    <2>1. /\ UNCHANGED recorded /\ pending' = <<>> /\ queue' = <<>>
          /\ ~up' /\ step' = "recv" /\ old' = NoWriter
      BY <1>7 DEF Crash, Gone
    <2>2. (UNCHANGED shared /\ (Written' = Written \/ Appends)) \/ Shares
      BY <1>7, WrittenMoves
    <2> QED BY <1>b, <1>c, <1>d, <2>1, <2>2 DEF Ends
  <1>12. CASE OldWrites
    BY <1>12, <1>b, WrittenMoves
  <1>5. CASE WriteItem
    <2>1. /\ UNCHANGED <<queue, up, recorded, crashes, shared, old>> /\ HasDue
          /\ next' = IF Paginated THEN next + 1 ELSE next
          /\ \/ step = "meta" /\ metaDue /\ pending' = pending /\ ~metaDue'
             \/ /\ step = "items" /\ UNCHANGED metaDue
                /\ pending # <<>> /\ pending' = Tail(pending)
      BY <1>5 DEF WriteItem, HasDue, handed
    <2>2. Appends
      BY <1>5, WrittenMoves
    <2>3. CASE step = "meta" /\ metaDue /\ pending' = pending /\ ~metaDue'
      <3>1. Due = SessionMeta /\ Coming' = Coming
        BY <2>1, <2>3, ComingAfter DEF Due, Coming
      <3> QED BY <1>b, <2>1, <2>2, <2>3, <3>1 DEF Writes
    <2>4. CASE /\ step = "items" /\ UNCHANGED metaDue
               /\ pending # <<>> /\ pending' = Tail(pending)
      <3>1. /\ Range(pending') = Range(pending) \ {Head(pending)} /\ Head(pending) \in Range(pending)
            /\ \A p \in Range(pending') : Head(pending) < p
        BY <1>a, <2>4, MessageTaken DEF OrderInv
      <3>2. Due = Head(pending) /\ ~metaDue
        BY <2>4 DEF Due, OrderInv
      <3>3. \A a \in AddsOf(queue) : Head(pending) < a /\ Head(pending) # a
        <4>1. \A a \in AddsOf(queue) : Head(pending) < a /\ a \in Int /\ Head(pending) \in Int
          BY <3>1 DEF OrderInv, Coming
        <4> QED BY <4>1
      <3>4. Coming' = Coming \ {Due} /\ Due \in Coming /\ \A c \in Coming' : Due < c
        BY <2>1, <3>1, <3>2, <3>3, ComingAfter DEF Coming
      <3> QED BY <1>b, <2>1, <2>2, <2>4, <3>2, <3>4 DEF Writes
    <2> QED BY <2>1, <2>3, <2>4
  <1>6. CASE WriteFails
    <2>1. /\ UNCHANGED <<pending, queue>> /\ HasDue
          /\ UNCHANGED <<metaDue, next, recorded, shared, old, up, crashes>>
      BY <1>6 DEF WriteFails, handed
    <2>2. Settled
      BY <1>s, <2>1, AtWork
    <2>3. Written' = Written \/ Appends
      BY <1>6, WrittenMoves
    <2> QED BY <1>1, <1>b, <2>1, <2>2, <2>3 DEF Retries
  <1> SUFFICES ASSUME ~Crash, ~OldWrites, ~WriteItem, ~WriteFails
               PROVE  /\ UNCHANGED thread
                      /\ Keeping \/ Making \/ Writes \/ Retries \/ Ends \/ Resumes \/ Shares
    BY <1>5, <1>6, <1>7, <1>12
  <1>w. Written' = Written
    BY WrittenMoves
  <1>2. CASE AppendItem
    <2> DEFINE i == recorded + 1
               q == Append(queue, Add(i))
    <2>1. /\ recorded' = i /\ i \in Item /\ queue' = queue \o <<Add(i), Barrier("Flush")>>
          /\ UNCHANGED <<pending, up, next, metaDue, crashes, shared, old>> /\ up
          /\ i > Inherited /\ crashes = 0 => 1..Inherited \subseteq acked
      BY <1>2 DEF AppendItem, handed
    <2>2. Add(i) \in Command /\ Barrier("Flush") \in Command
      BY <2>1, CommandsTyped
    <2>3. Add(i).op = "Add" /\ Add(i).item = i /\ Barrier("Flush").op # "Add"
      BY DEF Add, Barrier
    <2> HIDE DEF i
    <2>4. queue' = Append(q, Barrier("Flush"))
      BY <1>a, <2>1, <2>2, TwoAppended
    <2>5. q \in Seq(Command)
      BY <1>a, <2>2, AppendProperties
    <2>6. AddsOf(q) = AddsOf(queue) \cup {i}
      BY <1>a, <2>2, <2>3, CommandAppended
    <2>7. AddsOf(queue') = AddsOf(queue) \cup {i}
      <3> HIDE DEF q
      <3> QED BY <2>2, <2>3, <2>4, <2>5, <2>6, CommandAppended
    <2>8. Coming' = Coming \cup {i}
      BY <2>1, <2>7, ComingAfter DEF Coming
    <2>11. i > Inherited /\ crashes = 0 => 1..Inherited \subseteq ItemsIn(Readable)
      BY <2>1 DEF KeptInv, AckedReadable
    <2>12. Making
      BY <1>w, <2>1, <2>8, <2>11 DEF Making, i
    <2> QED BY <1>b, <2>12
  <1>3. ASSUME NEW op \in {"Persist", "Flush", "Shutdown"}, Request(op) PROVE Keeping
    <2>1. /\ queue' = Append(queue, Barrier(op)) /\ UNCHANGED <<pending, attempt, step>>
          /\ up /\ UNCHANGED <<metaDue, next, recorded, shared, old, up, crashes>>
      BY <1>3 DEF Request, handed
    <2>5. Settled
      BY <1>s, <2>1, AtWork
    <2>2. Barrier(op) \in Command /\ Barrier(op).op # "Add"
      BY CommandsTyped DEF Barrier
    <2>3. AddsOf(queue') = AddsOf(queue)
      BY <1>a, <2>1, <2>2, CommandAppended
    <2> QED BY <1>w, <2>1, <2>3, <2>5, ComingAfter DEF Keeping, Coming
  <1>4. CASE Receive
    <2> DEFINE c == Head(queue)
    <2>1. /\ queue # <<>> /\ queue' = Tail(queue) /\ step = "recv"
          /\ UNCHANGED <<metaDue, next, recorded, shared, old, up, crashes>>
          /\ pending' = IF c.op = "Add" THEN Append(pending, c.item) ELSE pending
      BY <1>4 DEF Receive, handed
    <2>8. Settled
      BY <1>s, <2>1, AtWork
    <2>2. /\ c \in Command
          /\ AddsOf(queue) = IF c.op = "Add" THEN AddsOf(Tail(queue)) \cup {c.item}
                             ELSE AddsOf(Tail(queue))
      BY <1>a, <2>1, CommandTaken DEF OrderInv
    <2>3. c.item \in Message
      BY <2>2 DEF Command, Message
    <2> HIDE DEF c
    <2>6. CASE c.op = "Add"
      <3>1. /\ Range(pending') = Range(pending) \cup {c.item}
            /\ pending # <<>> => pending' # <<>> /\ Head(pending') = Head(pending)
        BY <1>a, <2>1, <2>3, <2>6, MessagesAppended
      <3>2. Coming' = Coming
        BY <2>1, <2>2, <2>6, <3>1, ComingAfter DEF Coming
      <3> QED BY <1>b, <1>w, <2>1, <2>8, <3>1, <3>2 DEF Keeping
    <2>7. CASE c.op # "Add"
      <3>1. Coming' = Coming
        BY <2>1, <2>2, <2>7, ComingAfter DEF Coming
      <3> QED BY <1>b, <1>w, <2>1, <2>7, <2>8, <3>1 DEF Keeping
    <2> QED BY <2>6, <2>7
  <1>8. CASE Answer
    <2>1. /\ step = "answer" /\ UNCHANGED <<recorded, crashes, shared, old>> /\ step' = "recv"
          /\ \/ queue' = <<>> /\ pending' = <<>> /\ ~up'
             \/ UNCHANGED <<pending, metaDue, next, up, queue>>
      BY <1>8 DEF Answer, Gone, handed
    <2>2. Alive
      BY <2>1, AtWork
    <2>5. CASE UNCHANGED <<pending, metaDue, next, up, queue>>
      BY <1>1, <1>b, <1>s, <1>w, <2>1, <2>2, <2>5
    <2>6. CASE queue' = <<>> /\ pending' = <<>> /\ ~up'
      BY <1>b, <1>c, <1>d, <1>w, <2>1, <2>6 DEF Ends
    <2> QED BY <2>1, <2>5, <2>6
  <1>13. CASE Discard
    <2>1. /\ up /\ ~up' /\ UNCHANGED <<recorded, shared, old>>
          /\ \/ step' = "recv" /\ queue' = <<>> /\ pending' = <<>> /\ Idle
             \/ UNCHANGED <<pending, metaDue, next, queue>>
      BY <1>13 DEF Discard, Gone, handed
    <2>2. Alive
      BY <2>1, AtWork
    <2>5. CASE UNCHANGED <<pending, metaDue, next, queue>>
      BY <1>1, <1>b, <1>w, <2>1, <2>2, <2>5 DEF Settled
    <2>6. CASE step' = "recv" /\ queue' = <<>> /\ pending' = <<>>
      BY <1>b, <1>c, <1>d, <1>w, <2>1, <2>6 DEF Ends
    <2> QED BY <2>1, <2>5, <2>6
  <1>9. CASE Resume
    <2> DEFINE content == inode'[plain']
    <2>1. /\ ~up /\ SessionMeta \in ItemsIn(Readable) /\ OpenPlain(FALSE)
          /\ UNCHANGED <<recorded, crashes, shared>>
          /\ \/ /\ CanAppendTo(content) /\ up' = TRUE /\ metaDue' = FALSE
                /\ pending' = <<>> /\ queue' = <<>>
                /\ next' = IF Paginated THEN LastOrdinal(content) + 1 ELSE NoOrdinal
             \/ UNCHANGED <<up, next, metaDue, pending, queue, step, old, taken, attempt, cmd>>
      BY <1>9 DEF Resume
    <2>4. CASE UNCHANGED <<up, next, metaDue, pending, queue, step, old>>
      <3>1. Alive' => Alive
        BY <2>4 DEF Alive, Idle
      <3> QED BY <1>1, <1>b, <1>s, <1>w, <2>1, <2>4, <3>1
    <2>5. CASE /\ CanAppendTo(content) /\ up' = TRUE /\ metaDue' = FALSE
               /\ pending' = <<>> /\ queue' = <<>>
               /\ next' = IF Paginated THEN LastOrdinal(content) + 1 ELSE NoOrdinal
      <3>1. plain' \in 1..Len(inode') /\ FilesTyped' /\ Same(Readable, content)
        BY <2>1, FilesOpened
      <3>2. content \in Seq(Line) /\ Readable \in Seq(Line)
        BY <3>1, ElementOfSeq, ReadableTyped DEF FilesTyped
      <3>3. SessionMeta \in ItemsIn(content)
        BY <2>1, <3>1, <3>2, WithinItems DEF Same
      <3> HIDE DEF content
      <3>4. /\ Len(Records(content)) \in Nat \ {0}
            /\ LastOrdinal(content) = Records(content)[Len(Records(content))].ordinal
        BY <3>2, <3>3, LastRecord
      <3>5. Written = Entries(content)
        BY <3>1, <3>2, EntriesSame DEF Written
      <3>6. /\ Len(Written) = Len(Records(content))
            /\ Written[Len(Written)] = Entry(Records(content)[Len(Records(content))])
        BY <3>2, <3>4, <3>5, EntriesAre
      <3>7. LastOrdinal(content) = Written[Len(Written)].ordinal
        BY <3>4, <3>6 DEF Entry
      <3>8. Paginated => LastOrdinal(content) >= Inherited
        BY <2>5 DEF CanAppendTo
      <3>10. Coming' = {}
        BY <1>c, <2>5
      <3>11. Resumes
        BY <1>w, <2>1, <2>5, <3>4, <3>6, <3>7, <3>8, <3>10 DEF Resumes
      <3> QED BY <1>b, <3>11
    <2> QED BY <2>1, <2>4, <2>5
  <1>10. CASE \/ EnsureWriterOpen \/ OpenFails \/ WrittenAll \/ Project \/ OldStops
             \/ WorkerStep
    <2>1. /\ UNCHANGED <<pending, queue, metaDue, next, recorded, shared, up, crashes>>
          /\ old' \in {old, NoWriter} /\ (step # "recv" \/ UNCHANGED step)
      BY <1>10 DEF EnsureWriterOpen, OpenFails, WrittenAll, Project, OldStops, WorkerStep, JobStat,
                   JobEncode, JobPersist, JobCheck, JobUnlink, JobFails, handed
    <2>2. Alive' => Alive
      BY <2>1 DEF Alive, Idle
    <2>3. Settled
      BY <2>1, <2>2 DEF Settled
    <2> QED BY <1>1, <1>b, <1>w, <2>1, <2>3
  <1> QED BY <1>b, <1>2, <1>3, <1>4, <1>8, <1>9, <1>10, <1>13
          DEF Recording, WriterStep

-----------------------------------------------------------------------------
(* The records are in order, and their ordinals follow one another, unless *)
(* two writers shared the file.                                            *)

ThreadInv == thread \in Threads

WrittenItems == {Written[i].item : i \in 1..Len(Written)}

(* What is in the file was made before what is on its way, and nothing     *)
(* but the metadata is there while that is due.                            *)
LogInv ==
    ~shared =>
        /\ \A i \in 1..Len(Written) :
              Written[i].item <= recorded /\ \A c \in Coming : Written[i].item <= c
        /\ Alive /\ metaDue => \A i \in 1..Len(Written) : Written[i].item = SessionMeta

Numbered(e) ==
    \A i \in 1..Len(e) :
        IF i = 1 THEN e[i].ordinal = 0
        ELSE e[i].ordinal = IF e[i].item = e[i - 1].item THEN e[i - 1].ordinal
                            ELSE e[i - 1].ordinal + 1

(* The next ordinal is that of the last record if the item of that record  *)
(* is still due, because its write failed, and else the one after it.      *)
NextInv(l) ==
    \/ next = l.ordinal + 1 /\ l.item \notin Coming /\ (metaDue => l.item # SessionMeta)
    \/ /\ next = l.ordinal
       /\ metaDue => l.item = SessionMeta
       /\ ~metaDue => pending # <<>> /\ l.item = Head(pending)

NumberInv ==
    Paginated /\ ~shared =>
        /\ Numbered(Written)
        /\ Alive /\ Len(Written) = 0 => next = 0
        /\ Alive /\ Len(Written) # 0 => NextInv(Written[Len(Written)])

(* A child that has not all it inherits is in its first life, has one      *)
(* writer and no record of its own, and numbers what it copies as its      *)
(* parent did.                                                             *)
Copied == 1..Inherited \subseteq WrittenItems
FirstDue == IF metaDue THEN 1 ELSE next
FirstInv ==
    ~Copied =>
        /\ ~shared /\ old = NoWriter
        /\ recorded <= Inherited
        /\ \A i \in 1..Len(Written) :
              /\ Written[i].ordinal = Written[i].item
              /\ 1..Written[i].item \subseteq WrittenItems
        /\ up => crashes = 0
        /\ Alive =>
              /\ FirstDue \in 1..(recorded + 1)
              /\ Coming = FirstDue..recorded /\ 1..(FirstDue - 1) \subseteq WrittenItems
              /\ metaDue => next = 0

LEMMA DueIs ==
    ASSUME TypeInv, OrderInv, HasDue
    PROVE  /\ NewEntry \in AnEntry /\ NewEntry.item = Due /\ NewEntry.ordinal = next
           /\ Due \in Int /\ 0 <= Due /\ Due <= recorded /\ next \in Int
           /\ \/ metaDue /\ Due = SessionMeta
              \/ /\ ~metaDue /\ pending # <<>> /\ Due = Head(pending) /\ Due \in Coming
                 /\ \A c \in Coming : Due <= c
  <1>1. next \in Int /\ recorded \in Nat /\ pending \in Seq(Message)
    BY DEF TypeInv, LinesTyped
  <1>2. CASE step = "meta" /\ metaDue
    <2>1. Due = SessionMeta
      BY <1>2 DEF Due
    <2> QED BY <1>1, <1>2, <2>1 DEF NewEntry, AnEntry, SessionMeta
  <1>3. CASE step = "items" /\ pending # <<>>
    <2>1. Due = Head(pending) /\ ~metaDue
      BY <1>3 DEF Due, OrderInv
    <2>2. /\ Range(Tail(pending)) = Range(pending) \ {Head(pending)}
          /\ Head(pending) \in Range(pending)
          /\ \A p \in Range(Tail(pending)) : Head(pending) < p
      BY <1>1, <1>3, MessageTaken DEF OrderInv
    <2>3. Due \in Coming /\ Due \in 1..recorded
      BY <2>1, <2>2 DEF Coming, OrderInv
    <2>4. ASSUME NEW c \in Coming PROVE Due <= c
      <3>1. CASE c \in Range(pending)
        <4>1. c = Due \/ Due < c
          BY <2>1, <2>2, <3>1
        <4>2. c \in Int /\ Due \in Int
          BY <2>3, <2>4 DEF OrderInv
        <4> QED BY <4>1, <4>2
      <3>2. CASE c \in AddsOf(queue)
        <4>1. Due < c
          BY <2>1, <2>2, <3>2 DEF OrderInv
        <4>2. c \in Int /\ Due \in Int
          BY <2>3, <2>4 DEF OrderInv
        <4> QED BY <4>1, <4>2
      <3> QED BY <3>1, <3>2 DEF Coming
    <2>5. Due \in Item
      <3>1. recorded \in 0..MaxItem /\ MaxItem \in Nat
        BY BoundAssumption DEF TypeInv
      <3>2. 1..recorded \subseteq 1..MaxItem
        BY <3>1
      <3> QED BY <2>3, <3>2 DEF Item
    <2>6. NewEntry \in AnEntry
      BY <1>1, <2>5 DEF NewEntry, AnEntry
    <2> QED BY <1>1, <1>3, <2>1, <2>3, <2>4, <2>6 DEF NewEntry
  <1> QED BY <1>2, <1>3 DEF HasDue

LEMMA WrittenAppended ==
    ASSUME TypeInv, OrderInv, Appends
    PROVE  /\ Len(Written) \in Nat /\ Len(Written') = Len(Written) + 1
           /\ \A i \in 1..Len(Written) : Written'[i] = Written[i]
           /\ Written'[Len(Written) + 1].item = Due
           /\ Written'[Len(Written) + 1].ordinal = next
           /\ WrittenItems' = WrittenItems \cup {Due}
  <1>1. Written \in Seq(AnEntry) /\ NewEntry \in AnEntry /\ Written' = Append(Written, NewEntry)
    BY WrittenTyped, DueIs DEF Appends
  <1>2. /\ Len(Written) \in Nat /\ Len(Written') = Len(Written) + 1
        /\ \A i \in 1..Len(Written) : Written'[i] = Written[i]
        /\ Written'[Len(Written) + 1] = NewEntry
    BY <1>1, AppendProperties
  <1>3. NewEntry.item = Due /\ NewEntry.ordinal = next
    BY DEF NewEntry
  <1>4. 1..(Len(Written) + 1) = (1..Len(Written)) \cup {Len(Written) + 1}
    BY <1>2
  <1>5. WrittenItems' = WrittenItems \cup {Due}
    BY <1>2, <1>3, <1>4 DEF WrittenItems
  <1> QED BY <1>2, <1>3, <1>5

LEMMA StepKeepsLog ==
    ASSUME TypeInv, OrderInv, LogInv,
           Keeping \/ Making \/ Writes \/ Retries \/ Ends \/ Resumes \/ Shares
    PROVE  LogInv'
  <1> SUFFICES ASSUME ~shared' PROVE LogInv'
    BY DEF LogInv
  <1>0. ~shared
    BY DEF Keeping, Making, Writes, Retries, Ends, Resumes, Shares, Settled
  <1>a. /\ recorded \in Nat /\ \A c \in Coming : c \in 1..recorded
        /\ \A i \in 1..Len(Written) : Written[i].item \in Int
    BY WrittenTyped DEF TypeInv, OrderInv, Message, Item, SessionMeta
  <1>1. ASSUME Written' = Written, recorded' \in Nat, recorded <= recorded',
               \A c \in Coming' : c \in Coming \/ c = recorded + 1,
               Alive' /\ metaDue' => Alive /\ metaDue
        PROVE  LogInv'
    <2>1. ASSUME NEW i \in 1..Len(Written)
          PROVE  Written[i].item <= recorded' /\ \A c \in Coming' : Written[i].item <= c
      <3>1. Written[i].item <= recorded /\ \A c \in Coming : Written[i].item <= c
        BY <1>0 DEF LogInv
      <3>2. Written[i].item <= recorded' /\ Written[i].item <= recorded + 1
        BY <1>1, <1>a, <3>1
      <3> QED BY <1>1, <3>1, <3>2
    <2> QED BY <1>0, <1>1, <2>1 DEF LogInv
  <1>2. CASE Keeping
    BY <1>1, <1>2, <1>a DEF Keeping, Settled
  <1>3. CASE Making
    BY <1>1, <1>3, <1>a, AtWork DEF Making
  <1>4. CASE Resumes
    BY <1>1, <1>4, <1>a DEF Resumes
  <1>5. ASSUME Appends, recorded' = recorded, Coming' \subseteq Coming,
               \A c \in Coming' : Due <= c, Alive' /\ metaDue' => metaDue /\ Due = SessionMeta
        PROVE  LogInv'
    <2>1. /\ Len(Written) \in Nat /\ Len(Written') = Len(Written) + 1
          /\ \A i \in 1..Len(Written) : Written'[i] = Written[i]
          /\ Written'[Len(Written) + 1].item = Due
      BY <1>5, WrittenAppended
    <2>2. Due <= recorded
      BY <1>5, DueIs DEF Appends
    <2>4. Alive
      BY <1>5, AtWork DEF Appends
    <2>3. ASSUME NEW i \in 1..Len(Written')
          PROVE  /\ Written'[i].item <= recorded' /\ \A c \in Coming' : Written'[i].item <= c
                 /\ Alive' /\ metaDue' => Written'[i].item = SessionMeta
      <3>1. CASE i \in 1..Len(Written)
        BY <1>0, <1>5, <2>1, <2>4, <3>1 DEF LogInv
      <3>2. CASE i = Len(Written) + 1
        BY <1>5, <2>1, <2>2, <3>2
      <3> QED BY <2>1, <3>1, <3>2
    <2> QED BY <2>3 DEF LogInv
  <1>6. CASE Writes
    <2>1. Appends /\ ~metaDue' /\ recorded' = recorded
      BY <1>6 DEF Writes
    <2>2. Due \in Int
      BY <2>1, DueIs DEF Appends
    <2>3. Coming' \subseteq Coming /\ \A c \in Coming' : Due <= c
      <3>1. CASE metaDue /\ Due = SessionMeta /\ Coming' = Coming
        BY <1>a, <3>1 DEF SessionMeta
      <3>2. CASE Coming' = Coming \ {Due} /\ \A c \in Coming' : Due < c
        BY <1>a, <2>2, <3>2
      <3> QED BY <1>6, <3>1, <3>2 DEF Writes
    <2> QED BY <1>5, <2>1, <2>3
  <1>7. CASE Retries
    <2>1. Appends /\ recorded' = recorded /\ UNCHANGED <<metaDue, pending, queue>>
      BY <1>7 DEF Retries, Settled
    <2>2. Coming' = Coming
      BY <2>1, ComingAfter DEF Coming
    <2>3. \/ metaDue /\ Due = SessionMeta
          \/ ~metaDue /\ \A c \in Coming : Due <= c
      BY <2>1, DueIs DEF Appends
    <2>4. \A c \in Coming' : Due <= c
      BY <1>a, <2>2, <2>3 DEF SessionMeta
    <2> QED BY <1>5, <2>1, <2>2, <2>3, <2>4
  <1>8. CASE Ends
    <2>1. ~Alive' /\ recorded' = recorded /\ Coming' = {}
      BY <1>8 DEF Ends
    <2>2. CASE Written' = Written
      BY <1>1, <1>a, <2>1, <2>2
    <2>3. CASE Appends
      BY <1>5, <2>1, <2>3
    <2> QED BY <1>8, <2>2, <2>3 DEF Ends
  <1> QED BY <1>2, <1>3, <1>4, <1>6, <1>7, <1>8 DEF Shares

(* The record that is due has the ordinal that belongs to it.              *)
LEMMA NumbersFollow ==
    ASSUME TypeInv, OrderInv, LogInv, NumberInv, Paginated, ~shared, Appends
    PROVE  Numbered(Written')
  <1> DEFINE n == Len(Written)
  <1>1. /\ n \in Nat /\ Len(Written') = n + 1
        /\ \A i \in 1..n : Written'[i] = Written[i]
        /\ Written'[n + 1].item = Due /\ Written'[n + 1].ordinal = next
    BY WrittenAppended
  <1>2. \/ metaDue /\ Due = SessionMeta
        \/ ~metaDue /\ pending # <<>> /\ Due = Head(pending) /\ Due \in Coming
    BY DueIs DEF Appends
  <1>3. Numbered(Written) /\ (n = 0 => next = 0) /\ (n # 0 => NextInv(Written[n]))
    BY AtWork DEF NumberInv, Appends
  <1>4. n # 0 => next = IF Due = Written[n].item THEN Written[n].ordinal ELSE Written[n].ordinal + 1
    <2>1. CASE n # 0 /\ next = Written[n].ordinal + 1 /\ Written[n].item \notin Coming
                     /\ (metaDue => Written[n].item # SessionMeta)
      BY <1>2, <2>1
    <2>2. CASE /\ n # 0 /\ next = Written[n].ordinal
               /\ metaDue => Written[n].item = SessionMeta
               /\ ~metaDue => pending # <<>> /\ Written[n].item = Head(pending)
      BY <1>2, <2>2
    <2> QED BY <1>3, <2>1, <2>2 DEF NextInv
  <1> HIDE DEF n
  <1> SUFFICES ASSUME NEW i \in 1..(n + 1)
               PROVE  IF i = 1 THEN Written'[i].ordinal = 0
                      ELSE Written'[i].ordinal =
                             IF Written'[i].item = Written'[i - 1].item THEN Written'[i - 1].ordinal
                             ELSE Written'[i - 1].ordinal + 1
    BY <1>1 DEF Numbered
  <1>5. CASE i \in 1..n
    <2>1. i # 1 => i - 1 \in 1..n
      BY <1>1, <1>5
    <2> QED BY <1>1, <1>3, <1>5, <2>1 DEF Numbered, n
  <1>6. CASE i = n + 1
    <2>1. n # 0 => n \in 1..n /\ i - 1 = n
      BY <1>1, <1>6
    <2> QED BY <1>1, <1>3, <1>4, <1>6, <2>1
  <1> QED BY <1>1, <1>5, <1>6

LEMMA NumberAfter ==
    ASSUME Paginated' /\ ~shared' =>
               /\ Numbered(Written')
               /\ Alive' /\ Len(Written') = 0 => next' = 0
               /\ Alive' /\ Len(Written') # 0 => NextInv(Written[Len(Written)])'
    PROVE  NumberInv'
  <1>1. Numbered(Written)' <=> Numbered(Written')
    BY DEF Numbered
  <1> QED BY <1>1 DEF NumberInv

LEMMA StepKeepsNumbers ==
    ASSUME TypeInv, OrderInv, LogInv, NumberInv, UNCHANGED thread,
           Keeping \/ Making \/ Writes \/ Retries \/ Ends \/ Resumes \/ Shares
    PROVE  NumberInv'
  <1> SUFFICES ASSUME Paginated, ~shared'
               PROVE  /\ Numbered(Written')
                      /\ Alive' /\ Len(Written') = 0 => next' = 0
                      /\ Alive' /\ Len(Written') # 0 => NextInv(Written[Len(Written)])'
    BY NumberAfter DEF Paginated
  <1>0. ~shared
    BY DEF Keeping, Making, Writes, Retries, Ends, Resumes, Shares, Settled
  <1> DEFINE n == Len(Written)
             l == Written[n]
  <1>a. /\ n \in Nat /\ recorded \in Nat /\ \A c \in Coming : c \in 1..recorded
        /\ n # 0 => n \in 1..n /\ l.item \in Int /\ l.item <= recorded /\ l.ordinal \in Int
    BY <1>0, WrittenTyped DEF TypeInv, OrderInv, Message, Item, SessionMeta, LogInv
  <1>b. /\ Numbered(Written)
        /\ (Alive /\ n = 0 => next = 0) /\ (Alive /\ n # 0 => NextInv(l))
    BY <1>0 DEF NumberInv
  <1>1. CASE Keeping
    <2>1. /\ Written' = Written /\ UNCHANGED <<next, metaDue>> /\ Coming' = Coming
          /\ Alive' => Alive
          /\ pending # <<>> => pending' # <<>> /\ Head(pending') = Head(pending)
      BY <1>1 DEF Keeping, Settled
    <2> QED BY <1>b, <2>1 DEF NextInv
  <1>2. CASE Making
    <2>1. /\ Written' = Written /\ UNCHANGED <<next, metaDue, pending>> /\ Alive
          /\ Coming' = Coming \cup {recorded + 1}
      BY <1>2, AtWork DEF Making
    <2>2. n # 0 => l.item # recorded + 1
      BY <1>a
    <2> QED BY <1>b, <2>1, <2>2 DEF NextInv
  <1>3. CASE Resumes
    <2>1. /\ Written' = Written /\ n \in Nat \ {0} /\ next' = l.ordinal + 1
          /\ ~metaDue' /\ Coming' = {}
      BY <1>3 DEF Resumes
    <2> QED BY <1>b, <2>1 DEF NextInv
  <1>4. ASSUME Appends
        PROVE  /\ Numbered(Written') /\ Len(Written') = n + 1 /\ n + 1 # 0
               /\ Written'[n + 1].item = Due /\ Written'[n + 1].ordinal = next
               /\ next \in Int
    BY <1>0, <1>4, <1>a, NumbersFollow, WrittenAppended, DueIs DEF Appends
  <1>5. CASE Writes
    <2>1. Appends /\ ~metaDue' /\ next' = next + 1
      BY <1>5 DEF Writes
    <2>2. Due \notin Coming'
      BY <1>5, <1>a DEF Writes, SessionMeta
    <2>3. NextInv(Written[Len(Written)])'
      BY <1>4, <2>1, <2>2 DEF NextInv
    <2> QED BY <1>4, <2>1, <2>3
  <1>6. CASE Retries
    <2>1. Appends /\ UNCHANGED <<metaDue, next, pending>>
      BY <1>6 DEF Retries, Settled
    <2>2. \/ metaDue /\ Due = SessionMeta
          \/ ~metaDue /\ pending # <<>> /\ Due = Head(pending)
      BY <2>1, DueIs DEF Appends
    <2>3. NextInv(Written[Len(Written)])'
      BY <1>4, <2>1, <2>2 DEF NextInv
    <2> QED BY <1>4, <2>1, <2>3
  <1>7. CASE Ends
    BY <1>4, <1>7, <1>b DEF Ends
  <1> QED BY <1>1, <1>2, <1>3, <1>5, <1>6, <1>7 DEF Shares

LEMMA StepKeepsFirst ==
    ASSUME TypeInv, OrderInv, FirstInv, ThreadInv, UNCHANGED thread,
           Keeping \/ Making \/ Writes \/ Retries \/ Ends \/ Resumes \/ Shares
    PROVE  FirstInv'
  <1>a. /\ Len(Written) \in Nat /\ recorded \in Nat /\ next \in Int
        /\ \A i \in 1..Len(Written) : Written[i].item \in Int
        /\ ItemsIn(Readable) = WrittenItems
    <2>1. /\ Len(Written) \in Nat /\ ItemsIn(Readable) = WrittenItems
          /\ \A i \in 1..Len(Written) : Written[i].item \in Message
      BY WrittenTyped DEF WrittenItems
    <2>2. Message \subseteq Int
      BY DEF Message, Item, SessionMeta
    <2> HIDE DEF WrittenItems
    <2>3. \A i \in 1..Len(Written) : Written[i].item \in Int
      BY <2>1, <2>2
    <2>4. recorded \in Nat /\ next \in Int
      BY DEF TypeInv, LinesTyped
    <2> QED BY <2>1, <2>3, <2>4
  <1>b. Inherited \in Nat /\ (Inherited > 0 => Paginated) /\ UNCHANGED <<Inherited, Paginated>>
    BY SettingAssumption DEF ThreadInv, Inherited, Paginated
  <1>c. \/ Written' = Written \/ (Appends /\ WrittenItems' = WrittenItems \cup {Due})
        \/ Shares /\ \E e \in AnEntry : Written' = Append(Written, e)
    BY WrittenAppended DEF Keeping, Making, Writes, Retries, Ends, Resumes, Shares
  <1>d. WrittenItems \subseteq WrittenItems'
    <2>1. CASE Written' = Written \/ WrittenItems' = WrittenItems \cup {Due}
      BY <2>1 DEF WrittenItems
    <2>2. ASSUME NEW e \in AnEntry, Written' = Append(Written, e)
          PROVE  WrittenItems \subseteq WrittenItems'
      <3>1. Written \in Seq(AnEntry)
        BY WrittenTyped
      <3>2. /\ Len(Written) \in Nat /\ Len(Written') = Len(Written) + 1
            /\ \A i \in 1..Len(Written) : Written'[i] = Written[i]
        BY <2>2, <3>1, AppendProperties
      <3>3. \A i \in 1..Len(Written) : i \in 1..Len(Written')
        BY <3>2
      <3> QED BY <3>2, <3>3 DEF WrittenItems
    <2> QED BY <1>c, <2>1, <2>2
  <1> SUFFICES ASSUME ~Copied'
               PROVE  /\ ~shared' /\ old' = NoWriter
                      /\ recorded' <= Inherited
                      /\ \A i \in 1..Len(Written') :
                            /\ Written'[i].ordinal = Written'[i].item
                            /\ 1..Written'[i].item \subseteq WrittenItems'
                      /\ up' => crashes' = 0
                      /\ Alive' =>
                            /\ FirstDue' \in 1..(recorded' + 1)
                            /\ Coming' = FirstDue'..recorded'
                            /\ 1..(FirstDue' - 1) \subseteq WrittenItems'
                            /\ metaDue' => next' = 0
    BY <1>b DEF FirstInv
  <1>1. ~Copied
    BY <1>b, <1>d DEF Copied
  <1>2. Inherited > 0 /\ Paginated
    BY <1>1, <1>b DEF Copied
  <1>3. /\ ~shared /\ old = NoWriter
        /\ recorded <= Inherited
        /\ \A i \in 1..Len(Written) :
              Written[i].ordinal = Written[i].item /\ 1..Written[i].item \subseteq WrittenItems
        /\ up => crashes = 0
        /\ Alive =>
              /\ FirstDue \in 1..(recorded + 1)
              /\ Coming = FirstDue..recorded /\ 1..(FirstDue - 1) \subseteq WrittenItems
              /\ metaDue => next = 0
    BY <1>1 DEF FirstInv
  <1>4. ASSUME Written' = Written PROVE WrittenItems' = WrittenItems
    BY <1>4 DEF WrittenItems
  <1>5. CASE Keeping
    <2>1. /\ Written' = Written /\ UNCHANGED <<next, metaDue, recorded, shared>>
          /\ (up' => up /\ UNCHANGED crashes) /\ (Alive' => Alive) /\ old' \in {old, NoWriter}
          /\ Coming' = Coming
      BY <1>5 DEF Keeping, Settled
    <2>2. WrittenItems' = WrittenItems /\ FirstDue' = FirstDue
      BY <1>4, <2>1 DEF FirstDue
    <2> QED BY <1>3, <1>b, <2>1, <2>2
  <1>6. CASE Making
    <2>1. /\ Written' = Written /\ UNCHANGED <<up, next, metaDue, crashes, shared, old>> /\ up
          /\ Alive
          /\ Coming' = Coming \cup {recorded + 1} /\ recorded' = recorded + 1
          /\ recorded + 1 > Inherited /\ crashes = 0 => 1..Inherited \subseteq WrittenItems
      BY <1>6, <1>a, AtWork DEF Making
    <2>2. WrittenItems' = WrittenItems /\ FirstDue' = FirstDue
      BY <1>4, <2>1 DEF FirstDue
    <2>3. recorded' <= Inherited
      BY <1>1, <1>3, <1>a, <1>b, <2>1 DEF Copied
    <2>4. FirstDue \in 1..(recorded + 1) /\ Coming = FirstDue..recorded
      BY <1>3, <2>1
    <2>5. Coming' = FirstDue..recorded' /\ FirstDue \in 1..(recorded' + 1)
      BY <1>a, <2>1, <2>4
    <2> QED BY <1>3, <1>b, <2>1, <2>2, <2>3, <2>5
  <1>7. CASE Resumes
    <2> DEFINE n == Len(Written)
    <2>1. n \in Nat \ {0} /\ Written[n].ordinal >= Inherited
      BY <1>2, <1>7 DEF Resumes
    <2>2. n \in 1..n
      BY <2>1
    <2>3. /\ Written[n].item \in Int /\ Written[n].item >= Inherited
          /\ 1..Written[n].item \subseteq WrittenItems
      BY <1>3, <1>a, <2>1, <2>2
    <2>4. 1..Inherited \subseteq 1..Written[n].item
      BY <1>b, <2>3
    <2> QED BY <1>1, <2>3, <2>4 DEF Copied
  <1>8. ASSUME Appends
        PROVE  /\ Due = IF metaDue THEN 0 ELSE FirstDue
               /\ next = Due
               /\ \A i \in 1..Len(Written') :
                     /\ Written'[i].ordinal = Written'[i].item
                     /\ 1..Written'[i].item \subseteq WrittenItems'
               /\ WrittenItems' = WrittenItems \cup {Due}
    <2>1. /\ FirstDue \in 1..(recorded + 1) /\ Coming = FirstDue..recorded
          /\ 1..(FirstDue - 1) \subseteq WrittenItems
          /\ metaDue => next = 0
      BY <1>3, <1>8, AtWork DEF Appends
    <2>2. \/ metaDue /\ Due = SessionMeta
          \/ ~metaDue /\ Due \in Coming /\ \A c \in Coming : Due <= c
      BY <1>8, DueIs DEF Appends
    <2>3. Due = IF metaDue THEN 0 ELSE FirstDue
      <3>1. CASE metaDue
        BY <2>2, <3>1 DEF SessionMeta
      <3>2. CASE ~metaDue
        <4>1. Due \in FirstDue..recorded
          BY <2>1, <2>2, <3>2
        <4>2. FirstDue \in FirstDue..recorded
          BY <1>a, <2>1, <4>1
        <4>3. Due <= FirstDue
          BY <2>1, <2>2, <3>2, <4>2
        <4> QED BY <1>a, <2>1, <3>2, <4>1, <4>3
      <3> QED BY <3>1, <3>2
    <2>4. next = Due
      BY <2>1, <2>3 DEF FirstDue
    <2>5. /\ Len(Written') = Len(Written) + 1
          /\ \A i \in 1..Len(Written) : Written'[i] = Written[i]
          /\ Written'[Len(Written) + 1].item = Due
          /\ Written'[Len(Written) + 1].ordinal = next
          /\ WrittenItems' = WrittenItems \cup {Due}
      BY <1>8, WrittenAppended
    <2>6. 1..Due \subseteq WrittenItems'
      <3>1. CASE metaDue
        BY <2>3, <3>1
      <3>2. CASE ~metaDue
        <4>1. 1..Due = 1..(FirstDue - 1) \cup {Due}
          BY <1>a, <2>1, <2>3, <3>2
        <4> QED BY <2>1, <2>5, <4>1
      <3> QED BY <3>1, <3>2
    <2>7. ASSUME NEW i \in 1..Len(Written')
          PROVE  /\ Written'[i].ordinal = Written'[i].item
                 /\ 1..Written'[i].item \subseteq WrittenItems'
      <3>1. CASE i \in 1..Len(Written)
        BY <1>3, <1>d, <2>5, <3>1
      <3>2. CASE i = Len(Written) + 1
        BY <2>4, <2>5, <2>6, <3>2
      <3> QED BY <1>a, <2>5, <3>1, <3>2
    <2> QED BY <2>3, <2>4, <2>5, <2>7
  <1>9. CASE Writes
    <2>1. /\ Alive /\ Appends /\ ~metaDue' /\ next' = next + 1
          /\ UNCHANGED <<up, recorded, crashes, shared, old>>
      BY <1>2, <1>9, AtWork DEF Writes, Appends
    <2>2. /\ FirstDue \in 1..(recorded + 1) /\ Coming = FirstDue..recorded
          /\ 1..(FirstDue - 1) \subseteq WrittenItems
      BY <1>3, <2>1
    <2>3. FirstDue' = next + 1
      BY <2>1 DEF FirstDue
    <2>4. CASE metaDue /\ Coming' = Coming
      <3>1. next = 0 /\ FirstDue = 1
        BY <1>3, <2>1, <2>4 DEF FirstDue
      <3>2. FirstDue' = FirstDue
        BY <2>3, <3>1
      <3> QED BY <1>3, <1>8, <1>b, <1>d, <2>1, <2>2, <2>4, <3>2
    <2>5. CASE ~metaDue /\ Due \in Coming /\ Coming' = Coming \ {Due}
      <3>1. Due = FirstDue /\ next = FirstDue
        BY <1>8, <2>1, <2>5
      <3>2. FirstDue <= recorded
        BY <1>a, <2>2, <2>5, <3>1
      <3>3. Coming' = FirstDue'..recorded /\ FirstDue' \in 1..(recorded + 1)
        BY <1>a, <2>2, <2>3, <2>5, <3>1, <3>2
      <3>4. 1..(FirstDue' - 1) \subseteq WrittenItems'
        <4>1. 1..(FirstDue' - 1) = 1..(FirstDue - 1) \cup {Due}
          BY <1>a, <2>2, <2>3, <3>1
        <4> QED BY <1>8, <2>1, <2>2, <4>1
      <3> QED BY <1>3, <1>8, <1>b, <2>1, <2>2, <3>3, <3>4
    <2> QED BY <1>9, <2>4, <2>5 DEF Writes
  <1>10. CASE Retries
    <2>1. /\ Alive /\ Appends /\ UNCHANGED <<metaDue, next, recorded, pending, queue, shared>>
          /\ (up' => up /\ UNCHANGED crashes) /\ old' \in {old, NoWriter}
      BY <1>10, AtWork DEF Retries, Settled, Appends
    <2>2. Coming' = Coming /\ FirstDue' = FirstDue
      BY <2>1, ComingAfter DEF Coming, FirstDue
    <2> QED BY <1>3, <1>8, <1>b, <1>d, <2>1, <2>2
  <1>11. CASE Ends
    <2>1. /\ ~Alive' /\ ~up' /\ UNCHANGED <<recorded, shared>> /\ old' \in {old, NoWriter}
      BY <1>11 DEF Ends, Alive
    <2>2. CASE Written' = Written
      BY <1>3, <1>4, <1>b, <2>1, <2>2
    <2>3. CASE Appends
      BY <1>3, <1>8, <1>b, <2>1, <2>3
    <2> QED BY <1>11, <2>2, <2>3 DEF Ends
  <1>12. CASE Shares
    BY <1>3, <1>12 DEF Shares
  <1> QED BY <1>5, <1>6, <1>7, <1>9, <1>10, <1>11, <1>12

-----------------------------------------------------------------------------
(* The projection.                                                         *)

ProjInv ==
    /\ offset \in 0..Len(Readable)
    /\ rows = Items(Selected(Readable, OwnLines(Readable, 1..offset)))

LEMMA ProjAfter ==
    ASSUME UNCHANGED thread, offset' \in 0..Len(Readable'),
           rows' = Items(Selected(Readable', OwnLines(Readable', 1..offset')))
    PROVE  ProjInv'
  BY DEF ProjInv, Items, Selected, Nth, OwnLines, WholeLines, Inherited

LEMMA OwnAre ==
    ASSUME NEW c \in Seq(Line), NEW lines
    PROVE  /\ OwnLines(c, lines) = {j \in WholeLines(c) : j \in lines /\ c[j].item > Inherited}
           /\ OwnLines(c, lines) \in SUBSET (1..Len(c))
           /\ OwnLines(c, lines) \subseteq lines
           /\ \A j \in OwnLines(c, lines) : c[j] \in Line /\ c[j].item > Inherited
  <1>1. \A j \in WholeLines(c) : j \in 1..Len(c) /\ c[j] \in Line
    BY WholeAre, ElementOfSeq
  <1> QED BY <1>1 DEF OwnLines

(* The rows of a file are items, and the metadata is not among them.       *)
LEMMA RowsTyped ==
    ASSUME NEW c \in Seq(Line), NEW lines, Inherited \in Nat
    PROVE  Items(Selected(c, OwnLines(c, lines))) \in Seq(Item)
  <1> DEFINE J == OwnLines(c, lines)
             s == Selected(c, J)
             n == Cardinality(J)
  <1>1. J \in SUBSET (1..Len(c)) /\ \A j \in J : c[j] \in Line /\ c[j].item > Inherited
    BY OwnAre
  <1>2. \A j \in J : c[j].item \in Item
    BY <1>1 DEF Line, SessionMeta, Item
  <1> HIDE DEF J
  <1>3. /\ s \in Seq(Line) /\ Len(s) = n /\ n \in Nat
        /\ \A i \in 1..n : Nth(J, i) \in J /\ s[i] = c[Nth(J, i)]
    BY <1>1, SelectedIs
  <1>4. \A i \in 1..n : s[i].item \in Item
    BY <1>2, <1>3
  <1> HIDE DEF s
  <1>5. DOMAIN s = 1..n
    BY <1>3
  <1>6. Items(s) = [i \in 1..n |-> s[i].item]
    BY <1>5 DEF Items
  <1> HIDE DEF n
  <1>7. Items(s) \in Seq(Item)
    BY <1>3, <1>4, <1>6
  <1> QED BY <1>7 DEF s, J

(* Lines that were consumed stay as they were.                             *)
LEMMA RowsAlike ==
    ASSUME NEW c \in Seq(Line), NEW d \in Seq(Line), Within(c, d), NEW m \in 0..Len(c)
    PROVE  /\ m \in 0..Len(d)
           /\ Items(Selected(d, OwnLines(d, 1..m))) = Items(Selected(c, OwnLines(c, 1..m)))
  <1>1. /\ Len(c) \in Nat /\ Len(d) \in Nat /\ Len(c) <= Len(d) /\ m \in Nat
        /\ \A j \in 1..m : j \in 1..Len(c) /\ j \in 1..Len(d)
    BY DEF Within
  <1>2. \A j \in 1..m : Alike(c[j], d[j])
    BY <1>1 DEF Within
  <1> DEFINE J == OwnLines(c, 1..m)
  <1>3. OwnLines(d, 1..m) = J
    <2>1. J = {j \in 1..m : c[j].whole /\ c[j].item > Inherited}
      BY <1>1, WholeAre DEF OwnLines
    <2>2. OwnLines(d, 1..m) = {j \in 1..m : d[j].whole /\ d[j].item > Inherited}
      BY <1>1, WholeAre DEF OwnLines
    <2> QED BY <1>2, <2>1, <2>2 DEF Alike
  <1>4. J \in SUBSET (1..Len(c))
    BY OwnAre
  <1> HIDE DEF J
  <1>5. /\ Selected(c, J) \in Seq(Line) /\ Selected(d, J) \in Seq(Line)
        /\ Len(Selected(d, J)) = Len(Selected(c, J))
        /\ \A i \in 1..Len(Selected(c, J)) : Alike(Selected(c, J)[i], Selected(d, J)[i])
    BY <1>4, SelectedAlike
  <1>6. Items(Selected(d, J)) = Items(Selected(c, J))
    <2> DEFINE s == Selected(c, J)
               t == Selected(d, J)
    <2> HIDE DEF s, t
    <2>1. s \in Seq(Line) /\ t \in Seq(Line) /\ Len(t) = Len(s)
          /\ \A i \in 1..Len(s) : s[i].item = t[i].item
      BY <1>5 DEF Alike, s, t
    <2>2. DOMAIN s = 1..Len(s) /\ DOMAIN t = 1..Len(s)
      BY <2>1
    <2>3. Items(t) = Items(s)
      BY <2>1, <2>2 DEF Items
    <2> QED BY <2>3 DEF s, t
  <1> QED BY <1>1, <1>3, <1>6 DEF J

LEMMA ItemsTyped ==
    ASSUME NEW u \in Seq(Line)
    PROVE  /\ Items(u) \in Seq(Message) /\ Len(Items(u)) = Len(u)
           /\ \A i \in 1..Len(u) : Items(u)[i] = u[i].item
  <1>1. /\ Len(u) \in Nat /\ DOMAIN u = 1..Len(u)
        /\ \A i \in 1..Len(u) : u[i] \in Line
    OBVIOUS
  <1>2. \A i \in 1..Len(u) : u[i].item \in Message
    BY <1>1 DEF Line, Message
  <1> QED BY <1>1, <1>2 DEF Items

LEMMA NothingSelected ==
    /\ WholeLines(<<>>) = {} /\ Selected(<<>>, {}) = <<>> /\ Items(<<>>) = <<>>
  <1>1. <<>> \in Seq(Line) /\ Len(<<>>) = 0
    BY EmptySeq
  <1>2. Selected(<<>>, {}) \in Seq(Line) /\ Len(Selected(<<>>, {})) = 0
    <2>1. Cardinality({}) = 0
      BY FS_EmptySet
    <2>2. {} \in SUBSET (1..Len(<<>>))
      OBVIOUS
    <2> QED BY <1>1, <2>1, <2>2, SelectedIs
  <1>3. Items(<<>>) \in Seq(Message) /\ Len(Items(<<>>)) = 0
    BY <1>1, ItemsTyped
  <1>4. WholeLines(<<>>) = {}
    BY DEF WholeLines
  <1> QED BY <1>2, <1>3, <1>4, EmptySeq

LEMMA ItemsOfParts ==
    ASSUME NEW s \in Seq(Line), NEW t \in Seq(Line)
    PROVE  Items(s \o t) = Items(s) \o Items(t)
  <1>1. /\ Len(s) \in Nat /\ Len(t) \in Nat /\ Len(s \o t) = Len(s) + Len(t)
        /\ s \o t \in Seq(Line)
        /\ \A i \in 1..(Len(s) + Len(t)) :
              (s \o t)[i] = IF i <= Len(s) THEN s[i] ELSE t[i - Len(s)]
    OBVIOUS
  <1>2. \A u \in Seq(Line) : /\ Items(u) \in Seq(Message) /\ Len(Items(u)) = Len(u)
                             /\ \A i \in 1..Len(u) : Items(u)[i] = u[i].item
    BY ItemsTyped
  <1>3. /\ Items(s) \in Seq(Message) /\ Items(t) \in Seq(Message) /\ Items(s \o t) \in Seq(Message)
        /\ Len(Items(s)) = Len(s) /\ Len(Items(t)) = Len(t) /\ Len(Items(s \o t)) = Len(s) + Len(t)
    BY <1>1, <1>2
  <1> DEFINE v == Items(s \o t)
             w == Items(s) \o Items(t)
  <1>4. /\ w \in Seq(Message) /\ Len(w) = Len(s) + Len(t)
        /\ \A i \in 1..(Len(s) + Len(t)) :
              w[i] = IF i <= Len(s) THEN Items(s)[i] ELSE Items(t)[i - Len(s)]
    <2> DEFINE a == Items(s)
               b == Items(t)
    <2>1. a \in Seq(Message) /\ b \in Seq(Message) /\ Len(a) = Len(s) /\ Len(b) = Len(t)
      BY <1>3
    <2> HIDE DEF a, b
    <2>2. /\ a \o b \in Seq(Message) /\ Len(a \o b) = Len(a) + Len(b)
          /\ \A i \in 1..(Len(a) + Len(b)) :
                (a \o b)[i] = IF i <= Len(a) THEN a[i] ELSE b[i - Len(a)]
      BY <2>1, ConcatProperties
    <2> QED BY <2>1, <2>2 DEF a, b
  <1>5. ASSUME NEW i \in 1..(Len(s) + Len(t)) PROVE v[i] = w[i]
    <2>1. v[i] = (s \o t)[i].item
      BY <1>1, <1>2
    <2>2. CASE i <= Len(s)
      <3>1. i \in 1..Len(s)
        BY <1>1, <2>2
      <3>2. Items(s)[i] = s[i].item
        BY <1>2, <3>1
      <3> QED BY <1>1, <1>4, <2>1, <2>2, <3>2
    <2>3. CASE ~(i <= Len(s))
      <3>1. i - Len(s) \in 1..Len(t)
        BY <1>1, <2>3
      <3>2. Items(t)[i - Len(s)] = t[i - Len(s)].item
        BY <1>2, <3>1
      <3> QED BY <1>1, <1>4, <2>1, <2>3, <3>2
    <2> QED BY <2>2, <2>3
  <1>6. v \in Seq(Message) /\ w \in Seq(Message) /\ Len(v) = Len(w) /\ Len(v) = Len(s) + Len(t)
    BY <1>3, <1>4
  <1> HIDE DEF v, w
  <1>7. v = w
    <2>1. \A i \in 1..Len(v) : v[i] = w[i]
      BY <1>5, <1>6
    <2>2. v \in Seq(Message) /\ w \in Seq(Message) /\ Len(v) = Len(w)
      BY <1>6
    <2> QED BY <2>1, <2>2, SeqEqual
  <1> QED BY <1>7 DEF v, w

LEMMA SelectedTyped ==
    ASSUME NEW c \in Seq(Line), NEW J \in SUBSET (1..Len(c))
    PROVE  Selected(c, J) \in Seq(Line)
  BY SelectedIs

(* What is not projected yet follows what is.                              *)
LEMMA RowsInParts ==
    ASSUME NEW c \in Seq(Line), NEW k \in 0..Len(c), NEW m \in 0..k
    PROVE  Items(Selected(c, OwnLines(c, 1..k))) =
             Items(Selected(c, OwnLines(c, 1..m))) \o Items(Selected(c, OwnLines(c, (m + 1)..k)))
  <1> DEFINE J == OwnLines(c, 1..m)
             K == OwnLines(c, (m + 1)..k)
  <1>1. Len(c) \in Nat /\ k \in Nat /\ m \in Nat /\ m <= k /\ k <= Len(c) /\ m \in 0..Len(c)
    OBVIOUS
  <1>2. 1..k = (1..m) \cup ((m + 1)..k)
    BY <1>1
  <1>3. OwnLines(c, 1..k) = J \cup K
    BY <1>2 DEF OwnLines
  <1>4. J \in SUBSET (1..Len(c)) /\ K \in SUBSET (1..Len(c))
    BY OwnAre
  <1>5. J \in SUBSET (1..m) /\ K \in SUBSET ((m + 1)..Len(c))
    <2>1. J \subseteq 1..m /\ K \subseteq (m + 1)..k
      BY OwnAre
    <2>2. (m + 1)..k \subseteq (m + 1)..Len(c)
      BY <1>1
    <2> QED BY <2>1, <2>2
  <1> HIDE DEF J, K
  <1>6. Selected(c, J \cup K) = Selected(c, J) \o Selected(c, K)
    <2>1. m \in 0..Len(c)
      BY <1>1
    <2> QED BY <1>5, <2>1, SelectedInParts, ZenonT(40)
  <1>7. Selected(c, J) \in Seq(Line) /\ Selected(c, K) \in Seq(Line)
    BY <1>4, SelectedTyped
  <1>8. Items(Selected(c, J) \o Selected(c, K)) = Items(Selected(c, J)) \o Items(Selected(c, K))
    BY <1>7, ItemsOfParts
  <1> QED BY <1>3, <1>6, <1>8 DEF J, K

LEMMA StepKeepsRows ==
    ASSUME TypeInv, TypeInv', WriterInv, JobInv, ProjInv, UNCHANGED thread, ~FileRaces,
           Recording \/ WorkerStep
    PROVE  ProjInv'
  <1>1. Readable \in Seq(Line) /\ Readable' \in Seq(Line) /\ Within(Readable, Readable')
    BY ReadableGrows
  <1>2. /\ offset \in 0..Len(Readable)
        /\ rows = Items(Selected(Readable, OwnLines(Readable, 1..offset)))
    BY DEF ProjInv
  <1>3. CASE UNCHANGED sqlVars
    <2>1. UNCHANGED <<offset, rows>>
      BY <1>3 DEF sqlVars
    <2>2. /\ offset \in 0..Len(Readable')
          /\ Items(Selected(Readable', OwnLines(Readable', 1..offset))) = rows
      BY <1>1, <1>2, RowsAlike
    <2> QED BY <2>1, <2>2, ProjAfter
  <1>4. CASE Project
    <2> DEFINE content == inode[plain]
               k == Complete(content)
    <2>1. /\ plain # NoFile /\ offset < k /\ UNCHANGED <<inode, plain, zst>>
          /\ rows' = rows \o Unprojected(content) /\ offset' = k
      BY <1>4 DEF Project, fileVars
    <2>2. Readable = content /\ Readable' = Readable
      BY <2>1 DEF Readable
    <2>3. k \in Int /\ k <= Len(content) /\ Len(content) \in Nat
      BY <1>1, <2>2 DEF Complete
    <2>4. k \in 0..Len(content) /\ offset \in 0..k
      BY <1>2, <2>1, <2>2, <2>3
    <2>5. Unprojected(content) = Items(Selected(content, OwnLines(content, (offset + 1)..k)))
      BY DEF Unprojected
    <2> HIDE DEF content, k
    <2>6. rows' = Items(Selected(content, OwnLines(content, 1..k)))
      <3>1. Items(Selected(content, OwnLines(content, 1..k))) =
              Items(Selected(content, OwnLines(content, 1..offset))) \o
                Items(Selected(content, OwnLines(content, (offset + 1)..k)))
        BY <1>1, <2>2, <2>4, RowsInParts
      <3>2. rows = Items(Selected(content, OwnLines(content, 1..offset)))
        BY <1>2, <2>2
      <3> QED BY <2>1, <2>5, <3>1, <3>2
    <2> QED BY <2>1, <2>2, <2>4, <2>6, ProjAfter
  <1>5. UNCHANGED sqlVars \/ Project
    BY DEF Recording, AppendItem, Request, Discard, OldWrites, OldStops, Crash, Resume,
           WriterStep, Receive, EnsureWriterOpen, OpenFails, WriteItem, WriteFails, WrittenAll,
           Answer, WorkerStep, JobStat, JobEncode, JobPersist, JobCheck, JobUnlink, JobFails
  <1> QED BY <1>3, <1>4, <1>5

-----------------------------------------------------------------------------
(* What is left of the types.                                              *)

RestInv ==
    /\ deferred \in BOOLEAN /\ metaDue \in BOOLEAN /\ attempt \in 1..2
    /\ taken \subseteq Item /\ acked \subseteq Item
    /\ faults \in 0..MaxFaults /\ crashes \in 0..MaxCrashes

LEMMA StepKeepsRest ==
    ASSUME TypeInv, OrderInv, RestInv, Recording \/ WorkerStep
    PROVE  RestInv'
  <1> USE DEF fileVars, bounds, history, sqlVars, writerVars
  <1>1. /\ queue # <<>> /\ Head(queue).op = "Add" => Head(queue).item \in Item
    <2>1. queue \in Seq(Command) /\ recorded \in 0..MaxItem /\ MaxItem \in Nat
      BY BoundAssumption DEF TypeInv
    <2>2. ASSUME queue # <<>>, Head(queue).op = "Add" PROVE Head(queue).item \in AddsOf(queue)
      BY <2>1, <2>2, CommandTaken DEF OrderInv
    <2>3. AddsOf(queue) \subseteq 1..recorded
      BY DEF OrderInv, Coming
    <2>4. 1..recorded \subseteq 1..MaxItem
      BY <2>1
    <2> QED BY <2>2, <2>3, <2>4 DEF Item
  <1>2. UNCHANGED faults \/ Fault
    BY DEF Recording, AppendItem, Request, Discard, OldWrites, OldStops, Crash, Resume, Project,
           WriterStep, Receive, EnsureWriterOpen, OpenFails, WriteItem, WriteFails, WrittenAll,
           Answer, WorkerStep, JobStat, JobEncode, JobPersist, JobCheck, JobUnlink, JobFails
  <1>3. faults' \in 0..MaxFaults
    BY <1>2, BoundAssumption DEF RestInv, Fault
  <1>b. deferred' \in BOOLEAN /\ metaDue' \in BOOLEAN
    <2>1. UNCHANGED deferred \/ deferred' = FALSE
      BY DEF Recording, AppendItem, Request, Discard, OldWrites, OldStops, Crash, Gone, Resume,
           Project, WriterStep, Receive, EnsureWriterOpen, OpenFails, WriteItem, WriteFails,
           WrittenAll, Answer, WorkerStep, JobStat, JobEncode, JobPersist, JobCheck, JobUnlink, JobFails
    <2>2. UNCHANGED metaDue \/ metaDue' = FALSE
      BY DEF Recording, AppendItem, Request, Discard, OldWrites, OldStops, Crash, Gone, Resume,
           Project, WriterStep, Receive, EnsureWriterOpen, OpenFails, WriteItem, WriteFails,
           WrittenAll, Answer, WorkerStep, JobStat, JobEncode, JobPersist, JobCheck, JobUnlink, JobFails
    <2>3. deferred \in BOOLEAN /\ metaDue \in BOOLEAN
      BY DEF RestInv
    <2>4. deferred' \in BOOLEAN
      BY <2>1, <2>3
    <2>5. metaDue' \in BOOLEAN
      BY <2>2, <2>3
    <2> QED BY <2>4, <2>5
  <1>4. ASSUME UNCHANGED crashes, taken' = taken \/ taken' = {}, acked' = acked \/ acked' = acked \cup taken,
               attempt' = attempt \/ attempt' \in {1, 2}
        PROVE  RestInv'
    BY <1>3, <1>4, <1>b DEF RestInv
  <1>c. ASSUME crashes < MaxCrashes, crashes' = crashes + 1, taken' = taken \/ taken' = {},
               acked' = acked, attempt' \in {1, attempt}
        PROVE  RestInv'
    BY <1>3, <1>b, <1>c, BoundAssumption DEF RestInv
  <1>5. CASE Receive
    <2>1. /\ UNCHANGED <<acked, crashes>> /\ attempt' = 1 /\ queue # <<>>
          /\ taken' = IF Head(queue).op = "Add" THEN taken \cup {Head(queue).item} ELSE taken
      BY <1>5 DEF Receive
    <2> QED BY <1>1, <1>3, <1>b, <2>1 DEF RestInv
  <1>6. CASE Crash
    BY <1>6, <1>c DEF Crash, Gone
  <1>12. CASE Discard
    BY <1>12, <1>c DEF Discard, Gone
  <1>7. CASE Resume
    <2>1. /\ UNCHANGED <<acked, crashes>> /\ attempt' \in {1, attempt}
          /\ taken' = taken \/ taken' = {}
      BY <1>7 DEF Resume
    <2> QED BY <1>4, <2>1
  <1>8. CASE OpenFails \/ WriteFails
    <2>1. Recover /\ UNCHANGED <<taken, acked, crashes>>
      BY <1>8 DEF OpenFails, WriteFails
    <2> QED BY <1>4, <2>1 DEF Recover
  <1>9. CASE \/ AppendItem \/ (\E op \in {"Persist", "Flush", "Shutdown"} : Request(op)) \/ Project
             \/ EnsureWriterOpen \/ WriteItem \/ WrittenAll \/ OldWrites \/ OldStops
    <2>1. UNCHANGED <<taken, acked, crashes, attempt>>
      BY <1>9 DEF AppendItem, Request, Project, EnsureWriterOpen, WriteItem, WrittenAll,
                  OldWrites, OldStops
    <2> QED BY <1>4, <2>1
  <1>10. CASE Answer
    BY <1>4, <1>10 DEF Answer, Gone
  <1>11. CASE WorkerStep
    BY <1>4, <1>11 DEF WorkerStep, JobStat, JobEncode, JobPersist, JobCheck, JobUnlink, JobFails
  <1> QED BY <1>5, <1>6, <1>7, <1>8, <1>9, <1>10, <1>11, <1>12 DEF Recording, WriterStep

(* The acknowledgements come from the writer, when it has nothing to write. *)
LEMMA StepKeepsAcked ==
    ASSUME TypeInv, TypeInv', WriterInv, JobInv, ~FileRaces, Recording \/ WorkerStep
    PROVE  acked' = acked \/ (acked \subseteq acked' /\ Written' = Written /\ UNCHANGED shared)
  <1>1. CASE Answer
    <2>1. step = "answer" /\ acked \subseteq acked' /\ UNCHANGED <<recorded, shared, old>>
      BY <1>1 DEF Answer, handed
    <2>2. ~HasDue /\ ~(WriteItem \/ WriteFails)
      BY <2>1 DEF WriteItem, WriteFails, HasDue
    <2>3. CASE Crash \/ OldWrites
      <3>1. UNCHANGED acked
        BY <2>3 DEF Crash, OldWrites, history
      <3> QED BY <3>1
    <2>4. CASE ~(Crash \/ OldWrites)
      BY <2>1, <2>2, <2>4, WrittenMoves
    <2> QED BY <2>3, <2>4
  <1>2. CASE ~Answer
    <2>1. UNCHANGED acked
      BY <1>2 DEF Recording, AppendItem, Request, Discard, OldWrites, OldStops, Crash, Resume,
           Project, WriterStep, Receive, EnsureWriterOpen, OpenFails, WriteItem, WriteFails,
           WrittenAll, WorkerStep, JobStat, JobEncode, JobPersist, JobCheck, JobUnlink, JobFails,
           fileVars, bounds, history, sqlVars, writerVars
    <2> QED BY <2>1
  <1> QED BY <1>1, <1>2

-----------------------------------------------------------------------------
RecorderInv ==
    /\ TypeInv /\ WriterInv /\ JobInv /\ KeptInv /\ OrderInv
    /\ ThreadInv /\ LogInv /\ NumberInv /\ FirstInv /\ ProjInv /\ RestInv

LEMMA InitRecorder == Init => RecorderInv
  <1> SUFFICES ASSUME Init PROVE RecorderInv
    OBVIOUS
  <1>1. LinesTyped
    BY EmptySeq DEF NoOrdinal, Init, LinesTyped, FilesTyped, JobTyped, NoJob, NoFile
  <1>2. TypeInv
    BY <1>1, EmptySeq, CommandsTyped, BoundAssumption DEF Init, TypeInv, NamesTyped, NoFile, Steps
  <1>3. WriterInv /\ JobInv
    <2>1. NoWriter \in [file : Nat, next : Int, items : Seq(Message)]
      BY EmptySeq DEF NoWriter, NoFile, NoOrdinal
    <2> QED BY <2>1 DEF Init, WriterInv, HandInv, JobInv, NoJob
  <1>4. KeptInv
    BY DEF Init, KeptInv, AckedReadable
  <1>5. OrderInv /\ Coming = {}
    BY NothingComing DEF Init, OrderInv, Coming
  <1>6. Readable = <<>> /\ <<>> \in Seq(Line)
    BY EmptySeq DEF Init, Readable
  <1>7. Len(Written) = 0
    <2>1. Records(<<>>) = <<>>
      BY NothingSelected DEF Records
    <2>2. Len(Entries(<<>>)) = Len(Records(<<>>))
      BY <1>6, EntriesAre
    <2>3. Len(<<>>) = 0
      BY EmptySeq
    <2> QED BY <1>6, <2>1, <2>2, <2>3 DEF Written
  <1>8. ThreadInv /\ RestInv
    BY BoundAssumption DEF Init, ThreadInv, RestInv
  <1>9. LogInv
    BY <1>7 DEF LogInv
  <1>10. NumberInv
    BY <1>7 DEF Init, NumberInv, Numbered
  <1>11. FirstInv
    <2>1. thread.inherited \in Nat /\ (thread.inherited > 0 => thread.paginated)
      BY SettingAssumption, <1>8 DEF ThreadInv
    <2>2. ~Copied => Inherited > 0
      BY <2>1 DEF Copied, Inherited
    <2>3. /\ recorded = 0 /\ metaDue /\ crashes = 0 /\ (Paginated => next = 0)
          /\ ~shared /\ old = NoWriter
      BY DEF Init
    <2> QED BY <1>5, <1>7, <2>1, <2>2, <2>3 DEF FirstInv, FirstDue, Inherited, Paginated
  <1>12. ProjInv
    <2>1. offset = 0 /\ rows = <<>>
      BY DEF Init
    <2>2. OwnLines(<<>>, 1..0) = {}
      BY NothingSelected DEF OwnLines
    <2>3. offset \in 0..Len(<<>>)
      BY <2>1, EmptySeq
    <2>4. rows = Items(Selected(<<>>, OwnLines(<<>>, 1..offset)))
      BY <2>1, <2>2, NothingSelected
    <2> QED BY <1>6, <2>3, <2>4 DEF ProjInv
  <1> QED BY <1>2, <1>3, <1>4, <1>5, <1>8, <1>9, <1>10, <1>11, <1>12 DEF RecorderInv

LEMMA StepKeepsRecorder ==
    ASSUME ~FileRaces, RecorderInv, [Next]_vars
    PROVE  RecorderInv'
  <1> USE DEF RecorderInv
  <1>1. CASE Recording \/ WorkerStep
    <2>1. TypeInv'
      BY <1>1, WriterTyped, OthersTyped, WorkerTyped DEF Recording
    <2>2. WriterInv' /\ JobInv' /\ KeptInv'
      BY <1>1, <2>1, StepKeepsWriter, StepKeepsJob, StepKeepsItems
    <2>3. OrderInv' /\ RestInv'
      BY <1>1, StepKeepsOrder, StepKeepsRest
    <2>4. /\ UNCHANGED thread
          /\ Keeping \/ Making \/ Writes \/ Retries \/ Ends \/ Resumes \/ Shares
      BY <1>1, <2>1, StepIsOneOf
    <2>5. LogInv' /\ NumberInv' /\ FirstInv'
      BY <2>4, StepKeepsLog, StepKeepsNumbers, StepKeepsFirst
    <2>6. ProjInv'
      BY <1>1, <2>1, <2>4, StepKeepsRows
    <2>7. ThreadInv'
      BY <2>4 DEF ThreadInv
    <2> QED BY <2>1, <2>2, <2>3, <2>5, <2>6, <2>7
  <1>2. CASE UNCHANGED vars
    <2>1. /\ UNCHANGED <<inode, plain, zst, up, fd, pending, next, queue, step, cmd, job, recorded>>
          /\ UNCHANGED <<taken, acked, thread, faults, crashes, deferred, metaDue, attempt>>
          /\ UNCHANGED <<offset, rows, old, shared>>
      BY <1>2 DEF vars, fileVars, writerVars, handed, sqlVars, history, bounds
    <2>2. LinesTyped
      BY DEF TypeInv
    <2>3. LinesTyped'
      BY <2>1, <2>2 DEF LinesTyped, FilesTyped, JobTyped
    <2>4. TypeInv'
      BY <2>1, <2>3 DEF TypeInv, NamesTyped
    <2>5. WriterInv'
      BY <2>1, EndedAfter DEF WriterInv, HandInv
    <2>6. JobInv'
      BY <2>1, JobAfter DEF JobInv
    <2>7. Readable' = Readable /\ Pending' = Pending
      BY <2>1 DEF Readable, Pending
    <2>8. KeptInv'
      BY <2>1, <2>7, KeptAfter DEF KeptInv, AckedReadable, Alive, Idle
    <2>9. OrderInv' /\ Coming' = Coming
      BY <2>1, OrderAfter, ComingAfter DEF OrderInv, Coming
    <2>10. Written' = Written
      BY <2>7 DEF Written, Entries, Entry, Records, Selected, Nth, WholeLines
    <2>11. Keeping
      BY <2>1, <2>9, <2>10 DEF Keeping, Settled, Alive, Idle
    <2>12. LogInv' /\ NumberInv' /\ FirstInv'
      BY <2>1, <2>11, StepKeepsLog, StepKeepsNumbers, StepKeepsFirst
    <2>13. ProjInv'
      BY <2>1, <2>7, ProjAfter DEF ProjInv
    <2>14. ThreadInv' /\ RestInv'
      BY <2>1 DEF ThreadInv, RestInv
    <2> QED BY <2>4, <2>5, <2>6, <2>8, <2>9, <2>12, <2>13, <2>14
  <1> QED BY <1>1, <1>2, RecordingOrWorker

(* The invariant that the theorems below rest on.                          *)
THEOREM RecorderInvariance ==
    ASSUME ~FileRaces
    PROVE  Spec => []RecorderInv
  BY InitRecorder, StepKeepsRecorder, PTL DEF Spec

(* What a successful flush, persist or shutdown of the recorder covered is *)
(* in the file that a reader opens, for any number of items, of failed and *)
(* partial writes, crashes, resumes and compressions (write_all_pending,   *)
(* materialize_rollout_for_append, compress_rollout_if_cold).              *)
THEOREM AcknowledgedIsReadable ==
    ASSUME ~FileRaces
    PROVE  Spec => []AckedReadable
  <1>1. RecorderInv => AckedReadable
    BY DEF RecorderInv, KeptInv
  <1> QED BY <1>1, RecorderInvariance, PTL

(* While the recorder lives, an item that its writer took off the channel  *)
(* is in the file or among pending_items, whichever write failed.          *)
THEOREM NothingTakenIsLost ==
    ASSUME ~FileRaces
    PROVE  Spec => []TakenKept
  <1>1. RecorderInv => TakenKept
    BY AtWork DEF RecorderInv, KeptInv, TakenKept, Pending
  <1> QED BY <1>1, RecorderInvariance, PTL

(* Every variable keeps its type: the files hold lines, their names are of *)
(* files that exist, and a record has the number of an item that was made. *)
THEOREM RecorderTyped ==
    ASSUME ~FileRaces
    PROVE  Spec => []TypeOK
  <1>1. ASSUME RecorderInv PROVE TypeOK
    <2> USE <1>1 DEF RecorderInv
    <2>1. pending \in Seq(Item)
      <3>1. recorded \in 0..MaxItem /\ MaxItem \in Nat /\ pending \in Seq(Message)
        BY BoundAssumption DEF TypeInv
      <3>2. 1..recorded \subseteq Item
        BY <3>1 DEF Item
      <3>3. Range(pending) \subseteq Item
        BY <3>2 DEF OrderInv, Coming
      <3>4. Len(pending) \in Nat /\ DOMAIN pending = 1..Len(pending)
            /\ pending = [i \in 1..Len(pending) |-> pending[i]]
        BY <3>1
      <3>5. \A i \in 1..Len(pending) : pending[i] \in Item
        BY <3>3, <3>4 DEF Range
      <3> QED BY <3>4, <3>5
    <2>2. rows \in Seq(Item) /\ offset \in Nat
      <3>1. Readable \in Seq(Line) /\ Inherited \in Nat
        BY ReadableTyped, SettingAssumption DEF ThreadInv, Inherited
      <3>2. rows \in Seq(Item)
        BY <3>1, RowsTyped DEF ProjInv
      <3>3. offset \in 0..Len(Readable) /\ Len(Readable) \in Nat
        BY <3>1 DEF ProjInv
      <3> QED BY <3>2, <3>3
    <2>3. old \in [file : 0..Len(inode), next : Int, items : Seq(Item \cup {SessionMeta})]
      <3>1. old \in [file : Nat, next : Int, items : Seq(Message)]
        BY DEF WriterInv, HandInv
      <3>2. old.file \in 0..Len(inode)
        BY DEF WriterInv, HandInv, NoWriter, NoFile, TypeInv, NamesTyped, LinesTyped, FilesTyped
      <3> QED BY <3>1, <3>2 DEF Message
    <2>4. shared \in BOOLEAN
      BY DEF WriterInv, HandInv
    <2> QED BY <2>1, <2>2, <2>3, <2>4 DEF TypeOK, TypeInv, LinesTyped, FilesTyped, JobTyped,
                                          NamesTyped, ThreadInv, RestInv, Steps
  <1> QED BY <1>1, RecorderInvariance, PTL

(* The ordinals of the records in the file begin at 0 and follow one       *)
(* another, a record that was written again keeping the one it had:        *)
(* whichever writes failed, and wherever the process died and resumed, as  *)
(* long as no discarded writer appended beside its successor               *)
(* (write_rollout_item, RolloutOrdinalState, last_rollout_ordinal).        *)
THEOREM OrdinalsAreInOrder ==
    ASSUME ~FileRaces
    PROVE  Spec => []OrdinalsFollow
  <1>1. ASSUME RecorderInv PROVE OrdinalsFollow
    <2> DEFINE r == Records(Readable)
    <2>1. Readable \in Seq(Line)
      BY <1>1, ReadableTyped DEF RecorderInv
    <2>2. /\ DOMAIN r = 1..Len(r) /\ Len(r) \in Nat /\ Len(Written) = Len(r)
          /\ \A i \in 1..Len(r) : Written[i] = Entry(r[i])
      BY <2>1, EntriesAre DEF Written
    <2>3. Paginated /\ ~shared => Numbered(Written)
      BY <1>1 DEF RecorderInv, NumberInv
    <2> HIDE DEF r
    <2>4. \A i \in 1..Len(r) : Written[i].item = r[i].item /\ Written[i].ordinal = r[i].ordinal
      <3>1. \A i \in 1..Len(r) : Entry(r[i]).item = r[i].item /\ Entry(r[i]).ordinal = r[i].ordinal
        BY DEF Entry
      <3> QED BY <2>2, <3>1
    <2>5. ASSUME Paginated, ~shared, NEW i \in DOMAIN r
          PROVE  IF i = 1 THEN r[i].ordinal = 0
                 ELSE r[i].ordinal = IF r[i].item = r[i - 1].item THEN r[i - 1].ordinal
                                     ELSE r[i - 1].ordinal + 1
      <3>1. i \in 1..Len(Written) /\ (i # 1 => i - 1 \in 1..Len(r))
        BY <2>2
      <3>2. IF i = 1 THEN Written[i].ordinal = 0
            ELSE Written[i].ordinal =
                   IF Written[i].item = Written[i - 1].item THEN Written[i - 1].ordinal
                   ELSE Written[i - 1].ordinal + 1
        BY <2>3, <2>5, <3>1 DEF Numbered
      <3> QED BY <2>2, <2>4, <3>1, <3>2
    <2> QED BY <2>5 DEF OrdinalsFollow, r
  <1> QED BY <1>1, RecorderInvariance, PTL

(* A child's file has no record of its own before it has all that the      *)
(* child inherits, also when the process died in the middle of the copy    *)
(* (ensure_subagent_history_complete refuses to append to such a file).    *)
THEOREM InheritedComesFirst ==
    ASSUME ~FileRaces
    PROVE  Spec => []InheritedFirst
  <1>1. ASSUME RecorderInv PROVE InheritedFirst
    <2>1. ItemsIn(Readable) = WrittenItems /\ Len(Written) \in Nat
      BY <1>1, WrittenTyped DEF RecorderInv, WrittenItems
    <2>2. ASSUME ~Copied, NEW i \in ItemsIn(Readable) PROVE ~(i > Inherited)
      <3>1. PICK j \in 1..Len(Written) : i = Written[j].item
        BY <2>1, <2>2 DEF WrittenItems
      <3>2. i <= recorded /\ recorded <= Inherited
        BY <1>1, <2>2, <3>1 DEF RecorderInv, LogInv, FirstInv
      <3>3. i \in Int /\ recorded \in Int /\ Inherited \in Int
        BY <1>1, <3>1, WrittenTyped, SettingAssumption
           DEF RecorderInv, Message, Item, SessionMeta, TypeInv, ThreadInv, Inherited
      <3> QED BY <3>2, <3>3
    <2> QED BY <2>1, <2>2 DEF InheritedFirst, Copied
  <1> QED BY <1>1, RecorderInvariance, PTL

(* The rows of the projection are the own records of the lines that it     *)
(* consumed, once each and in the order of the file, whichever file stands *)
(* for the thread (materialize_to_sqlite).                                 *)
THEOREM ProjectionIsExact ==
    ASSUME ~FileRaces
    PROVE  Spec => []ProjectionExact
  <1>1. RecorderInv => ProjectionExact
    BY DEF RecorderInv, ProjInv, ProjectionExact
  <1> QED BY <1>1, RecorderInvariance, PTL

LEMMA LogIs ==
    ASSUME NEW c \in Seq(Line)
    PROVE  /\ LogOf(c) \in Seq(Message) /\ Len(LogOf(c)) = Len(Entries(c))
           /\ \A i \in 1..Len(Entries(c)) : LogOf(c)[i] = Entries(c)[i].item
  <1> DEFINE J == WholeLines(c)
             all == Items(c)
  <1>1. all \in Seq(Message) /\ Len(all) = Len(c) /\ \A j \in 1..Len(c) : all[j] = c[j].item
    BY ItemsTyped
  <1>2. J \in SUBSET (1..Len(c))
    BY DEF WholeLines
  <1> HIDE DEF J, all
  <1>3. /\ Selected(all, J) \in Seq(Message) /\ Len(Selected(all, J)) = Cardinality(J)
        /\ \A i \in 1..Cardinality(J) : Nth(J, i) \in J /\ Selected(all, J)[i] = all[Nth(J, i)]
    BY <1>1, <1>2, SelectedIs
  <1>4. /\ Len(Selected(c, J)) = Cardinality(J)
        /\ \A i \in 1..Cardinality(J) : Selected(c, J)[i] = c[Nth(J, i)]
    BY <1>2, SelectedIs
  <1>5. /\ Len(Entries(c)) = Len(Selected(c, J))
        /\ \A i \in 1..Len(Selected(c, J)) : Entries(c)[i] = Entry(Selected(c, J)[i])
    BY EntriesAre DEF Records, J
  <1>6. ASSUME NEW i \in 1..Cardinality(J) PROVE Selected(all, J)[i] = Entries(c)[i].item
    <2>1. Entries(c)[i].item = c[Nth(J, i)].item
      BY <1>4, <1>5 DEF Entry
    <2> QED BY <1>1, <1>2, <1>3, <2>1
  <1> QED BY <1>3, <1>4, <1>5, <1>6 DEF LogOf, J, all

(* To a reader the file is a log that only grows, in the order in which    *)
(* the records were made unless a discarded writer appended beside its     *)
(* successor, and that keeps what was acknowledged: the recorder           *)
(* implements RolloutLog.                                                  *)
THEOREM RecorderIsALog ==
    ASSUME ~FileRaces
    PROVE  Spec => KeepsItsLog
  <1> DEFINE l == LogOf(Readable)
  <1>1. ASSUME Init PROVE Log!Init
    <2>1. Readable = <<>> /\ acked = {} /\ <<>> \in Seq(Line)
      BY <1>1, EmptySeq DEF Init, Readable
    <2>2. l = <<>>
      BY <2>1, NothingSelected DEF LogOf
    <2>3. shared = FALSE
      BY <1>1 DEF Init
    <2> QED BY <2>1, <2>2, <2>3 DEF Log!Init
  <1>2. ASSUME RecorderInv, RecorderInv', [Next]_vars
        PROVE  [Log!Next]_<<l, acked, shared>>
    <2> DEFINE n == Len(Written)
               m == LogOf(Readable')
    <2>1. l' = m
      BY DEF LogOf, Items, Records, Selected, Nth, WholeLines
    <2>2. Readable \in Seq(Line) /\ Readable' \in Seq(Line)
      BY <1>2, ReadableTyped, ReadableTypedAfter DEF RecorderInv
    <2>3. Written' = Entries(Readable')
      BY DEF Written, Entries, Entry, Records, Selected, Nth, WholeLines
    <2>4. /\ l \in Seq(Message) /\ Len(l) = n /\ n \in Nat
          /\ \A i \in 1..n : l[i] = Written[i].item
      BY <2>2, LogIs DEF Written
    <2>5. /\ m \in Seq(Message) /\ Len(m) = Len(Written')
          /\ \A i \in 1..Len(Written') : m[i] = Written'[i].item
      BY <2>2, <2>3, LogIs
    <2> HIDE DEF l, m, n
    <2>6. CASE UNCHANGED vars
      <3>1. Readable' = Readable /\ acked' = acked /\ shared' = shared
        BY <2>6 DEF vars, fileVars, history, handed, Readable
      <3> QED BY <2>1, <3>1 DEF l, m
    <2>7. CASE Recording \/ WorkerStep
      <3>1. /\ UNCHANGED thread
            /\ Keeping \/ Making \/ Writes \/ Retries \/ Ends \/ Resumes \/ Shares
            /\ \/ acked' = acked
               \/ acked \subseteq acked' /\ Written' = Written /\ UNCHANGED shared
        BY <1>2, <2>7, StepIsOneOf, StepKeepsAcked DEF RecorderInv
      <3>2. /\ shared' \in BOOLEAN /\ shared \in BOOLEAN /\ (shared => shared')
            /\ \/ Written' = Written
               \/ Appends /\ acked' = acked
               \/ shared' /\ acked' = acked /\ \E e \in AnEntry : Written' = Append(Written, e)
        <4>1. UNCHANGED shared \/ shared'
          BY <3>1 DEF Keeping, Making, Writes, Retries, Ends, Resumes, Shares, Settled
        <4>2. shared' \in BOOLEAN /\ shared \in BOOLEAN
          BY <1>2 DEF RecorderInv, WriterInv, HandInv
        <4>3. \/ Written' = Written \/ Appends
              \/ shared' /\ \E e \in AnEntry : Written' = Append(Written, e)
          BY <3>1 DEF Keeping, Making, Writes, Retries, Ends, Resumes, Shares
        <4> QED BY <3>1, <4>1, <4>2, <4>3
      <3>6. Range(l) = {l[i] : i \in DOMAIN l}
        BY DEF Range
      <3>3. CASE Written' = Written
        <4>1. m = l
          <5>1. Len(m) = Len(l) /\ \A i \in 1..Len(m) : m[i] = l[i]
            BY <2>4, <2>5, <3>3 DEF n
          <5> QED BY <2>4, <2>5, <5>1, SeqEqual
        <4>2. acked' \subseteq {l[i] : i \in DOMAIN l}
          <5>1. acked' \subseteq ItemsIn(Readable')
            <6>1. ItemsIn(Readable)' = ItemsIn(Readable')
              BY DEF ItemsIn, WholeLines
            <6> QED BY <1>2, <6>1 DEF RecorderInv, KeptInv, AckedReadable
          <5>2. ItemsIn(Readable') = {Written'[i].item : i \in 1..Len(Written')}
            BY <2>2, <2>3, EntriesAre
          <5>3. DOMAIN l = 1..n /\ Len(Written') = n
            BY <2>4, <3>3 DEF n
          <5> QED BY <2>4, <3>3, <5>1, <5>2, <5>3
        <4>3. CASE UNCHANGED shared
          BY <2>1, <3>1, <4>1, <4>2, <4>3 DEF Log!Next, Log!Acknowledge, Log!Range, l
        <4>4. CASE shared' = TRUE /\ acked' = acked
          BY <2>1, <4>1, <4>4 DEF Log!Next, Log!Share, l
        <4> QED BY <3>1, <3>2, <4>3, <4>4
      <3>7. ASSUME NEW x \in Message, m = Append(l, x), acked' = acked,
                   ~shared' /\ l # <<>> => x >= l[Len(l)]
            PROVE  Log!Next
        <4>1. Log!AppendRecord(x)
          BY <2>1, <3>2, <3>7 DEF Log!AppendRecord, l
        <4> QED BY <4>1 DEF Log!Next, Message
      <3>8. ASSUME NEW x \in Message, Len(Written') = n + 1,
                   \A i \in 1..n : Written'[i] = Written[i], Written'[n + 1].item = x
            PROVE  m = Append(l, x)
        <4>1. /\ Append(l, x) \in Seq(Message) /\ Len(Append(l, x)) = n + 1
              /\ \A i \in 1..n : Append(l, x)[i] = l[i]
              /\ Append(l, x)[n + 1] = x
          BY <2>4, AppendProperties
        <4>2. 1..(n + 1) = (1..n) \cup {n + 1}
          BY <2>4
        <4>3. Len(m) = n + 1 /\ \A i \in 1..(n + 1) : m[i] = Append(l, x)[i]
          BY <2>4, <2>5, <3>8, <4>1, <4>2
        <4> QED BY <2>5, <4>1, <4>3, SeqEqual
      <3>4. CASE Appends /\ acked' = acked
        <4>1. /\ n \in Nat /\ Len(Written') = n + 1
              /\ \A i \in 1..n : Written'[i] = Written[i]
              /\ Written'[n + 1].item = Due
          BY <1>2, <3>4, WrittenAppended DEF RecorderInv, n
        <4>2. Due \in Message /\ Due \in Int
          <5>1. NewEntry \in AnEntry /\ NewEntry.item = Due /\ Due \in Int
            BY <1>2, <3>4, DueIs DEF RecorderInv, Appends
          <5> QED BY <5>1 DEF AnEntry, Message
        <4>0. PICK x \in Message : x = Due
          BY <4>2
        <4>3. m = Append(l, x)
          BY <3>8, <4>0, <4>1
        <4>4. ~shared' /\ l # <<>> => x >= l[Len(l)]
          <5>1. \/ metaDue /\ Due = SessionMeta
                \/ ~metaDue /\ Due \in Coming
            BY <1>2, <3>4, DueIs DEF RecorderInv, Appends
          <5>2. Alive
            BY <3>4, AtWork DEF Appends
          <5>3. ASSUME n # 0, ~shared' PROVE Due >= Written[n].item
            <6>1. n \in 1..Len(Written)
              BY <4>1, <5>3 DEF n
            <6>2. /\ \A c \in Coming : Written[n].item <= c
                  /\ metaDue => Written[n].item = SessionMeta
              BY <1>2, <3>2, <5>2, <5>3, <6>1 DEF RecorderInv, LogInv
            <6>3. Written[n].item \in Int
              BY <1>2, <6>1, WrittenTyped DEF RecorderInv, Message, Item, SessionMeta
            <6> QED BY <4>2, <5>1, <6>2, <6>3 DEF SessionMeta
          <5>4. l # <<>> => n # 0
            BY <2>4
          <5> QED BY <2>4, <4>0, <5>3, <5>4
        <4> QED BY <3>4, <3>7, <4>3, <4>4
      <3>5. ASSUME shared', acked' = acked, NEW e \in AnEntry, Written' = Append(Written, e)
            PROVE  Log!Next
        <4>1. Written \in Seq(AnEntry)
          BY <1>2, WrittenTyped DEF RecorderInv
        <4>2. /\ Len(Written') = n + 1 /\ Written'[n + 1] = e
              /\ \A i \in 1..n : Written'[i] = Written[i]
          BY <3>5, <4>1, AppendProperties DEF n
        <4>3. PICK x \in Message : x = e.item
          BY DEF AnEntry, Message
        <4>4. m = Append(l, x)
          BY <3>8, <4>2, <4>3
        <4> QED BY <3>5, <3>7, <4>4
      <3> QED BY <3>2, <3>3, <3>4, <3>5
    <2> QED BY <1>2, <2>6, <2>7, RecordingOrWorker DEF l
  <1> QED BY <1>1, <1>2, RecorderInvariance, PTL DEF Spec, KeepsItsLog, Log!Spec
===============================================================================
