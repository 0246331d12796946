-------------------------- MODULE Questions_proofs --------------------------
(***************************************************************************)
(* What the analysis of a question and a question about stored fields      *)
(* promise, for every request about every model.  The analysis: the floors *)
(* are bands of the storeys, the classes counted are one family, nothing   *)
(* that restricts the question leaves the ledger, and an item of it gets   *)
(* its share of the advice.  The fields: a condition honours the value it  *)
(* was given, one is refused only for a value that is not recorded, counts *)
(* add up, and a highlighted group holds the object it was asked for.      *)
(***************************************************************************)
EXTENDS QuestionAnalysis, FieldQueries, FiniteSetTheorems, SequenceTheorems, WellFoundedInduction, TLAPS

(***************************************************************************)
(* Ranks in a finite strict total order.  The rank of a member counts what *)
(* comes before it; ranks differ, so they are all the numbers below the    *)
(* size of the set.                                                        *)
(***************************************************************************)
Rank(S, R, x) == Cardinality({y \in S : <<y, x>> \in R})

StrictOrder(S, R) ==
  /\ \A x \in S : <<x, x>> \notin R
  /\ \A x, y \in S : x # y => <<x, y>> \in R \/ <<y, x>> \in R
  /\ \A x, y, z \in S : <<x, y>> \in R /\ <<y, z>> \in R => <<x, z>> \in R

LEMMA RanksGrow ==
  ASSUME NEW S, IsFiniteSet(S), NEW R, StrictOrder(S, R), NEW x \in S, NEW y \in S, <<x, y>> \in R
  PROVE  Rank(S, R, x) \in Nat /\ Rank(S, R, y) \in Nat /\ Rank(S, R, x) < Rank(S, R, y)
<1> DEFINE X == {z \in S : <<z, x>> \in R}
           Y == {z \in S : <<z, y>> \in R}
<1>1. X \cup {x} \subseteq Y /\ x \notin X BY DEF StrictOrder
<1>2. IsFiniteSet(X) /\ IsFiniteSet(Y) /\ Cardinality(X) \in Nat /\ Cardinality(Y) \in Nat
  BY FS_Subset, FS_CardinalityType
<1>3. Cardinality(X \cup {x}) = Cardinality(X) + 1 BY <1>1, <1>2, FS_AddElement
<1>4. Cardinality(X \cup {x}) <= Cardinality(Y) BY <1>1, <1>2, FS_Subset
<1>5. Rank(S, R, x) = Cardinality(X) /\ Rank(S, R, y) = Cardinality(Y) BY DEF Rank
<1> HIDE DEF X, Y
<1> QED BY <1>2, <1>3, <1>4, <1>5

LEMMA Ranks ==
  ASSUME NEW S, IsFiniteSet(S), NEW R, StrictOrder(S, R)
  PROVE  /\ Cardinality(S) \in Nat
         /\ \A x \in S : Rank(S, R, x) \in 0 .. Cardinality(S) - 1
         /\ \A x, y \in S : <<x, y>> \in R <=> Rank(S, R, x) < Rank(S, R, y)
         /\ \A x, y \in S : Rank(S, R, x) = Rank(S, R, y) => x = y
         /\ \A i \in 0 .. Cardinality(S) - 1 : \E x \in S : Rank(S, R, x) = i
<1> DEFINE rank == [x \in S |-> Rank(S, R, x)]
           n == Cardinality(S)
           Ns == 0 .. n - 1
<1>1. n \in Nat BY FS_CardinalityType
<1>2. ASSUME NEW x \in S PROVE Rank(S, R, x) \in Ns
  <2> DEFINE X == {z \in S : <<z, x>> \in R}
  <2>1. X \cup {x} \subseteq S /\ x \notin X BY DEF StrictOrder
  <2>2. IsFiniteSet(X) /\ Cardinality(X) \in Nat BY FS_Subset, FS_CardinalityType
  <2>3. Cardinality(X \cup {x}) = Cardinality(X) + 1 BY <2>1, <2>2, FS_AddElement
  <2>4. Cardinality(X \cup {x}) <= n BY <2>1, FS_Subset
  <2>5. Rank(S, R, x) = Cardinality(X) BY DEF Rank
  <2> HIDE DEF X, n
  <2> QED BY <1>1, <2>2, <2>3, <2>4, <2>5
<1>3. \A x, y \in S : <<x, y>> \in R => Rank(S, R, x) < Rank(S, R, y) BY RanksGrow
<1>4. ASSUME NEW x \in S, NEW y \in S
      PROVE  /\ <<x, y>> \in R <=> Rank(S, R, x) < Rank(S, R, y)
             /\ Rank(S, R, x) = Rank(S, R, y) => x = y
  <2>1. x = y \/ <<x, y>> \in R \/ <<y, x>> \in R BY DEF StrictOrder
  <2>2. Rank(S, R, x) \in Int /\ Rank(S, R, y) \in Int BY <1>1, <1>2
  <2>3. <<x, x>> \notin R BY DEF StrictOrder
  <2> QED BY <1>3, <2>1, <2>2, <2>3
<1>5. IsFiniteSet(Ns) /\ Cardinality(Ns) = n
  <2>1. n - 1 \in Int /\ 0 \in Int /\ (IF 0 > n - 1 THEN 0 ELSE (n - 1) - 0 + 1) = n BY <1>1
  <2> QED BY <2>1, FS_Interval
<1>6. rank \in Injection(S, Ns)
  <2>1. rank \in [S -> Ns] BY <1>2
  <2>2. \A x, y \in S : rank[x] = rank[y] => x = y BY <1>4
  <2> HIDE DEF rank, Ns
  <2> QED BY <2>1, <2>2 DEF Injection, IsInjective
<1>7. rank \in Surjection(S, Ns) BY <1>5, <1>6, FS_Injection
<1>8. \A i \in Ns : \E x \in S : rank[x] = i BY <1>7 DEF Surjection
<1> QED BY <1>1, <1>2, <1>4, <1>8

LEMMA RankTaken ==
  ASSUME NEW S, IsFiniteSet(S), NEW R, StrictOrder(S, R), NEW i \in 0 .. Cardinality(S) - 1
  PROVE  \E x \in S : Rank(S, R, x) = i
<1>1. \A j \in 0 .. Cardinality(S) - 1 : \E x \in S : Rank(S, R, x) = j BY Ranks
<1> QED BY <1>1

\* The first n of a finite ordered set are all of it, or n.
LEMMA FirstRanks ==
  ASSUME NEW S, IsFiniteSet(S), NEW R, StrictOrder(S, R), NEW n \in Nat, NEW T,
         T = {x \in S : Rank(S, R, x) < n}, T # S
  PROVE  Cardinality(T) = n
<1> DEFINE f == [x \in T |-> Rank(S, R, x)]
           Ns == 0 .. n - 1
<1>1. /\ Cardinality(S) \in Nat
      /\ \A x \in S : Rank(S, R, x) \in 0 .. Cardinality(S) - 1
      /\ \A x, y \in S : Rank(S, R, x) = Rank(S, R, y) => x = y
  BY Ranks
<1>2. n < Cardinality(S) BY <1>1
<1>3. \A i \in Ns : \E x \in T : Rank(S, R, x) = i
  <2> SUFFICES ASSUME NEW i \in Ns PROVE \E x \in T : Rank(S, R, x) = i OBVIOUS
  <2>1. i \in 0 .. Cardinality(S) - 1 /\ i < n BY <1>1, <1>2
  <2>2. PICK x \in S : Rank(S, R, x) = i BY <2>1, RankTaken
  <2> QED BY <2>1, <2>2
<1>4. f \in [T -> Ns]
  <2> SUFFICES ASSUME NEW x \in T PROVE Rank(S, R, x) \in Ns OBVIOUS
  <2>1. Rank(S, R, x) \in 0 .. Cardinality(S) - 1 /\ Rank(S, R, x) < n BY <1>1
  <2> QED BY <1>1, <2>1
<1>5. f \in Injection(T, Ns)
  <2>1. \A x, y \in T : f[x] = f[y] => x = y BY <1>1
  <2> HIDE DEF f, Ns
  <2> QED BY <1>4, <2>1 DEF Injection, IsInjective
<1>6. f \in Surjection(T, Ns)
  <2>1. \A i \in Ns : \E x \in T : f[x] = i BY <1>3
  <2> HIDE DEF f, Ns
  <2> QED BY <1>4, <2>1 DEF Surjection
<1>7. IsFiniteSet(Ns) /\ Cardinality(Ns) = n
  <2>1. n - 1 \in Int /\ 0 \in Int /\ (IF 0 > n - 1 THEN 0 ELSE (n - 1) - 0 + 1) = n OBVIOUS
  <2> QED BY <2>1, FS_Interval
<1> HIDE DEF f, Ns
<1>8. Cardinality(T) = Cardinality(Ns) BY <1>5, <1>6, <1>7, FS_Injection
<1> QED BY <1>7, <1>8

\* A finite ordered set as a list: every member, once, in order.
PicksRanks(S, R, l) ==
  \A i \in 1 .. Cardinality(S), x \in S :
     Rank(S, R, x) = i - 1 => l[i] \in S /\ Rank(S, R, l[i]) = i - 1

Lists(S, R, l) ==
  /\ l \in Seq(S) /\ Len(l) = Cardinality(S) /\ Len(l) \in Nat /\ DOMAIN l = 1 .. Len(l)
  /\ \A i \in DOMAIN l : l[i] \in S
  /\ \A i, j \in DOMAIN l : i < j => <<l[i], l[j]>> \in R
  /\ \A x \in S : \E i \in DOMAIN l : l[i] = x
  /\ \A i, j \in DOMAIN l : l[i] = l[j] => i = j

LEMMA Listing ==
  ASSUME NEW S, IsFiniteSet(S), NEW R, StrictOrder(S, R), NEW Valued, NEW l \in [1 .. Cardinality(S) -> Valued],
         PicksRanks(S, R, l)
  PROVE  Lists(S, R, l)
<1> DEFINE n == Cardinality(S)
<1>1. n \in Nat BY FS_CardinalityType
<1>2. ASSUME NEW i \in 1 .. n PROVE l[i] \in S /\ Rank(S, R, l[i]) = i - 1
  <2>1. i - 1 \in 0 .. n - 1 BY <1>1
  <2>2. PICK x \in S : Rank(S, R, x) = i - 1
    <3>1. i - 1 \in 0 .. Cardinality(S) - 1 BY <2>1
    <3> HIDE DEF n
    <3> QED BY <3>1, RankTaken
  <2> QED BY <2>2 DEF PicksRanks
<1>3. ASSUME NEW x \in S PROVE \E i \in 1 .. n : l[i] = x
  <2>1. Rank(S, R, x) \in 0 .. n - 1 BY Ranks
  <2>2. Rank(S, R, x) + 1 \in 1 .. n /\ (Rank(S, R, x) + 1) - 1 = Rank(S, R, x) BY <1>1, <2>1
  <2>3. Rank(S, R, l[Rank(S, R, x) + 1]) = Rank(S, R, x) /\ l[Rank(S, R, x) + 1] \in S BY <1>2, <2>2
  <2>4. l[Rank(S, R, x) + 1] = x BY <2>3, Ranks
  <2> QED BY <2>2, <2>4
<1> HIDE DEF n
<1>4. l \in Seq(S) /\ Len(l) = n /\ DOMAIN l = 1 .. n
  <2>1. DOMAIN l = 1 .. n BY DEF n
  <2>2. l \in [1 .. n -> S] BY <1>2, <2>1 DEF n
  <2> QED BY <1>1, <2>2
<1>5. ASSUME NEW i \in 1 .. n, NEW j \in 1 .. n, i < j PROVE <<l[i], l[j]>> \in R
  <2>1. Rank(S, R, l[i]) < Rank(S, R, l[j])
    <3>1. i - 1 < j - 1 BY <1>1, <1>5
    <3> QED BY <1>2, <3>1
  <2>2. l[i] \in S /\ l[j] \in S BY <1>2
  <2>3. \A x, y \in S : <<x, y>> \in R <=> Rank(S, R, x) < Rank(S, R, y) BY Ranks
  <2> QED BY <2>1, <2>2, <2>3
<1>6. ASSUME NEW i \in 1 .. n, NEW j \in 1 .. n, l[i] = l[j] PROVE i = j
  <2>1. i - 1 = j - 1 BY <1>2, <1>6
  <2> QED BY <1>1, <2>1
<1> QED BY <1>1, <1>2, <1>3, <1>4, <1>5, <1>6 DEF n, Lists

\* Numbers in ascending order.
LEMMA AscendingNumbers ==
  ASSUME NEW S, IsFiniteSet(S), S \subseteq Int
  PROVE  LET l == Ordered(S, <)
         IN  /\ l \in Seq(S) /\ Len(l) = Cardinality(S) /\ Len(l) \in Nat /\ DOMAIN l = 1 .. Len(l)
             /\ \A i \in DOMAIN l : l[i] \in S
             /\ \A i, j \in DOMAIN l : i < j => l[i] < l[j]
             /\ \A x \in S : \E i \in DOMAIN l : l[i] = x
<1> DEFINE R == {p \in S \X S : p[1] < p[2]}
           l == [i \in 1 .. Cardinality(S) |-> CHOOSE x \in S : Cardinality({y \in S : y < x}) = i - 1]
<1>1. ASSUME NEW x, NEW y PROVE <<x, y>> \in R <=> x \in S /\ y \in S /\ x < y OBVIOUS
<1> HIDE DEF R
<1>2. StrictOrder(S, R)
  <2>1. \A x \in S : x \in Int OBVIOUS
  <2> QED BY <1>1, <2>1 DEF StrictOrder
<1>3. Ordered(S, <) = l BY DEF Ordered
<1>4. \A x \in S : Cardinality({y \in S : y < x}) = Rank(S, R, x)
  <2>1. \A x \in S : {y \in S : y < x} = {y \in S : <<y, x>> \in R} BY <1>1
  <2> QED BY <2>1 DEF Rank
<1>5. ASSUME NEW i \in 1 .. Cardinality(S), NEW x \in S, Rank(S, R, x) = i - 1
      PROVE  l[i] \in S /\ Rank(S, R, l[i]) = i - 1
  <2>1. l[i] = CHOOSE y \in S : Cardinality({z \in S : z < y}) = i - 1 OBVIOUS
  <2> HIDE DEF l
  <2>2. l[i] \in S /\ Cardinality({z \in S : z < l[i]}) = i - 1 BY <1>4, <1>5, <2>1
  <2> QED BY <1>4, <2>2
<1> DEFINE Valued == {l[i] : i \in 1 .. Cardinality(S)}
<1>6. l \in [1 .. Cardinality(S) -> Valued] OBVIOUS
<1> HIDE DEF l, Valued
<1>7. PicksRanks(S, R, l) BY <1>5 DEF PicksRanks
<1>8. Lists(S, R, l) BY <1>2, <1>6, <1>7, Listing
<1> QED BY <1>1, <1>3, <1>8 DEF Lists

LEMMA Extremes ==
  ASSUME NEW S, IsFiniteSet(S), S \subseteq Int, S # {}
  PROVE  /\ \E x \in S : \A y \in S : x <= y
         /\ \E x \in S : \A y \in S : x >= y
<1> DEFINE l == Ordered(S, <)
<1>1. /\ Len(l) \in Nat /\ DOMAIN l = 1 .. Len(l)
      /\ \A i \in DOMAIN l : l[i] \in S /\ l[i] \in Int
      /\ \A i, j \in DOMAIN l : i < j => l[i] < l[j]
      /\ \A x \in S : \E i \in DOMAIN l : l[i] = x
  <2>1. \A x \in S : x \in Int OBVIOUS
  <2> QED BY <2>1, AscendingNumbers
<1> HIDE DEF l
<1>2. PICK z \in S : TRUE OBVIOUS
<1>3. 1 \in DOMAIN l /\ Len(l) \in DOMAIN l BY <1>1, <1>2
<1>4. ASSUME NEW y \in S PROVE l[1] <= y /\ l[Len(l)] >= y
  <2>1. PICK i \in DOMAIN l : l[i] = y BY <1>1
  <2>2. i = 1 \/ l[1] < l[i] BY <1>1, <1>3, <2>1
  <2>3. i = Len(l) \/ l[i] < l[Len(l)] BY <1>1, <1>3, <2>1
  <2> QED BY <1>1, <1>3, <2>1, <2>2, <2>3
<1> QED BY <1>1, <1>3, <1>4

----------------------------------------------------------------------------
(***************************************************************************)
(* Floors.  The bases of the bands ascend from the lowest storey, and each *)
(* storey belongs to the greatest base at or below it.                     *)
(***************************************************************************)
Placed(storeys) == IsFiniteSet(storeys) /\ \A s \in storeys : s.elevation \in Int

LEMMA ElevationsAreFinite ==
  ASSUME NEW F, Placed(F)
  PROVE  LET E == {s.elevation : s \in F}
         IN  IsFiniteSet(E) /\ E \subseteq Int /\ (F # {} => E # {})
<1> DEFINE E == {s.elevation : s \in F}
           f == [s \in F |-> s.elevation]
<1>1. E \subseteq Int BY DEF Placed
<1>2. F # {} => E # {}
  <2>1. \A s \in F : s.elevation \in E OBVIOUS
  <2> HIDE DEF E
  <2> QED BY <2>1
<1>3. f \in Surjection(F, E) BY DEF Surjection
<1> HIDE DEF E, f
<1>4. IsFiniteSet(E) BY <1>3, FS_Surjection DEF Placed
<1> QED BY <1>1, <1>2, <1>4 DEF E

LEMMA BasesAscend ==
  ASSUME NEW storeys, Placed(storeys)
  PROVE  LET b == Bases(storeys)
         IN  /\ Len(b) \in Nat /\ DOMAIN b = 1 .. Len(b)
             /\ storeys # {} <=> Len(b) # 0
             /\ \A i \in DOMAIN b : b[i] \in Int /\ \E s \in storeys : s.elevation = b[i]
             /\ \A i, j \in DOMAIN b : i < j => b[i] < b[j]
             /\ \A s \in storeys : 1 \in DOMAIN b /\ b[1] <= s.elevation
<1> DEFINE E == {s.elevation : s \in storeys}
           l == Levels(storeys)
           O == {l[1]} \cup {l[i] : i \in {j \in 2 .. Len(l) : Opens(storeys, l[j] - l[j - 1])}}
           b == Bases(storeys)
<1>1. CASE storeys = {}
  <2>1. b = <<>> BY <1>1 DEF Bases
  <2> QED BY <1>1, <2>1
<1>2. CASE storeys # {}
  <2>1. IsFiniteSet(E) /\ E \subseteq Int /\ E # {} BY <1>2, ElevationsAreFinite
  <2>2. /\ Len(l) \in Nat /\ DOMAIN l = 1 .. Len(l)
        /\ \A i \in DOMAIN l : l[i] \in E
        /\ \A i, j \in DOMAIN l : i < j => l[i] < l[j]
        /\ \A x \in E : \E i \in DOMAIN l : l[i] = x
    BY <2>1, AscendingNumbers DEF Levels
  <2>3. b = Ordered(O, <) BY <1>2 DEF Bases
  <2>4. \A s \in storeys : s.elevation \in E OBVIOUS
  <2>5. \A e \in E : \E s \in storeys : s.elevation = e OBVIOUS
  <2> HIDE DEF E, l, b
  <2>6. 1 \in DOMAIN l
    <3>1. PICK e \in E : TRUE BY <2>1
    <3>2. PICK i \in DOMAIN l : l[i] = e BY <2>2
    <3> QED BY <2>2, <3>2
  <2>7. O \subseteq E /\ l[1] \in O BY <2>2, <2>6
  <2> HIDE DEF O
  <2>8. IsFiniteSet(O) /\ O \subseteq Int BY <2>1, <2>7, FS_Subset
  <2>9. /\ Len(b) \in Nat /\ DOMAIN b = 1 .. Len(b)
        /\ \A i \in DOMAIN b : b[i] \in O
        /\ \A i, j \in DOMAIN b : i < j => b[i] < b[j]
        /\ \A x \in O : \E i \in DOMAIN b : b[i] = x
    BY <2>3, <2>8, AscendingNumbers
  <2>10. 1 \in DOMAIN b /\ Len(b) # 0 BY <2>7, <2>9
  <2>11. \A i \in DOMAIN b : b[i] \in Int /\ \E s \in storeys : s.elevation = b[i]
    BY <2>5, <2>7, <2>8, <2>9
  <2>12. b[1] <= l[1]
    <3>1. PICK k \in DOMAIN b : b[k] = l[1] BY <2>7, <2>9
    <3>2. k = 1 \/ b[1] < b[k] BY <2>9, <2>10, <3>1
    <3>3. b[1] \in Int /\ b[k] \in Int BY <2>10, <2>11
    <3> QED BY <3>1, <3>2, <3>3
  <2>13. ASSUME NEW s \in storeys PROVE b[1] <= s.elevation
    <3>1. PICK k \in DOMAIN l : l[k] = s.elevation BY <2>2, <2>4
    <3>2. k = 1 \/ l[1] < l[k] BY <2>2, <2>6, <3>1
    <3>3. b[1] \in Int /\ l[k] \in Int /\ l[1] \in Int BY <2>1, <2>2, <2>6, <2>10, <2>11
    <3> QED BY <2>12, <3>1, <3>2, <3>3
  <2> QED BY <1>2, <2>9, <2>10, <2>11, <2>13 DEF b
<1> QED BY <1>1, <1>2

\* Every band has a lowest and a highest storey, between its base and the next.
LEMMA BandIsBetween ==
  ASSUME NEW storeys, Placed(storeys), NEW i \in DOMAIN Bases(storeys)
  PROVE  LET b == Bases(storeys)
             band == Bands(storeys)[i]
         IN  /\ Lowest(band) \in Int /\ Highest(band) \in Int
             /\ b[i] <= Lowest(band)
             /\ i + 1 \in DOMAIN b => Highest(band) < b[i + 1]
<1> DEFINE b == Bases(storeys)
           band == Bands(storeys)[i]
           E == {s.elevation : s \in band}
<1>1. /\ Len(b) \in Nat /\ DOMAIN b = 1 .. Len(b)
      /\ \A k \in DOMAIN b : b[k] \in Int /\ \E s \in storeys : s.elevation = b[k]
      /\ \A k, j \in DOMAIN b : k < j => b[k] < b[j]
  BY BasesAscend
<1>2. band = {s \in storeys : b[i] <= s.elevation /\ (i = Len(b) \/ s.elevation < b[i + 1])}
  BY DEF Bands
<1> HIDE DEF b
<1>3. band \subseteq storeys /\ band # {}
  <2>1. PICK s \in storeys : s.elevation = b[i] BY <1>1 DEF b
  <2>2. b[i] <= b[i] /\ (i = Len(b) \/ b[i] < b[i + 1])
    <3>1. i = Len(b) \/ i + 1 \in DOMAIN b BY <1>1 DEF b
    <3>2. i \in DOMAIN b BY DEF b
    <3>3. i \in Int /\ i < i + 1 /\ b[i] <= b[i] BY <1>1, <3>2
    <3> QED BY <1>1, <3>1, <3>2, <3>3
  <2> HIDE DEF band
  <2>3. s \in band BY <1>2, <2>1, <2>2
  <2> QED BY <1>2, <2>3
<1> HIDE DEF band
<1>4. Placed(band) BY <1>3, FS_Subset DEF Placed
<1>5. IsFiniteSet(E) /\ E \subseteq Int /\ E # {} BY <1>3, <1>4, ElevationsAreFinite
<1>6. \A e : (\A x \in E : e <= x) <=> (\A s \in band : e <= s.elevation) OBVIOUS
<1>7. \A e : (\A x \in E : e >= x) <=> (\A s \in band : e >= s.elevation) OBVIOUS
<1>8. \A e \in E : \E s \in band : s.elevation = e OBVIOUS
<1>9. Lowest(band) \in E
  <2>1. \E e \in E : \A s \in band : e <= s.elevation
    <3> HIDE DEF E
    <3> QED BY <1>5, <1>6, Extremes
  <2> QED BY <2>1 DEF Lowest
<1>10. Highest(band) \in E
  <2>1. \E e \in E : \A s \in band : e >= s.elevation
    <3> HIDE DEF E
    <3> QED BY <1>5, <1>7, Extremes
  <2> QED BY <2>1 DEF Highest
<1> HIDE DEF E
<1>11. \A e \in E : b[i] <= e /\ (i + 1 \in DOMAIN b => e < b[i + 1])
  <2>1. \A s \in band : b[i] <= s.elevation /\ (i = Len(b) \/ s.elevation < b[i + 1]) BY <1>2
  <2>2. i + 1 \in DOMAIN b => i # Len(b) BY <1>1
  <2> QED BY <1>8, <2>1, <2>2
<1> QED BY <1>5, <1>9, <1>10, <1>11 DEF b, band

\* Every storey is in a band.
LEMMA BandsCover ==
  ASSUME NEW storeys, Placed(storeys)
  PROVE  UNION {Bands(storeys)[i] : i \in DOMAIN Bases(storeys)} = storeys
<1> DEFINE b == Bases(storeys)
<1>1. \A i \in DOMAIN b :
         Bands(storeys)[i] = {s \in storeys : b[i] <= s.elevation /\ (i = Len(b) \/ s.elevation < b[i + 1])}
  BY DEF Bands
<1>2. ASSUME NEW s \in storeys PROVE \E i \in DOMAIN b : s \in Bands(storeys)[i]
  <2> DEFINE I == {i \in DOMAIN b : b[i] <= s.elevation}
  <2>1. /\ Len(b) \in Nat /\ DOMAIN b = 1 .. Len(b) /\ 1 \in DOMAIN b /\ b[1] <= s.elevation
        /\ \A i \in DOMAIN b : b[i] \in Int
    BY BasesAscend
  <2>2. s.elevation \in Int BY DEF Placed
  <2> HIDE DEF b
  <2>3. IsFiniteSet(I) /\ I \subseteq Int /\ I # {}
    <3>1. IsFiniteSet(1 .. Len(b)) BY <2>1, FS_Interval
    <3> QED BY <2>1, <3>1, FS_Subset
  <2>4. PICK i \in I : \A j \in I : i >= j
    <3> HIDE DEF I
    <3> QED BY <2>3, Extremes
  <2>5. i = Len(b) \/ s.elevation < b[i + 1]
    <3> SUFFICES ASSUME i # Len(b) PROVE s.elevation < b[i + 1] OBVIOUS
    <3>1. i + 1 \in DOMAIN b /\ ~(i >= i + 1) BY <2>1
    <3>2. ~(b[i + 1] <= s.elevation) BY <2>4, <3>1
    <3> QED BY <2>1, <2>2, <3>1, <3>2
  <2> QED BY <1>1, <2>5
<1> HIDE DEF b
<1> QED BY <1>1, <1>2 DEF b

\* A band begins at the lowest storey and above each wide step, and nowhere else.
LEMMA BasesAreWideSteps ==
  ASSUME NEW storeys, Placed(storeys), NEW H, H = {s.elevation : s \in storeys}
  PROVE  LET b == Bases(storeys)
         IN  /\ \A i \in DOMAIN b : (\A h \in H : b[i] <= h) \/ \E p \in Steps(H) : Wide(H, p) /\ p[2] = b[i]
             /\ \A p \in Steps(H) : Wide(H, p) => \E i \in DOMAIN b : b[i] = p[2]
<1> DEFINE l == Levels(storeys)
           I == {j \in 2 .. Len(l) : Opens(storeys, l[j] - l[j - 1])}
           O == {l[1]} \cup {l[i] : i \in I}
           b == Bases(storeys)
<1>1. CASE storeys = {}
  <2>1. b = <<>> /\ H = {} BY <1>1 DEF Bases
  <2> QED BY <2>1 DEF Steps
<1>2. CASE storeys # {}
  <2>1. IsFiniteSet(H) /\ H \subseteq Int /\ H # {} BY <1>2, ElevationsAreFinite
  <2>2. /\ Len(l) \in Nat /\ DOMAIN l = 1 .. Len(l)
        /\ \A i \in DOMAIN l : l[i] \in H
        /\ \A i, j \in DOMAIN l : i < j => l[i] < l[j]
        /\ \A x \in H : \E i \in DOMAIN l : l[i] = x
    BY <2>1, AscendingNumbers DEF Levels
  <2>3. b = Ordered(O, <) BY <1>2 DEF Bases
  <2>4. Gaps(storeys) = {l[i] - l[i - 1] : i \in 2 .. Len(l)} BY DEF Gaps
  <2> HIDE DEF l, b
  <2>5. 1 \in DOMAIN l
    <3>1. PICK e \in H : TRUE BY <2>1
    <3>2. PICK i \in DOMAIN l : l[i] = e BY <2>2
    <3> QED BY <2>2, <3>2
  <2>6. ASSUME NEW i \in 2 .. Len(l) PROVE <<l[i - 1], l[i]>> \in Steps(H)
    <3>1. i \in DOMAIN l /\ i - 1 \in DOMAIN l /\ i - 1 < i BY <2>2
    <3>2. l[i - 1] < l[i] /\ l[i - 1] \in H /\ l[i] \in H BY <2>2, <3>1
    <3>3. ASSUME NEW h \in H PROVE h <= l[i - 1] \/ l[i] <= h
      <4>1. PICK k \in DOMAIN l : l[k] = h BY <2>2
      <4>2. k < i - 1 \/ k = i - 1 \/ k = i \/ i < k BY <2>2, <3>1
      <4>3. k < i - 1 => l[k] < l[i - 1] BY <2>2, <3>1
      <4>4. i < k => l[i] < l[k] BY <2>2, <3>1
      <4>5. l[k] \in Int /\ l[i] \in Int /\ l[i - 1] \in Int BY <2>1, <3>2, <4>1
      <4> QED BY <4>1, <4>2, <4>3, <4>4, <4>5
    <3> QED BY <3>2, <3>3 DEF Steps
  <2>7. ASSUME NEW p \in Steps(H) PROVE \E i \in 2 .. Len(l) : p[1] = l[i - 1] /\ p[2] = l[i]
    <3>1. p[1] \in H /\ p[2] \in H /\ p[1] < p[2] /\ \A h \in H : h <= p[1] \/ p[2] <= h BY DEF Steps
    <3>2. PICK k \in DOMAIN l : l[k] = p[1] BY <2>2, <3>1
    <3>3. PICK i \in DOMAIN l : l[i] = p[2] BY <2>2, <3>1
    <3>4. k \in Int /\ i \in Int /\ \A x \in H : x \in Int BY <2>1, <2>2
    <3>8. l[k] < l[i] /\ l[k] \in Int /\ l[i] \in Int BY <3>1, <3>2, <3>3, <3>4
    <3>5. k < i
      <4>1. ~(i < k) /\ i # k
        <5>1. i < k => l[i] < l[k] BY <2>2
        <5> QED BY <3>8, <5>1
      <4> QED BY <3>4, <4>1
    <3>6. i - 1 \in DOMAIN l /\ i \in 2 .. Len(l) BY <2>2, <3>4, <3>5
    <3>7. k = i - 1
      <4>1. i - 1 < i /\ l[i - 1] < l[i] BY <2>2, <3>4, <3>6
      <4>2. l[i - 1] <= l[k]
        <5>1. l[i - 1] \in H /\ l[i - 1] \in Int BY <2>2, <3>4, <3>6
        <5>2. l[i - 1] <= p[1] \/ p[2] <= l[i - 1] BY <3>1, <5>1
        <5>3. l[i - 1] <= l[k] \/ l[i] <= l[i - 1] BY <3>2, <3>3, <5>2
        <5> QED BY <3>8, <4>1, <5>1, <5>3
      <4>3. k < i - 1 => l[k] < l[i - 1] BY <2>2, <3>6
      <4>4. l[k] \in Int /\ l[i - 1] \in Int BY <2>2, <3>4, <3>6
      <4>5. ~(k < i - 1) BY <4>2, <4>3, <4>4
      <4> QED BY <3>4, <3>5, <4>5
    <3> QED BY <3>2, <3>3, <3>6, <3>7
  <2>8. ASSUME NEW i \in 2 .. Len(l) PROVE Opens(storeys, l[i] - l[i - 1]) <=> Wide(H, <<l[i - 1], l[i]>>)
    <3> DEFINE gap == l[i] - l[i - 1]
    <3>1. Opens(storeys, gap) <=> \A g \in Gaps(storeys) : 10 * gap > 3 * g BY DEF Opens
    <3>2. Wide(H, <<l[i - 1], l[i]>>) <=> \A q \in Steps(H) : 10 * gap > 3 * (q[2] - q[1]) BY DEF Wide
    <3>3. \A g \in Gaps(storeys) : \E q \in Steps(H) : g = q[2] - q[1]
      <4> SUFFICES ASSUME NEW j \in 2 .. Len(l) PROVE \E q \in Steps(H) : l[j] - l[j - 1] = q[2] - q[1] BY <2>4
      <4> QED BY <2>6
    <3>4. \A q \in Steps(H) : (q[2] - q[1]) \in Gaps(storeys)
      <4> SUFFICES ASSUME NEW q \in Steps(H) PROVE (q[2] - q[1]) \in Gaps(storeys) OBVIOUS
      <4>1. PICK j \in 2 .. Len(l) : q[1] = l[j - 1] /\ q[2] = l[j] BY <2>7
      <4> QED BY <2>4, <4>1
    <3> HIDE DEF gap
    <3> QED BY <3>1, <3>2, <3>3, <3>4 DEF gap
  <2>9. O \subseteq H BY <2>2, <2>5
  <2>10. ASSUME NEW e \in O PROVE (\A h \in H : e <= h) \/ \E p \in Steps(H) : Wide(H, p) /\ p[2] = e
    <3>1. CASE e = l[1]
      <4>1. ASSUME NEW h \in H PROVE l[1] <= h
        <5>1. PICK k \in DOMAIN l : l[k] = h BY <2>2
        <5>2. k = 1 \/ 1 < k BY <2>2
        <5>3. l[1] \in Int /\ l[k] \in Int BY <2>1, <2>2, <2>5
        <5> QED BY <2>2, <2>5, <5>1, <5>2, <5>3
      <4> QED BY <3>1, <4>1
    <3>2. CASE e # l[1]
      <4>1. PICK i \in I : e = l[i] BY <3>2
      <4>2. i \in 2 .. Len(l) /\ Opens(storeys, l[i] - l[i - 1]) BY <4>1
      <4>3. Wide(H, <<l[i - 1], l[i]>>) /\ <<l[i - 1], l[i]>> \in Steps(H) BY <2>6, <2>8, <4>2
      <4> DEFINE p == <<l[i - 1], l[i]>>
      <4>4. p[2] = e BY <4>1
      <4> QED BY <4>3, <4>4
    <3> QED BY <3>1, <3>2
  <2>11. ASSUME NEW p \in Steps(H), Wide(H, p) PROVE p[2] \in O
    <3>1. PICK i \in 2 .. Len(l) : p[1] = l[i - 1] /\ p[2] = l[i] BY <2>7
    <3>2. p = <<l[i - 1], l[i]>> BY <3>1 DEF Steps
    <3>3. i \in I BY <2>8, <2>11, <3>2
    <3> QED BY <3>1, <3>3
  <2> HIDE DEF O
  <2>12. IsFiniteSet(O) /\ O \subseteq Int BY <2>1, <2>9, FS_Subset
  <2>13. /\ \A i \in DOMAIN b : b[i] \in O
         /\ \A x \in O : \E i \in DOMAIN b : b[i] = x
    BY <2>3, <2>12, AscendingNumbers
  <2> QED BY <2>10, <2>11, <2>13 DEF b
<1> QED BY <1>1, <1>2

\* Two storeys are on one floor when no wide step lies between them, and only then.
LEMMA OneFloorOneBand ==
  ASSUME NEW storeys, Placed(storeys), NEW H, H = {s.elevation : s \in storeys},
         NEW s \in storeys, NEW t \in storeys, s.elevation <= t.elevation
  PROVE  (\E i \in DOMAIN Bases(storeys) : {s, t} \subseteq Bands(storeys)[i]) <=>
            \A p \in Steps(H) : Wide(H, p) => p[1] < s.elevation \/ t.elevation < p[2]
<1> DEFINE b == Bases(storeys)
<1>1. /\ Len(b) \in Nat /\ DOMAIN b = 1 .. Len(b)
      /\ \A k \in DOMAIN b : b[k] \in Int
      /\ \A k, j \in DOMAIN b : k < j => b[k] < b[j]
  BY BasesAscend
<1>2. \A i \in DOMAIN b :
         Bands(storeys)[i] = {x \in storeys : b[i] <= x.elevation /\ (i = Len(b) \/ x.elevation < b[i + 1])}
  BY DEF Bands
<1>3. /\ \A i \in DOMAIN b : (\A h \in H : b[i] <= h) \/ \E p \in Steps(H) : Wide(H, p) /\ p[2] = b[i]
      /\ \A p \in Steps(H) : Wide(H, p) => \E i \in DOMAIN b : b[i] = p[2]
  BY BasesAreWideSteps
<1>4. s.elevation \in H /\ t.elevation \in H /\ s.elevation \in Int /\ t.elevation \in Int BY DEF Placed
<1>5. \A p \in Steps(H) : p[1] \in Int /\ p[2] \in Int /\ p[1] < p[2] /\ \A h \in H : h <= p[1] \/ p[2] <= h
  <2>1. H \subseteq Int BY ElevationsAreFinite
  <2> QED BY <2>1 DEF Steps
<1>6. \E i \in DOMAIN b : s \in Bands(storeys)[i]
  <2>1. s \in UNION {Bands(storeys)[i] : i \in DOMAIN b} BY BandsCover
  <2> QED BY <2>1
<1> HIDE DEF b
<1>7. ASSUME NEW i \in DOMAIN b, s \in Bands(storeys)[i], t \in Bands(storeys)[i],
             NEW p \in Steps(H), Wide(H, p), s.elevation <= p[1], p[2] <= t.elevation
      PROVE  FALSE
  <2>1. PICK k \in DOMAIN b : b[k] = p[2] BY <1>3, <1>7
  <2>2. b[i] <= s.elevation /\ (i = Len(b) \/ t.elevation < b[i + 1]) BY <1>2, <1>7
  <2>3. b[i] < b[k] BY <1>1, <1>4, <1>5, <1>7, <2>1, <2>2
  <2>4. i < k
    <3>1. k < i => b[k] < b[i] BY <1>1
    <3>2. b[i] \in Int /\ b[k] \in Int /\ i \in Int /\ k \in Int BY <1>1
    <3> QED BY <2>3, <3>1, <3>2
  <2>5. i + 1 \in DOMAIN b /\ (i + 1 = k \/ i + 1 < k) /\ i # Len(b) BY <1>1, <2>4
  <2>6. b[i + 1] <= b[k]
    <3>1. i + 1 < k => b[i + 1] < b[k] BY <1>1, <2>5
    <3> QED BY <1>1, <2>5, <3>1
  <2> QED BY <1>1, <1>4, <1>5, <1>7, <2>1, <2>2, <2>5, <2>6
<1>8. ASSUME NEW i \in DOMAIN b, s \in Bands(storeys)[i], t \notin Bands(storeys)[i]
      PROVE  \E p \in Steps(H) : Wide(H, p) /\ s.elevation <= p[1] /\ p[2] <= t.elevation
  <2>1. b[i] <= s.elevation /\ (i = Len(b) \/ s.elevation < b[i + 1]) BY <1>2, <1>8
  <2>2. i # Len(b) /\ ~(t.elevation < b[i + 1])
    <3>1. b[i] <= t.elevation BY <1>1, <1>4, <2>1
    <3> QED BY <1>2, <1>8, <3>1
  <2>3. i + 1 \in DOMAIN b BY <1>1, <2>2
  <2>4. b[i + 1] \in Int /\ s.elevation < b[i + 1] /\ b[i + 1] <= t.elevation BY <1>1, <1>4, <2>1, <2>2, <2>3
  <2>5. ~(\A h \in H : b[i + 1] <= h) BY <1>4, <2>4
  <2>6. PICK p \in Steps(H) : Wide(H, p) /\ p[2] = b[i + 1] BY <1>3, <2>3, <2>5
  <2>7. s.elevation <= p[1] \/ p[2] <= s.elevation BY <1>4, <1>5
  <2>8. s.elevation <= p[1] BY <1>4, <2>4, <2>6, <2>7
  <2> QED BY <2>4, <2>6, <2>8
<1>9. ASSUME NEW i \in DOMAIN b, {s, t} \subseteq Bands(storeys)[i], NEW p \in Steps(H), Wide(H, p)
      PROVE  p[1] < s.elevation \/ t.elevation < p[2]
  BY <1>4, <1>5, <1>7, <1>9
<1>10. ASSUME \A p \in Steps(H) : Wide(H, p) => p[1] < s.elevation \/ t.elevation < p[2]
       PROVE  \E i \in DOMAIN b : {s, t} \subseteq Bands(storeys)[i]
  <2>1. PICK i \in DOMAIN b : s \in Bands(storeys)[i] BY <1>6
  <2>2. ASSUME t \notin Bands(storeys)[i] PROVE FALSE
    <3>1. PICK p \in Steps(H) : Wide(H, p) /\ s.elevation <= p[1] /\ p[2] <= t.elevation BY <1>8, <2>1, <2>2
    <3>2. p[1] < s.elevation \/ t.elevation < p[2] BY <1>10, <3>1
    <3>3. p[1] \in Int /\ p[2] \in Int BY <1>5
    <3> QED BY <1>4, <3>1, <3>2, <3>3
  <2> QED BY <2>1, <2>2
<1> QED BY <1>9, <1>10 DEF b

\* The buttons: one a band, with its limits.
LEMMA ContractOfBands ==
  ASSUME NEW storeys
  PROVE  /\ DOMAIN Bands(storeys) = DOMAIN Bases(storeys)
         /\ DOMAIN FloorContract(storeys) = DOMAIN Bases(storeys)
         /\ \A i \in DOMAIN Bases(storeys) :
               /\ FloorContract(storeys)[i].index = i - 1
               /\ FloorContract(storeys)[i].storeys = Bands(storeys)[i]
               /\ FloorContract(storeys)[i].min = Lowest(Bands(storeys)[i])
               /\ FloorContract(storeys)[i].max = Highest(Bands(storeys)[i])
               /\ FloorContract(storeys)[i].isReference <=> i - 1 = ReferenceIndex(storeys)
<1>1. DOMAIN Bands(storeys) = DOMAIN Bases(storeys) BY DEF Bands
<1> QED BY <1>1 DEF FloorContract

\* The reference band is one of the bands.
LEMMA ReferenceIsBand ==
  ASSUME NEW storeys, Placed(storeys), storeys # {}
  PROVE  ReferenceIndex(storeys) \in Nat /\ ReferenceIndex(storeys) + 1 \in DOMAIN Bases(storeys)
<1> DEFINE Z == ZeroBands(storeys)
           n == Len(Bases(storeys))
<1>1. n \in Nat /\ n # 0 /\ DOMAIN Bases(storeys) = 1 .. n BY BasesAscend
<1>2. Z \subseteq 1 .. n BY <1>1, ContractOfBands DEF ZeroBands
<1> HIDE DEF n
<1>3. CASE Z = {} BY <1>1, <1>3 DEF ReferenceIndex, FirstBand
<1>4. CASE Z # {}
  <2>1. IsFiniteSet(Z) /\ Z \subseteq Int
    <3>1. IsFiniteSet(1 .. n) BY <1>1, FS_Interval
    <3> HIDE DEF Z
    <3>2. IsFiniteSet(Z) BY <1>2, <3>1, FS_Subset
    <3> QED BY <1>1, <1>2, <3>2
  <2>2. PICK k \in Z : k = (CHOOSE i \in Z : \A j \in Z : i <= j)
    <3> HIDE DEF Z
    <3>1. \E i \in Z : \A j \in Z : i <= j BY <1>4, <2>1, Extremes
    <3> QED BY <3>1
  <2>3. ReferenceIndex(storeys) = k - 1 BY <1>4, <2>2 DEF ReferenceIndex, FirstBand
  <2> HIDE DEF Z
  <2> QED BY <1>1, <1>2, <2>3
<1> QED BY <1>3, <1>4

----------------------------------------------------------------------------
(***************************************************************************)
(* Theorems.                                                               *)
(***************************************************************************)

AskedAndOffered ==
  /\ asked \in Requests
  /\ stage \in {"suggested", "bound"} => universe.scopes = AllScopes(asked)

LEMMA AskedAndOfferedInv == Spec => []AskedAndOffered
<1>1. Init => AskedAndOffered BY DEF Init, AskedAndOffered
<1>2. AskedAndOffered /\ [Next]_vars => AskedAndOffered'
  BY DEF Next, Analyse, Suggest, Bind, vars, AskedAndOffered
<1> QED BY <1>1, <1>2, PTL DEF Spec

LEMMA AskedIsRequest == Spec => [](asked \in Requests)
<1>1. AskedAndOffered => asked \in Requests BY DEF AskedAndOffered
<1> QED BY <1>1, AskedAndOfferedInv, PTL

\* The floor buttons are the bands between the wide steps of the storeys, in
\* ascending order and with one reference, and the scopes offered for floor
\* language are the same floors (semantic/spatial.py, routes/models.py,
\* binding/recommend.py), for any storeys at any heights.
THEOREM FloorsAreBands == Spec => []FloorsMeanOneBand
<1>1. ASSUME AskedAndOffered PROVE FloorsMeanOneBand
  <2> DEFINE storeys == Storeys(asked.storeys)
             floors == FloorContract(storeys)
             H == {s.elevation : s \in storeys}
             b == Bases(storeys)
             reference == ReferenceIndex(storeys)
  <2>1. Placed(storeys)
    <3>1. storeys \subseteq asked.storeys BY DEF Storeys
    <3>2. IsFiniteSet(storeys) BY <1>1, <3>1, StoreysAreRows, FS_Subset DEF AskedAndOffered
    <3>3. \A s \in storeys : s.elevation \in Int BY <1>1, StoreysAreRows DEF Storeys, AskedAndOffered
    <3> QED BY <3>2, <3>3 DEF Placed
  <2> HIDE DEF storeys
  <2>2. /\ Len(b) \in Nat /\ DOMAIN b = 1 .. Len(b) /\ DOMAIN Bands(storeys) = DOMAIN b
        /\ DOMAIN floors = DOMAIN b /\ \A i \in DOMAIN b : b[i] \in Int
    BY <2>1, BasesAscend, ContractOfBands
  <2>3. ASSUME NEW s \in storeys, NEW t \in storeys, s.elevation <= t.elevation
        PROVE  (\E i \in DOMAIN floors : {s, t} \subseteq floors[i].storeys) <=>
                  \A p \in Steps(H) : Wide(H, p) => p[1] < s.elevation \/ t.elevation < p[2]
    <3>1. \A i \in DOMAIN b : floors[i].storeys = Bands(storeys)[i] BY ContractOfBands
    <3>2. (\E i \in DOMAIN b : {s, t} \subseteq Bands(storeys)[i]) <=>
             \A p \in Steps(H) : Wide(H, p) => p[1] < s.elevation \/ t.elevation < p[2]
      <4>1. H = {x.elevation : x \in storeys} OBVIOUS
      <4> HIDE DEF H
      <4> QED BY <2>1, <2>3, <4>1, OneFloorOneBand
    <3> HIDE DEF floors, b, H
    <3> QED BY <2>2, <3>1, <3>2
  <2>4. ASSUME NEW i \in DOMAIN floors, i + 1 \in DOMAIN floors
        PROVE  floors[i].max < floors[i + 1].min
    <3>1. i \in DOMAIN b /\ i + 1 \in DOMAIN b BY <2>2, <2>4
    <3>2. floors[i].max = Highest(Bands(storeys)[i]) /\ floors[i + 1].min = Lowest(Bands(storeys)[i + 1])
      BY <3>1, ContractOfBands
    <3>3. Highest(Bands(storeys)[i]) < b[i + 1] /\ b[i + 1] <= Lowest(Bands(storeys)[i + 1])
      BY <2>1, <3>1, BandIsBetween
    <3>4. Highest(Bands(storeys)[i]) \in Int /\ Lowest(Bands(storeys)[i + 1]) \in Int /\ b[i + 1] \in Int
      BY <2>1, <2>2, <3>1, BandIsBetween
    <3> HIDE DEF floors, b
    <3> QED BY <3>2, <3>3, <3>4
  <2>5. storeys # {} => \E i \in DOMAIN floors : \A j \in DOMAIN floors : floors[j].isReference <=> j = i
    <3> SUFFICES ASSUME storeys # {}
                 PROVE  \E i \in DOMAIN floors : \A j \in DOMAIN floors : floors[j].isReference <=> j = i
      OBVIOUS
    <3>1. reference \in Nat /\ reference + 1 \in DOMAIN floors BY <2>1, <2>2, ReferenceIsBand
    <3>2. \A j \in DOMAIN floors : floors[j].isReference <=> j - 1 = reference BY <2>2, ContractOfBands
    <3>3. \A j \in DOMAIN floors : j \in Int BY <2>2
    <3> HIDE DEF floors, reference
    <3>4. \A j \in DOMAIN floors : floors[j].isReference <=> j = reference + 1 BY <3>1, <3>2, <3>3
    <3> QED BY <3>1, <3>4
  <2>6. ASSUME stage \in {"suggested", "bound"}, asked.floorWords
        PROVE  {<<f[2].index, f[2].storeys>> : f \in {g \in universe.scopes : g[1] = "floor_band"}}
                 = {<<floors[i].index, floors[i].storeys>> : i \in DOMAIN floors}
    <3> DEFINE offered == OfferedFloors(storeys)
               scopes == {g \in universe.scopes : g[1] = "floor_band"}
    <3>1. universe.scopes = AllScopes(asked) BY <1>1, <2>6 DEF AskedAndOffered
    <3>2. scopes = {<<"floor_band", f>> : f \in offered} BY <2>6, <3>1 DEF AllScopes, storeys
    <3>3. {<<f[2].index, f[2].storeys>> : f \in scopes} = {<<f.index, f.storeys>> : f \in offered}
      <4> HIDE DEF scopes, offered
      <4>1. \A g \in scopes : g[2] \in offered BY <3>2
      <4>2. \A f \in offered : <<"floor_band", f>> \in scopes /\ <<"floor_band", f>>[2] = f BY <3>2
      <4>3. ASSUME NEW x, x \in {<<g[2].index, g[2].storeys>> : g \in scopes}
            PROVE  x \in {<<f.index, f.storeys>> : f \in offered}
        <5>1. PICK g \in scopes : x = <<g[2].index, g[2].storeys>> BY <4>3
        <5> QED BY <4>1, <5>1
      <4>4. ASSUME NEW f \in offered PROVE <<f.index, f.storeys>> \in {<<g[2].index, g[2].storeys>> : g \in scopes}
        <5> DEFINE g == <<"floor_band", f>>
        <5>1. g \in scopes /\ g[2] = f BY <4>2
        <5> HIDE DEF g
        <5> QED BY <5>1
      <4> QED BY <4>3, <4>4
    <3>4. {<<f.index, f.storeys>> : f \in offered} = {<<i - 1, Bands(storeys)[i]>> : i \in DOMAIN b}
      <4> DEFINE floor(i) == [index |-> i - 1, label |-> <<"floor", i>>, storeys |-> Bands(storeys)[i]]
      <4>1. offered = {floor(i) : i \in DOMAIN b} BY <2>2 DEF OfferedFloors
      <4>2. \A i : floor(i).index = i - 1 /\ floor(i).storeys = Bands(storeys)[i] OBVIOUS
      <4> HIDE DEF floor, offered, b
      <4> QED BY <4>1, <4>2
    <3>5. \A i \in DOMAIN b : floors[i].index = i - 1 /\ floors[i].storeys = Bands(storeys)[i] BY ContractOfBands
    <3>6. {<<floors[i].index, floors[i].storeys>> : i \in DOMAIN floors} = {<<i - 1, Bands(storeys)[i]>> : i \in DOMAIN b}
      <4> HIDE DEF floors, b
      <4> QED BY <2>2, <3>5
    <3> QED BY <3>3, <3>4, <3>6
  <2>7. storeys = Storeys(asked.storeys) /\ floors = FloorContract(storeys) /\ H = {s.elevation : s \in storeys}
    BY DEF storeys
  <2> HIDE DEF floors, H
  <2> SUFFICES ASSUME NEW ss \in {Storeys(asked.storeys)}, NEW ff \in {FloorContract(ss)}, NEW hh \in {{s.elevation : s \in ss}}
               PROVE  /\ \A s, t \in ss : s.elevation <= t.elevation =>
                           ((\E i \in DOMAIN ff : {s, t} \subseteq ff[i].storeys) <=>
                              \A p \in Steps(hh) : Wide(hh, p) => p[1] < s.elevation \/ t.elevation < p[2])
                      /\ \A i \in DOMAIN ff : i + 1 \in DOMAIN ff => ff[i].max < ff[i + 1].min
                      /\ ss # {} => \E i \in DOMAIN ff : \A j \in DOMAIN ff : ff[j].isReference <=> j = i
                      /\ (stage \in {"suggested", "bound"} /\ asked.floorWords) =>
                           {<<f[2].index, f[2].storeys>> : f \in {g \in universe.scopes : g[1] = "floor_band"}}
                             = {<<ff[i].index, ff[i].storeys>> : i \in DOMAIN ff}
    BY Zenon DEF FloorsMeanOneBand
  <2>8. ss = storeys /\ ff = floors /\ hh = H BY <2>7
  <2>9. \A s, t \in storeys : s.elevation <= t.elevation =>
          ((\E i \in DOMAIN floors : {s, t} \subseteq floors[i].storeys) <=>
             \A p \in Steps(H) : Wide(H, p) => p[1] < s.elevation \/ t.elevation < p[2])
    BY <2>3
  <2>10. \A i \in DOMAIN floors : i + 1 \in DOMAIN floors => floors[i].max < floors[i + 1].min BY <2>4
  <2>11. (stage \in {"suggested", "bound"} /\ asked.floorWords) =>
           {<<f[2].index, f[2].storeys>> : f \in {g \in universe.scopes : g[1] = "floor_band"}}
             = {<<floors[i].index, floors[i].storeys>> : i \in DOMAIN floors}
    BY <2>6
  <2>12. \A s, t \in ss : s.elevation <= t.elevation =>
           ((\E i \in DOMAIN ff : {s, t} \subseteq ff[i].storeys) <=>
              \A p \in Steps(hh) : Wide(hh, p) => p[1] < s.elevation \/ t.elevation < p[2])
    BY <2>8, <2>9
  <2>13. \A i \in DOMAIN ff : i + 1 \in DOMAIN ff => ff[i].max < ff[i + 1].min BY <2>8, <2>10
  <2>14. ss # {} => \E i \in DOMAIN ff : \A j \in DOMAIN ff : ff[j].isReference <=> j = i BY <2>5, <2>8
  <2>15. (stage \in {"suggested", "bound"} /\ asked.floorWords) =>
           {<<f[2].index, f[2].storeys>> : f \in {g \in universe.scopes : g[1] = "floor_band"}}
             = {<<ff[i].index, ff[i].storeys>> : i \in DOMAIN ff}
    BY <2>8, <2>11
  <2> QED BY <2>12, <2>13, <2>14, <2>15
<1> QED BY <1>1, AskedAndOfferedInv, PTL

----------------------------------------------------------------------------
(***************************************************************************)
(* Subjects.  What is resolved is resolved against the universe of the     *)
(* asked model, which holds each of its classes once, as itself.           *)
(***************************************************************************)
Resolution ==
  /\ stage \in {"suggested", "bound"} => universe.subjects = AllSubjects(asked.manifest)
  /\ stage = "bound" => closure = ResolveClosure(universe.subjects, choice.primary, choice.unions)

LEMMA ResolutionInv == Spec => []Resolution
<1>1. Init => Resolution BY DEF Init, Resolution
<1>2. Resolution /\ [Next]_vars => Resolution'
  <2> SUFFICES ASSUME Resolution, [Next]_vars PROVE Resolution' OBVIOUS
  <2>1. CASE Analyse BY <2>1 DEF Analyse, Resolution
  <2>2. CASE Suggest BY <2>2 DEF Suggest, Resolution
  <2>3. CASE Bind
    <3>1. PICK primary, unions :
            /\ choice' = [primary |-> primary, unions |-> unions]
            /\ closure' = ResolveClosure(universe.subjects, primary, unions)
      BY <2>3 DEF Bind
    <3>2. stage = "suggested" /\ stage' = "bound" /\ UNCHANGED <<asked, universe>> BY <2>3 DEF Bind
    <3>3. choice'.primary = primary /\ choice'.unions = unions BY <3>1
    <3> QED BY <3>1, <3>2, <3>3 DEF Resolution
  <2>4. CASE UNCHANGED vars BY <2>4 DEF vars, Resolution
  <2> QED BY <2>1, <2>2, <2>3, <2>4 DEF Next
<1> QED BY <1>1, <1>2, PTL DEF Spec

LEMMA KindsAreFinite == IsFiniteSet(ResultKinds)
<1>1. ResultKinds = ({"occurrence"} \cup {"spatial_structure"}) \cup {"non_product_object"} BY DEF ResultKinds
<1>2. IsFiniteSet({"occurrence"}) BY FS_Singleton
<1>3. IsFiniteSet({"occurrence"} \cup {"spatial_structure"}) BY <1>2, FS_AddElement
<1>4. IsFiniteSet(({"occurrence"} \cup {"spatial_structure"}) \cup {"non_product_object"}) BY <1>3, FS_AddElement
<1> QED BY <1>1, <1>4

\* A set of kinds that counts at most one, and has one, is that one.
LEMMA OneKind ==
  ASSUME NEW R, R \subseteq ResultKinds, Cardinality(R) <= 1, NEW r \in R
  PROVE  R = {r}
<1>3. IsFiniteSet(R) BY KindsAreFinite, FS_Subset
<1>4. IsFiniteSet({r}) /\ Cardinality({r}) = 1 BY FS_Singleton
<1>5. {r} \subseteq R BY DEF ResultKinds
<1>6. Cardinality({r}) <= Cardinality(R) /\ Cardinality(R) \in Nat BY <1>3, <1>5, FS_Subset, FS_CardinalityType
<1>7. Cardinality({r}) = Cardinality(R) BY <1>4, <1>6
<1> QED BY <1>3, <1>5, <1>7, FS_Subset

\* The family of a present result class: itself and what descends from it and
\* is of its kind.
LEMMA FamilyOfSubject ==
  ASSUME NEW present, NEW c \in present, SchemaRole(c) \in ResultKinds
  PROVE  Subject(c, present).family =
           {d \in present : d = c \/ (d \in DOMAIN Ontology /\ c \in Ontology[d] /\ SchemaRole(d) = SchemaRole(c))}
<1>1. c \in DOMAIN Ontology BY DEF SchemaRole, ResultKinds
<1>2. FamilyClosure(c, present) = {d \in Descendants(c) \cup {c} : SchemaRole(d) = SchemaRole(c)} \cap present
  BY <1>1 DEF FamilyClosure
<1>3. c \in FamilyClosure(c, present) BY <1>2
<1>4. Subject(c, present).family = FamilyClosure(c, present) BY <1>3 DEF Subject
<1> QED BY <1>2, <1>4 DEF Descendants

\* One total never mixes kinds: the classes counted are the present ones that
\* are, or descend from and are of the kind of, a chosen subject, whatever the
\* language model chose (binding/closure.py, semantic/roles.py).
THEOREM ClosuresAreOneFamily == Spec => []ClosureIsOneFamily
<1>1. ASSUME Resolution, stage = "bound", closure.resolved PROVE ClosureIsOneFamily
  <2> DEFINE chosen == choice.unions \cup {choice.primary}
             entry(c) == Subject(c, Present)
             selected == {s \in universe.subjects : s.class \in chosen}
             roles == {s.role : s \in selected}
             means(c) == \E s \in chosen : c = s \/ (c \in DOMAIN Ontology /\ s \in Ontology[c] /\ SchemaRole(c) = SchemaRole(s))
  <2>1. universe.subjects = {entry(c) : c \in Present}
    BY <1>1 DEF Resolution, AllSubjects, Present
  <2>2. \A c : entry(c).class = c /\ entry(c).role = SchemaRole(c) /\ entry(c).result = (SchemaRole(c) \in ResultKinds)
    BY DEF Subject
  <2>3. closure = ResolveClosure(universe.subjects, choice.primary, choice.unions) BY <1>1 DEF Resolution
  <2>4. /\ \A c \in chosen : \E s \in universe.subjects : s.class = c
        /\ \A s \in selected : s.result
        /\ ~(Cardinality(roles) > 1)
        /\ closure.classes = UNION {s.family : s \in selected}
        /\ closure.role = CHOOSE r \in roles : TRUE
    <3>1. ~Unresolved.resolved BY DEF Unresolved
    <3> QED BY <1>1, <2>3, <3>1 DEF ResolveClosure
  <2> HIDE DEF entry
  <2>5. chosen \subseteq Present BY <2>1, <2>2, <2>4
  <2>6. selected = {entry(c) : c \in chosen} BY <2>1, <2>2, <2>5
  <2>7. ASSUME NEW c \in chosen PROVE SchemaRole(c) \in ResultKinds
    <3>1. entry(c) \in selected BY <2>6
    <3> HIDE DEF selected, chosen
    <3>2. entry(c).result BY <2>4, <3>1
    <3> QED BY <2>2, <3>2
  <2>8. roles = {SchemaRole(c) : c \in chosen} BY <2>2, <2>6
  <2>9. choice.primary \in chosen OBVIOUS
  <2> HIDE DEF chosen, selected, roles, means
  <2>10. roles = {SchemaRole(choice.primary)}
    <3>1. roles \subseteq ResultKinds /\ SchemaRole(choice.primary) \in roles BY <2>7, <2>8, <2>9
    <3>2. IsFiniteSet(roles) BY <3>1, KindsAreFinite, FS_Subset
    <3>3. Cardinality(roles) \in Nat BY <3>2, FS_CardinalityType
    <3>4. Cardinality(roles) <= 1 BY <2>4, <3>3
    <3> QED BY <3>1, <3>4, OneKind
  <2>11. closure.role = SchemaRole(choice.primary) /\ closure.role \in ResultKinds BY <2>4, <2>7, <2>9, <2>10
  <2>12. \A c \in chosen : SchemaRole(c) = closure.role BY <2>8, <2>10, <2>11
  <2>13. \A c \in chosen : entry(c).family =
           {d \in Present : d = c \/ (d \in DOMAIN Ontology /\ c \in Ontology[d] /\ SchemaRole(d) = SchemaRole(c))}
    BY <2>5, <2>7, FamilyOfSubject DEF entry
  <2>14. closure.classes = UNION {entry(c).family : c \in chosen} BY <2>4, <2>6
  <2>15. ASSUME NEW d PROVE d \in closure.classes <=> d \in Present /\ means(d)
    <3>1. d \in closure.classes <=> \E c \in chosen : d \in entry(c).family BY <2>14
    <3>2. d \in closure.classes <=>
            \E c \in chosen : /\ d \in Present
                              /\ d = c \/ (d \in DOMAIN Ontology /\ c \in Ontology[d] /\ SchemaRole(d) = SchemaRole(c))
      BY <2>13, <3>1
    <3> QED BY <3>2 DEF means
  <2>16. closure.classes = {c \in Present : means(c)} BY <2>15
  <2>17. \A c \in closure.classes : SchemaRole(c) = closure.role
    <3> SUFFICES ASSUME NEW d, means(d) PROVE SchemaRole(d) = closure.role BY <2>15
    <3> QED BY <2>12 DEF means
  <2> QED BY <2>11, <2>16, <2>17 DEF ClosureIsOneFamily, chosen, means
<1>2. Resolution => ClosureIsOneFamily BY <1>1 DEF ClosureIsOneFamily
<1> QED BY <1>2, ResolutionInv, PTL

----------------------------------------------------------------------------
(***************************************************************************)
(* The ledger of a question.  Spans, words and the items of content runs   *)
(* are finite ordered sets, so the ledger lists each of them.              *)
(***************************************************************************)
AllKinds == {SpanKinds[n] : n \in DOMAIN SpanKinds}

Matched(q) ==
  /\ Len(q) \in Nat /\ DOMAIN q = 1 .. Len(q)
  /\ \A i \in DOMAIN q : q[i].spans \subseteq AllKinds /\ (q[i].content => q[i].word)

SpanSet(q) == UNION {{[at |-> i, kind |-> k] : k \in Kinds(q[i])} : i \in DOMAIN q}

\* A kind has one place in the order of kinds.
LEMMA KindPlaces ==
  \A k \in AllKinds : KindPlace(k) \in 1 .. 9 /\ SpanKinds[KindPlace(k)] = k
<1> SUFFICES ASSUME NEW k \in AllKinds PROVE KindPlace(k) \in 1 .. 9 /\ SpanKinds[KindPlace(k)] = k
  OBVIOUS
<1>1. DOMAIN SpanKinds = 1 .. 9 BY DEF SpanKinds
<1>2. \E n \in DOMAIN SpanKinds : SpanKinds[n] = k BY DEF AllKinds
<1> QED BY <1>1, <1>2 DEF KindPlace

LEMMA KindsAreFew == IsFiniteSet(AllKinds)
<1> DEFINE f == [n \in 1 .. 9 |-> SpanKinds[n]]
<1>1. DOMAIN SpanKinds = 1 .. 9 BY DEF SpanKinds
<1>2. f \in Surjection(1 .. 9, AllKinds) BY <1>1 DEF AllKinds, Surjection
<1>3. IsFiniteSet(1 .. 9)
  <2>1. \A n \in Nat : IsFiniteSet(1 .. n) BY FS_Interval
  <2> QED BY <2>1
<1> HIDE DEF f
<1> QED BY <1>2, <1>3, FS_Surjection

LEMMA SpanSetIsFinite ==
  ASSUME NEW q, Matched(q)
  PROVE  /\ IsFiniteSet(SpanSet(q))
         /\ \A s \in SpanSet(q) : /\ s.at \in DOMAIN q /\ s.at \in Int /\ s.kind \in AllKinds
                                  /\ s = [at |-> s.at, kind |-> s.kind]
         /\ \A i \in DOMAIN q : \A k \in Kinds(q[i]) : [at |-> i, kind |-> k] \in SpanSet(q)
<1> DEFINE P == (DOMAIN q) \X AllKinds
           f == [p \in P |-> [at |-> p[1], kind |-> p[2]]]
           Q == {f[p] : p \in P}
<1>1. \A i \in DOMAIN q : Kinds(q[i]) \subseteq AllKinds BY DEF Matched, Kinds
<1>2. ASSUME NEW s \in SpanSet(q)
      PROVE  \E i \in DOMAIN q, k \in AllKinds : s = [at |-> i, kind |-> k]
  BY <1>1 DEF SpanSet
<1>3. SpanSet(q) \subseteq Q
  <2> SUFFICES ASSUME NEW s \in SpanSet(q) PROVE s \in Q OBVIOUS
  <2>1. PICK i \in DOMAIN q, k \in AllKinds : s = [at |-> i, kind |-> k] BY <1>2
  <2>2. <<i, k>> \in P /\ f[<<i, k>>] = s BY <2>1
  <2> HIDE DEF f, P
  <2> QED BY <2>2
<1>4. IsFiniteSet(Q)
  <2>1. f \in Surjection(P, Q) BY DEF Surjection
  <2>2. IsFiniteSet(P)
    <3>1. IsFiniteSet(DOMAIN q) BY FS_Interval DEF Matched
    <3> QED BY <3>1, KindsAreFew, FS_Product
  <2> HIDE DEF f, P, Q
  <2> QED BY <2>1, <2>2, FS_Surjection
<1>5. IsFiniteSet(SpanSet(q)) BY <1>3, <1>4, FS_Subset
<1>6. \A i \in DOMAIN q : i \in Int BY DEF Matched
<1> QED BY <1>2, <1>5, <1>6 DEF SpanSet

\* All spans, in order of place and then of kind.
LEMMA SpansListed ==
  ASSUME NEW q, Matched(q)
  PROVE  LET l == AllSpans(q)
         IN  /\ l \in Seq(SpanSet(q)) /\ Len(l) \in Nat /\ DOMAIN l = 1 .. Len(l)
             /\ \A s \in SpanSet(q) : \E n \in DOMAIN l : l[n] = s
<1> DEFINE S == SpanSet(q)
           Before(s, t) == s.at < t.at \/ (s.at = t.at /\ KindPlace(s.kind) < KindPlace(t.kind))
           R == {p \in S \X S : Before(p[1], p[2])}
           l == [i \in 1 .. Cardinality(S) |-> CHOOSE x \in S : Cardinality({y \in S : Before(y, x)}) = i - 1]
           Valued == {l[i] : i \in 1 .. Cardinality(S)}
<1>1. \A s \in S : /\ s.at \in Int /\ KindPlace(s.kind) \in Int
                   /\ SpanKinds[KindPlace(s.kind)] = s.kind
                   /\ s = [at |-> s.at, kind |-> s.kind]
  BY SpanSetIsFinite, KindPlaces
<1>2. IsFiniteSet(S) BY SpanSetIsFinite
<1>3. AllSpans(q) = l BY DEF AllSpans, Ordered, SpanSet
<1>4. l \in [1 .. Cardinality(S) -> Valued] OBVIOUS
<1>5. ASSUME NEW x, NEW y PROVE <<x, y>> \in R <=> x \in S /\ y \in S /\ Before(x, y) OBVIOUS
<1> HIDE DEF S, R
<1>6. StrictOrder(S, R)
  <2>1. \A x, y \in S : x.at = y.at /\ KindPlace(x.kind) = KindPlace(y.kind) => x = y BY <1>1
  <2>2. \A x, y \in S : x # y => Before(x, y) \/ Before(y, x) BY <1>1, <2>1
  <2>3. \A x \in S : ~Before(x, x) BY <1>1
  <2>4. \A x, y, z \in S : Before(x, y) /\ Before(y, z) => Before(x, z) BY <1>1
  <2> HIDE DEF Before
  <2> QED BY <1>5, <2>2, <2>3, <2>4 DEF StrictOrder
<1> HIDE DEF Before
<1>7. \A x \in S : Cardinality({y \in S : Before(y, x)}) = Rank(S, R, x)
  <2>1. \A x \in S : {y \in S : Before(y, x)} = {y \in S : <<y, x>> \in R} BY <1>5
  <2> QED BY <2>1 DEF Rank
<1>8. ASSUME NEW i \in 1 .. Cardinality(S), NEW x \in S, Rank(S, R, x) = i - 1
      PROVE  l[i] \in S /\ Rank(S, R, l[i]) = i - 1
  <2>1. l[i] = CHOOSE y \in S : Cardinality({z \in S : Before(z, y)}) = i - 1 OBVIOUS
  <2> HIDE DEF l
  <2>2. l[i] \in S /\ Cardinality({z \in S : Before(z, l[i])}) = i - 1 BY <1>7, <1>8, <2>1
  <2> QED BY <1>7, <2>2
<1> HIDE DEF l, Valued
<1>9. PicksRanks(S, R, l) BY <1>8 DEF PicksRanks
<1>10. Lists(S, R, l) BY <1>2, <1>4, <1>6, <1>9, Listing
<1> QED BY <1>3, <1>10 DEF Lists, S

\* The words, in the order they are asked.
LEMMA WordsListed ==
  ASSUME NEW q, Matched(q)
  PROVE  LET w == Words(q)
         IN  /\ Len(w) \in Nat /\ DOMAIN w = 1 .. Len(w)
             /\ \A k \in DOMAIN w : w[k] \in DOMAIN q /\ w[k] \in Int /\ q[w[k]].word
             /\ \A k, j \in DOMAIN w : k < j => w[k] < w[j]
             /\ \A i \in DOMAIN q : q[i].word => \E k \in DOMAIN w : w[k] = i
<1> DEFINE S == {i \in DOMAIN q : q[i].word}
<1>1. S \subseteq DOMAIN q /\ S \subseteq Int BY DEF Matched
<1>2. IsFiniteSet(DOMAIN q) BY FS_Interval DEF Matched
<1>3. IsFiniteSet(S) BY <1>1, <1>2, FS_Subset
<1>4. Words(q) = Ordered(S, <) BY DEF Words
<1>5. \A i \in S : i \in DOMAIN q /\ i \in Int /\ q[i].word BY <1>1
<1>6. \A i \in DOMAIN q : q[i].word => i \in S OBVIOUS
<1> HIDE DEF S
<1> QED BY <1>1, <1>3, <1>4, <1>5, <1>6, AscendingNumbers

LEMMA PartOfInterval ==
  ASSUME NEW a \in Int, NEW b \in Int, NEW S, S \subseteq a .. b
  PROVE  IsFiniteSet(S) /\ S \subseteq Int
<1>1. IsFiniteSet(a .. b) BY FS_Interval
<1>2. IsFiniteSet(S) BY <1>1, FS_Subset
<1>3. a .. b \subseteq Int OBVIOUS
<1> QED BY <1>2, <1>3

\* Around every content word there is a run.
LEMMA RunAround ==
  ASSUME NEW q, Matched(q), NEW k \in DOMAIN Words(q), IsContent(q, Words(q)[k])
  PROVE  \E r \in Runs(q) : r[1] <= k /\ k <= r[2]
<1> DEFINE w == Words(q)
           N == Len(w)
           Con(j) == IsContent(q, w[j])
           A == {a \in 1 .. k : \A j \in a .. k : Con(j)}
           B == {b \in k .. N : \A j \in k .. b : Con(j)}
<1>1. N \in Nat /\ DOMAIN w = 1 .. N /\ k \in 1 .. N BY WordsListed
<1>2. Con(k) OBVIOUS
<1> HIDE DEF Con, N
<1>3. k \in A /\ k \in B
  <2>1. \A j \in k .. k : j = k BY <1>1
  <2> QED BY <1>1, <1>2, <2>1
<1>4. IsFiniteSet(A) /\ A \subseteq Int
  <2>1. A \subseteq 1 .. k OBVIOUS
  <2>2. 1 \in Int /\ k \in Int BY <1>1
  <2> HIDE DEF A
  <2> QED BY <2>1, <2>2, PartOfInterval
<1>5. IsFiniteSet(B) /\ B \subseteq Int
  <2>1. B \subseteq k .. N OBVIOUS
  <2>2. k \in Int /\ N \in Int BY <1>1
  <2> HIDE DEF B
  <2> QED BY <2>1, <2>2, PartOfInterval
<1>6. PICK a \in A : \A x \in A : a <= x
  <2> HIDE DEF A
  <2> QED BY <1>3, <1>4, Extremes
<1>7. PICK b \in B : \A x \in B : b >= x
  <2> HIDE DEF B
  <2> QED BY <1>3, <1>5, Extremes
<1>8. a \in Int /\ b \in Int /\ 1 <= a /\ a <= k /\ k <= b /\ b <= N /\ k \in Int BY <1>1
<1>9. \A j \in a .. b : Con(j)
  <2> SUFFICES ASSUME NEW j \in a .. b PROVE Con(j) OBVIOUS
  <2>1. j \in a .. k \/ j \in k .. b BY <1>8
  <2> QED BY <2>1
<1>10. a = 1 \/ ~Con(a - 1)
  <2> SUFFICES ASSUME a # 1, Con(a - 1) PROVE FALSE OBVIOUS
  <2>1. a - 1 \in 1 .. k BY <1>8
  <2>2. \A j \in (a - 1) .. k : j = a - 1 \/ j \in a .. k BY <1>8
  <2>3. a - 1 \in A BY <2>1, <2>2
  <2>4. ~(a <= a - 1) BY <1>8
  <2> QED BY <1>6, <2>3, <2>4
<1>11. b = N \/ ~Con(b + 1)
  <2> SUFFICES ASSUME b # N, Con(b + 1) PROVE FALSE OBVIOUS
  <2>1. b + 1 \in k .. N BY <1>1, <1>8
  <2>2. \A j \in k .. (b + 1) : j = b + 1 \/ j \in k .. b BY <1>8
  <2>3. b + 1 \in B BY <2>1, <2>2
  <2>4. ~(b >= b + 1) BY <1>8
  <2> QED BY <1>7, <2>3, <2>4
<1>12. <<a, b>> \in (DOMAIN w) \X (DOMAIN w) BY <1>1, <1>8
<1> HIDE DEF A, B
<1> DEFINE r == <<a, b>>
<1>13. r[1] = a /\ r[2] = b OBVIOUS
<1> HIDE DEF r
<1>14. r \in (DOMAIN w) \X (DOMAIN w) BY <1>12 DEF r
<1> HIDE DEF w
<1>15. r \in Runs(q)
  <2>1. r[1] <= r[2] BY <1>8, <1>13
  <2>2. \A j \in r[1] .. r[2] : IsContent(q, w[j]) BY <1>9, <1>13 DEF Con
  <2>3. r[1] = 1 \/ ~IsContent(q, w[r[1] - 1]) BY <1>10, <1>13 DEF Con
  <2>4. r[2] = Len(w) \/ ~IsContent(q, w[r[2] + 1]) BY <1>11, <1>13 DEF Con, N
  <2> QED BY <1>14, <2>1, <2>2, <2>3, <2>4 DEF Runs, w
<1> QED BY <1>8, <1>13, <1>15

\* What a run is; two runs with the same first word are the same.
LEMMA RunFacts ==
  ASSUME NEW q, Matched(q), NEW r \in Runs(q)
  PROVE  /\ r = <<r[1], r[2]>> /\ r[1] \in DOMAIN Words(q) /\ r[2] \in DOMAIN Words(q)
         /\ r[1] \in Int /\ r[2] \in Int /\ 1 <= r[1] /\ r[1] <= r[2] /\ r[2] <= Len(Words(q))
         /\ \A j \in r[1] .. r[2] : IsContent(q, Words(q)[j])
         /\ r[1] = 1 \/ ~IsContent(q, Words(q)[r[1] - 1])
         /\ r[2] = Len(Words(q)) \/ ~IsContent(q, Words(q)[r[2] + 1])
<1>1. Len(Words(q)) \in Nat /\ DOMAIN Words(q) = 1 .. Len(Words(q)) BY WordsListed
<1>2. r \in (DOMAIN Words(q)) \X (DOMAIN Words(q)) BY DEF Runs
<1>3. r = <<r[1], r[2]>> /\ r[1] \in DOMAIN Words(q) /\ r[2] \in DOMAIN Words(q) BY <1>2
<1> QED BY <1>1, <1>3 DEF Runs

LEMMA RunsDiffer ==
  ASSUME NEW q, Matched(q), NEW r \in Runs(q), NEW s \in Runs(q), r[1] = s[1]
  PROVE  r = s
<1>1. ASSUME NEW x \in Runs(q), NEW y \in Runs(q), x[1] = y[1], x[2] < y[2] PROVE FALSE
  <2>1. x[2] + 1 \in y[1] .. y[2] /\ x[2] # Len(Words(q))
    <3>1. Len(Words(q)) \in Nat BY WordsListed
    <3> QED BY <1>1, <3>1, RunFacts
  <2> QED BY <2>1, RunFacts
<1>2. r[2] = s[2]
  <2>1. r[2] \in Int /\ s[2] \in Int BY RunFacts
  <2> QED BY <1>1, <2>1
<1>3. r = <<r[1], r[2]>> /\ s = <<s[1], s[2]>> BY RunFacts
<1> QED BY <1>2, <1>3

\* The places of the items of content runs.
PlaceSet(q) == UNION {Places(q, run) : run \in Runs(q)}

LEMMA PlaceSetIsFinite ==
  ASSUME NEW q, Matched(q)
  PROVE  /\ IsFiniteSet(PlaceSet(q))
         /\ \A p \in PlaceSet(q) : p[1] \in Runs(q) /\ p[2] \in Int /\ p[1][1] \in Int /\ p = <<p[1], p[2]>>
         /\ \A r \in Runs(q) : <<r, 0>> \in PlaceSet(q)
         /\ \A r \in Runs(q) : \A k \in r[1] .. r[2] :
               r[1] # r[2] /\ NewWord(q, r, k) => <<r, k>> \in PlaceSet(q)
<1> DEFINE W == DOMAIN Words(q)
           N == 0 .. Len(Words(q))
<1>1. Len(Words(q)) \in Nat /\ W = 1 .. Len(Words(q)) BY WordsListed
<1>2. IsFiniteSet(W) /\ IsFiniteSet(N) BY <1>1, FS_Interval
<1>3. IsFiniteSet(W \X W) BY <1>2, FS_Product
<1>4. Runs(q) \subseteq W \X W BY DEF Runs
<1>5. IsFiniteSet(Runs(q)) BY <1>3, <1>4, FS_Subset
<1>6. IsFiniteSet(Runs(q) \X N) BY <1>2, <1>5, FS_Product
<1>7. ASSUME NEW r \in Runs(q), NEW p \in Places(q, r)
      PROVE  \E k \in N : p = <<r, k>>
  <2>1. 0 \in N BY <1>1
  <2>2. \A k \in r[1] .. r[2] : k \in N
    <3>1. r[1] \in Int /\ r[2] \in Int /\ 1 <= r[1] /\ r[2] <= Len(Words(q)) BY RunFacts
    <3> QED BY <1>1, <3>1
  <2> HIDE DEF N
  <2> QED BY <2>1, <2>2 DEF Places
<1>8. PlaceSet(q) \subseteq Runs(q) \X N
  <2> HIDE DEF N
  <2> QED BY <1>7 DEF PlaceSet
<1>9. IsFiniteSet(PlaceSet(q)) BY <1>6, <1>8, FS_Subset
<1>10. ASSUME NEW p \in PlaceSet(q)
       PROVE  p[1] \in Runs(q) /\ p[2] \in Int /\ p[1][1] \in Int /\ p = <<p[1], p[2]>>
  <2>1. p \in Runs(q) \X N BY <1>8
  <2>2. p[1] \in Runs(q) /\ p[2] \in N /\ p = <<p[1], p[2]>> BY <2>1
  <2> QED BY <1>1, <2>2, RunFacts
<1>11. ASSUME NEW r \in Runs(q) PROVE <<r, 0>> \in PlaceSet(q)
  BY DEF PlaceSet, Places
<1>12. ASSUME NEW r \in Runs(q), NEW k \in r[1] .. r[2], r[1] # r[2], NewWord(q, r, k)
       PROVE  <<r, k>> \in PlaceSet(q)
  BY <1>12 DEF PlaceSet, Places
<1> QED BY <1>9, <1>10, <1>11, <1>12

LEMMA ItemsListed ==
  ASSUME NEW q, Matched(q)
  PROVE  LET l == ContentItems(q)
         IN  /\ l \in Seq({l[n] : n \in DOMAIN l})
             /\ \A p \in PlaceSet(q) : \E n \in DOMAIN l : l[n] = ContentItem(q, p)
<1> DEFINE S == PlaceSet(q)
           Before(x, y) == x[1][1] < y[1][1] \/ (x[1][1] = y[1][1] /\ x[2] < y[2])
           R == {p \in S \X S : Before(p[1], p[2])}
           l == [i \in 1 .. Cardinality(S) |-> CHOOSE x \in S : Cardinality({y \in S : Before(y, x)}) = i - 1]
           Valued == {l[i] : i \in 1 .. Cardinality(S)}
<1>1. \A s \in S : s[1] \in Runs(q) /\ s[1][1] \in Int /\ s[2] \in Int /\ s = <<s[1], s[2]>>
  BY PlaceSetIsFinite
<1>2. IsFiniteSet(S) BY PlaceSetIsFinite
<1>3. ContentItems(q) = [i \in DOMAIN l |-> ContentItem(q, l[i])] BY DEF ContentItems, Ordered, PlaceSet
<1>4. l \in [1 .. Cardinality(S) -> Valued] OBVIOUS
<1>5. ASSUME NEW x, NEW y PROVE <<x, y>> \in R <=> x \in S /\ y \in S /\ Before(x, y) OBVIOUS
<1> HIDE DEF S, R
<1>6. StrictOrder(S, R)
  <2>1. \A x, y \in S : x[1][1] = y[1][1] /\ x[2] = y[2] => x = y BY <1>1, RunsDiffer
  <2>2. \A x, y \in S : x # y => Before(x, y) \/ Before(y, x) BY <1>1, <2>1
  <2>3. \A x \in S : ~Before(x, x) BY <1>1
  <2>4. \A x, y, z \in S : Before(x, y) /\ Before(y, z) => Before(x, z) BY <1>1
  <2> HIDE DEF Before
  <2> QED BY <1>5, <2>2, <2>3, <2>4 DEF StrictOrder
<1> HIDE DEF Before
<1>7. \A x \in S : Cardinality({y \in S : Before(y, x)}) = Rank(S, R, x)
  <2>1. \A x \in S : {y \in S : Before(y, x)} = {y \in S : <<y, x>> \in R} BY <1>5
  <2> QED BY <2>1 DEF Rank
<1>8. ASSUME NEW i \in 1 .. Cardinality(S), NEW x \in S, Rank(S, R, x) = i - 1
      PROVE  l[i] \in S /\ Rank(S, R, l[i]) = i - 1
  <2>1. l[i] = CHOOSE y \in S : Cardinality({z \in S : Before(z, y)}) = i - 1 OBVIOUS
  <2> HIDE DEF l
  <2>2. l[i] \in S /\ Cardinality({z \in S : Before(z, l[i])}) = i - 1 BY <1>7, <1>8, <2>1
  <2> QED BY <1>7, <2>2
<1> HIDE DEF l, Valued
<1>9. PicksRanks(S, R, l) BY <1>8 DEF PicksRanks
<1>10. Lists(S, R, l) BY <1>2, <1>4, <1>6, <1>9, Listing
<1> DEFINE c == [i \in DOMAIN l |-> ContentItem(q, l[i])]
           D == {c[n] : n \in DOMAIN c}
<1>11. c \in Seq(D)
  <2>1. Len(l) \in Nat /\ DOMAIN l = 1 .. Len(l) BY <1>10 DEF Lists
  <2>2. c \in [1 .. Len(l) -> D] BY <2>1
  <2> HIDE DEF c, D
  <2> QED BY <2>1, <2>2
<1>12. \A p \in S : \E n \in DOMAIN c : c[n] = ContentItem(q, p) BY <1>10 DEF Lists
<1> QED BY <1>3, <1>11, <1>12 DEF S
----------------------------------------------------------------------------
(***************************************************************************)
(* The ledger is four lists one after the other; nothing of a part is lost *)
(* in it.                                                                  *)
(***************************************************************************)
SpanItems(q) == [i \in DOMAIN Spans(q) |-> SpanItem(q, Spans(q)[i])]

LEMMA SpansKept ==
  ASSUME NEW q, Matched(q)
  PROVE  /\ Spans(q) \in Seq(SpanSet(q)) /\ Len(Spans(q)) \in Nat /\ DOMAIN Spans(q) = 1 .. Len(Spans(q))
         /\ Len(AllSpans(q)) <= MaxSpans => Spans(q) = AllSpans(q)
<1> DEFINE l == AllSpans(q)
           n == IF MaxSpans < Len(l) THEN MaxSpans ELSE Len(l)
<1>1. l \in Seq(SpanSet(q)) /\ Len(l) \in Nat /\ DOMAIN l = 1 .. Len(l) BY SpansListed
<1>2. Spans(q) = SubSeq(l, 1, n) BY DEF Spans, Take
<1> HIDE DEF l
<1>3. n \in Nat /\ n <= Len(l) BY <1>1, MaxSpansPositive
<1>4. \A i \in 1 .. n : l[i] \in SpanSet(q)
  <2>1. \A i \in 1 .. n : i \in 1 .. Len(l) BY <1>1, <1>3
  <2> HIDE DEF n
  <2> QED BY <1>1, <2>1, ElementOfSeq
<1>5. Len(l) <= MaxSpans => n = Len(l)
  <2>1. Len(l) \in Int /\ MaxSpans \in Int BY <1>1, MaxSpansPositive
  <2>2. Len(l) <= MaxSpans => ~(MaxSpans < Len(l)) BY <2>1
  <2> QED BY <2>2
<1> HIDE DEF n
<1>6. SubSeq(l, 1, n) \in Seq(SpanSet(q))
  <2>1. 1 \in Int /\ n \in Int BY <1>3
  <2> QED BY <1>4, <2>1, SubSeqProperties
<1>7. n = Len(l) => SubSeq(l, 1, n) = l BY <1>1, SubSeqFull
<1> QED BY <1>2, <1>5, <1>6, <1>7, LenProperties DEF l

Includes(l, part) == \A n \in DOMAIN part : \E j \in DOMAIN l : l[j] = part[n]

LEMMA Joined ==
  ASSUME NEW X, NEW a \in Seq(X), NEW b \in Seq(X), NEW c \in Seq(X), NEW d \in Seq(X)
  PROVE  LET l == a \o b \o c \o d
         IN  Len(l) \in Nat /\ DOMAIN l = 1 .. Len(l) /\ Includes(l, a) /\ Includes(l, b)
<1>1. /\ Len(a) \in Nat /\ DOMAIN a = 1 .. Len(a) /\ Len(b) \in Nat /\ DOMAIN b = 1 .. Len(b)
      /\ Len(c) \in Nat /\ Len(d) \in Nat
  BY LenProperties
<1> DEFINE ab == a \o b
           abc == ab \o c
           l == abc \o d
<1>2. /\ ab \in Seq(X) /\ Len(ab) = Len(a) + Len(b)
      /\ \A i \in 1 .. Len(a) + Len(b) : ab[i] = IF i <= Len(a) THEN a[i] ELSE b[i - Len(a)]
  BY ConcatProperties
<1> HIDE DEF ab
<1>3. /\ abc \in Seq(X) /\ Len(abc) = Len(ab) + Len(c)
      /\ \A i \in 1 .. Len(ab) + Len(c) : abc[i] = IF i <= Len(ab) THEN ab[i] ELSE c[i - Len(ab)]
  <2>1. ab \in Seq(X) BY <1>2
  <2> QED BY <2>1, ConcatProperties
<1> HIDE DEF abc
<1>4. /\ l \in Seq(X) /\ Len(l) = Len(abc) + Len(d)
      /\ \A i \in 1 .. Len(abc) + Len(d) : l[i] = IF i <= Len(abc) THEN abc[i] ELSE d[i - Len(abc)]
  <2>1. abc \in Seq(X) BY <1>3
  <2> QED BY <2>1, ConcatProperties
<1>5. Len(l) \in Nat /\ DOMAIN l = 1 .. Len(l)
  <2> HIDE DEF l
  <2> QED BY <1>4, LenProperties
<1> HIDE DEF l
<1>6. ASSUME NEW n \in 1 .. Len(a) PROVE \E j \in DOMAIN l : l[j] = a[n]
  <2>1. n \in DOMAIN l /\ l[n] = a[n] BY <1>1, <1>2, <1>3, <1>4, <1>5
  <2> QED BY <2>1
<1>7. ASSUME NEW n \in 1 .. Len(b) PROVE \E j \in DOMAIN l : l[j] = b[n]
  <2> DEFINE j == Len(a) + n
  <2>1. j \in 1 .. Len(a) + Len(b) /\ ~(j <= Len(a)) /\ j - Len(a) = n BY <1>1
  <2> HIDE DEF j
  <2>2. ab[j] = b[n] BY <1>2, <2>1
  <2>3. abc[j] = ab[j] /\ j \in 1 .. Len(abc) BY <1>1, <1>2, <1>3, <2>1
  <2>4. l[j] = abc[j] /\ j \in 1 .. Len(l) BY <1>1, <1>2, <1>3, <1>4, <2>3
  <2> QED BY <1>5, <2>2, <2>3, <2>4
<1> QED BY <1>1, <1>5, <1>6, <1>7 DEF l, abc, ab, Includes

LEMMA ProvidedIsList ==
  ASSUME NEW source, NEW given
  PROVE  LET c == Provided(source, given) IN c \in Seq({c[n] : n \in DOMAIN c})
<1> DEFINE c == Provided(source, given)
<1>1. CASE given
  <2> DEFINE e == [text |-> {}, at |-> {}, source |-> source, role |-> "scope",
                   required |-> FALSE, negated |-> FALSE, kind |-> "none"]
  <2>1. c = <<e>> BY <1>1 DEF Provided
  <2> HIDE DEF c, e
  <2>2. Len(c) = 1 /\ DOMAIN c = 1 .. 1 BY <2>1
  <2> DEFINE S == {c[n] : n \in DOMAIN c}
  <2>3. c \in [1 .. Len(c) -> S] /\ Len(c) \in Nat BY <2>1, <2>2
  <2> HIDE DEF S
  <2>4. c \in Seq(S) BY <2>3
  <2> QED BY <2>4 DEF S, c
<1>2. CASE ~given
  <2>1. c = <<>> BY <1>2 DEF Provided
  <2> QED BY <2>1, EmptySeq
<1> QED BY <1>1, <1>2

LEMMA LedgerIsList ==
  ASSUME NEW q, Matched(q), NEW previous, NEW selected
  PROVE  LET ledger_ == BuildLedger(q, previous, selected)
         IN  /\ Len(ledger_) \in Nat /\ DOMAIN ledger_ = 1 .. Len(ledger_)
             /\ \A n \in DOMAIN Spans(q) : \E j \in DOMAIN ledger_ : ledger_[j] = SpanItem(q, Spans(q)[n])
             /\ \A n \in DOMAIN ContentItems(q) : \E j \in DOMAIN ledger_ : ledger_[j] = ContentItems(q)[n]
<1> DEFINE a == SpanItems(q)
           b == ContentItems(q)
           c == Provided("inherited_scope", previous)
           d == Provided("selection", selected)
           X == {a[n] : n \in DOMAIN a} \cup {b[n] : n \in DOMAIN b}
                \cup {c[n] : n \in DOMAIN c} \cup {d[n] : n \in DOMAIN d}
<1>1. a \in Seq(X)
  <2>1. Len(Spans(q)) \in Nat /\ DOMAIN a = 1 .. Len(Spans(q)) BY SpansKept DEF SpanItems
  <2>2. a \in [1 .. Len(Spans(q)) -> X] BY <2>1 DEF SpanItems
  <2> HIDE DEF a, X
  <2> QED BY <2>1, <2>2
<1>2. b \in Seq(X)
  <2>1. b \in Seq({b[n] : n \in DOMAIN b}) BY ItemsListed
  <2> HIDE DEF b
  <2>2. Len(b) \in Nat /\ DOMAIN b = 1 .. Len(b) /\ b \in [1 .. Len(b) -> {b[n] : n \in DOMAIN b}]
    BY <2>1, LenProperties
  <2>3. b \in [1 .. Len(b) -> X] BY <2>2
  <2> HIDE DEF X
  <2> QED BY <2>2, <2>3
<1>3. c \in Seq(X) /\ d \in Seq(X)
  <2>1. c \in Seq({c[n] : n \in DOMAIN c}) /\ d \in Seq({d[n] : n \in DOMAIN d}) BY ProvidedIsList
  <2> HIDE DEF c, d
  <2>2. /\ Len(c) \in Nat /\ DOMAIN c = 1 .. Len(c) /\ c \in [1 .. Len(c) -> {c[n] : n \in DOMAIN c}]
        /\ Len(d) \in Nat /\ DOMAIN d = 1 .. Len(d) /\ d \in [1 .. Len(d) -> {d[n] : n \in DOMAIN d}]
    BY <2>1, LenProperties
  <2>3. c \in [1 .. Len(c) -> X] /\ d \in [1 .. Len(d) -> X] BY <2>2
  <2> HIDE DEF X
  <2> QED BY <2>2, <2>3
<1>4. BuildLedger(q, previous, selected) = a \o b \o c \o d BY DEF BuildLedger, SpanItems
<1>5. \A n \in DOMAIN Spans(q) : n \in DOMAIN a /\ a[n] = SpanItem(q, Spans(q)[n]) BY DEF SpanItems
<1> HIDE DEF a, b, c, d, X
<1> DEFINE m == a \o b \o c \o d
<1>6. Len(m) \in Nat /\ DOMAIN m = 1 .. Len(m) /\ Includes(m, a) /\ Includes(m, b)
  BY <1>1, <1>2, <1>3, Joined
<1>7. BuildLedger(q, previous, selected) = m BY <1>4
<1> HIDE DEF m
<1> QED BY <1>5, <1>6, <1>7 DEF b, Includes

LEMMA LedgerHolds ==
  ASSUME NEW q, Matched(q), NEW previous, NEW selected
  PROVE  LET l == BuildLedger(q, previous, selected)
         IN  /\ Len(AllSpans(q)) <= MaxSpans =>
                  \A s \in SpanSet(q) : \E j \in DOMAIN l : l[j] = SpanItem(q, s)
             /\ \A p \in PlaceSet(q) : \E j \in DOMAIN l : l[j] = ContentItem(q, p)
<1> DEFINE l == BuildLedger(q, previous, selected)
<1>1. /\ \A n \in DOMAIN Spans(q) : \E j \in DOMAIN l : l[j] = SpanItem(q, Spans(q)[n])
      /\ \A n \in DOMAIN ContentItems(q) : \E j \in DOMAIN l : l[j] = ContentItems(q)[n]
  BY LedgerIsList
<1> HIDE DEF l
<1>2. ASSUME Len(AllSpans(q)) <= MaxSpans, NEW s \in SpanSet(q)
      PROVE  \E j \in DOMAIN l : l[j] = SpanItem(q, s)
  <2>1. Spans(q) = AllSpans(q) BY <1>2, SpansKept
  <2>2. PICK n \in DOMAIN Spans(q) : Spans(q)[n] = s BY <2>1, SpansListed
  <2> QED BY <1>1, <2>2
<1>3. ASSUME NEW p \in PlaceSet(q) PROVE \E j \in DOMAIN l : l[j] = ContentItem(q, p)
  <2>1. PICK n \in DOMAIN ContentItems(q) : ContentItems(q)[n] = ContentItem(q, p) BY ItemsListed
  <2> QED BY <1>1, <2>1
<1> QED BY <1>2, <1>3 DEF l
(***************************************************************************)
(* No qualifier is lost.  The ledger stays what was built of the phrases;  *)
(* a span and a place each have their item in it.                          *)
(***************************************************************************)
LedgerBuilt ==
  /\ asked \in Requests
  /\ stage # "asked" => ledger = BuildLedger(asked.phrases, asked.previous, asked.selected)

LEMMA LedgerBuiltInv == Spec => []LedgerBuilt
<1>1. Init => LedgerBuilt BY DEF Init, LedgerBuilt
<1>2. LedgerBuilt /\ [Next]_vars => LedgerBuilt'
  <2> SUFFICES ASSUME LedgerBuilt, [Next]_vars PROVE LedgerBuilt' OBVIOUS
  <2>1. CASE Analyse BY <2>1 DEF Analyse, LedgerBuilt
  <2>2. CASE Suggest BY <2>2 DEF Suggest, LedgerBuilt
  <2>3. CASE Bind BY <2>3 DEF Bind, LedgerBuilt
  <2>4. CASE UNCHANGED vars BY <2>4 DEF vars, LedgerBuilt
  <2> QED BY <2>1, <2>2, <2>3, <2>4 DEF Next
<1> QED BY <1>1, <1>2, PTL DEF Spec

LEMMA PhrasesMatch == ASSUME asked \in Requests PROVE Matched(asked.phrases)
BY PhrasesAreMatched DEF Matched, AllKinds

\* A phrase that restricts is a span, and its span is an item that is required.
LEMMA SpanIsRequired ==
  ASSUME NEW q, Matched(q), NEW i \in DOMAIN q, NEW k \in Kinds(q[i]) \cap Material
  PROVE  LET s == [at |-> i, kind |-> k]
         IN  /\ s \in SpanSet(q) /\ SpanItem(q, s).required
             /\ i \in SpanItem(q, s).at /\ SpanItem(q, s).text = q[i].stems
<1>1. [at |-> i, kind |-> k] \in SpanSet(q) BY SpanSetIsFinite
<1>2. k \notin {"scope_reference", "unit"} BY DEF Material
<1> QED BY <1>1, <1>2 DEF SpanItem

\* A content word is in the phrase of its run.
LEMMA WordIsInPhrase ==
  ASSUME NEW q, Matched(q), NEW i \in DOMAIN q, IsContent(q, i)
  PROVE  \E p \in PlaceSet(q) :
           /\ ContentItem(q, p).required /\ i \in ContentItem(q, p).at
           /\ q[i].stems \subseteq ContentItem(q, p).text
<1> DEFINE w == Words(q)
<1>1. /\ Len(w) \in Nat /\ DOMAIN w = 1 .. Len(w)
      /\ \A k \in DOMAIN w : w[k] \in DOMAIN q /\ w[k] \in Int
      /\ \A k, j \in DOMAIN w : k < j => w[k] < w[j]
  BY WordsListed
<1>2. q[i].word BY DEF Matched, IsContent
<1>3. PICK k \in DOMAIN w : w[k] = i BY <1>2, WordsListed
<1>4. PICK r \in Runs(q) : r[1] <= k /\ k <= r[2] BY <1>3, RunAround
<1>5. r[1] \in DOMAIN w /\ r[2] \in DOMAIN w /\ r[1] \in Int /\ r[2] \in Int BY RunFacts
<1> DEFINE p == <<r, 0>>
           within == {j \in DOMAIN q : w[r[1]] <= j /\ j <= w[r[2]]}
<1>6. p \in PlaceSet(q) BY PlaceSetIsFinite
<1>7. ContentItem(q, p).required /\ ContentItem(q, p).at = within
      /\ ContentItem(q, p).text = UNION {q[j].stems : j \in within}
  BY DEF ContentItem
<1> HIDE DEF w
<1>8. i \in within
  <2>1. k \in Int BY <1>1, <1>3
  <2>2. r[1] = k \/ w[r[1]] < w[k] BY <1>1, <1>3, <1>4, <1>5, <2>1
  <2>3. r[2] = k \/ w[k] < w[r[2]] BY <1>1, <1>3, <1>4, <1>5, <2>1
  <2>4. w[k] \in Int /\ w[r[1]] \in Int /\ w[r[2]] \in Int BY <1>1, <1>3, <1>5
  <2>5. w[r[1]] <= i /\ i <= w[r[2]] BY <1>3, <2>2, <2>3, <2>4
  <2> QED BY <2>5
<1> HIDE DEF within, p
<1>9. q[i].stems \subseteq UNION {q[j].stems : j \in within} BY <1>8
<1> QED BY <1>6, <1>7, <1>8, <1>9

\* A word with another content word beside it has a run of several words, and
\* so an item with just its own stems.
LEMMA WordHasItsOwn ==
  ASSUME NEW q, Matched(q), NEW i \in DOMAIN q, NEW j \in DOMAIN q, i # j,
         IsContent(q, i), IsContent(q, j),
         \A k \in ((i .. j) \cup (j .. i)) \cap DOMAIN q : q[k].word => IsContent(q, k)
  PROVE  \E p \in PlaceSet(q) :
           /\ ContentItem(q, p).required /\ ContentItem(q, p).role = "condition"
           /\ ContentItem(q, p).text = q[i].stems
<1> DEFINE w == Words(q)
<1>1. /\ Len(w) \in Nat /\ DOMAIN w = 1 .. Len(w)
      /\ \A k \in DOMAIN w : w[k] \in DOMAIN q /\ w[k] \in Int /\ q[w[k]].word
      /\ \A k, m \in DOMAIN w : k < m => w[k] < w[m]
      /\ \A k \in DOMAIN q : q[k].word => \E m \in DOMAIN w : w[m] = k
  BY WordsListed
<1>2. q[i].word /\ q[j].word BY DEF Matched, IsContent
<1>3. PICK k \in DOMAIN w : w[k] = i BY <1>1, <1>2
<1>4. PICK m \in DOMAIN w : w[m] = j BY <1>1, <1>2
<1>5. PICK r \in Runs(q) : r[1] <= k /\ k <= r[2] BY <1>3, RunAround
<1>6. /\ r[1] \in DOMAIN w /\ r[2] \in DOMAIN w /\ r[1] \in Int /\ r[2] \in Int /\ r[1] <= r[2]
      /\ r[1] = 1 \/ ~IsContent(q, w[r[1] - 1])
      /\ r[2] = Len(w) \/ ~IsContent(q, w[r[2] + 1])
  BY RunFacts
<1> HIDE DEF w
<1>7. k \in Int /\ m \in Int /\ 1 <= k /\ 1 <= m /\ k <= Len(w) /\ m <= Len(w) /\ i \in Int /\ j \in Int
  BY <1>1, <1>3, <1>4
<1>8. k # m BY <1>3, <1>4
<1>9. r[1] # r[2]
  <2>1. CASE k < m
    <3>1. k + 1 \in DOMAIN w /\ k < k + 1 /\ (k + 1 = m \/ k + 1 < m) BY <1>1, <1>7, <2>1
    <3>2. w[k] < w[k + 1] /\ (w[k + 1] = w[m] \/ w[k + 1] < w[m]) BY <1>1, <3>1
    <3>3. w[k + 1] \in i .. j BY <1>1, <1>3, <1>4, <1>7, <3>1, <3>2
    <3>4. IsContent(q, w[k + 1]) BY <1>1, <3>1, <3>3
    <3>5. r[2] # k BY <1>6, <1>7, <2>1, <3>4
    <3> QED BY <1>5, <1>6, <1>7, <3>5
  <2>2. CASE m < k
    <3>1. k - 1 \in DOMAIN w /\ k - 1 < k /\ (k - 1 = m \/ m < k - 1) BY <1>1, <1>7, <2>2
    <3>2. w[k - 1] < w[k] /\ (w[k - 1] = w[m] \/ w[m] < w[k - 1]) BY <1>1, <3>1
    <3>3. w[k - 1] \in j .. i BY <1>1, <1>3, <1>4, <1>7, <3>1, <3>2
    <3>4. IsContent(q, w[k - 1]) BY <1>1, <3>1, <3>3
    <3>5. r[1] # k BY <1>6, <1>7, <2>2, <3>4
    <3> QED BY <1>5, <1>6, <1>7, <3>5
  <2> QED BY <1>7, <1>8, <2>1, <2>2
<1> DEFINE same == {n \in r[1] .. r[2] : q[w[n]].stems = q[i].stems}
<1>10. k \in same BY <1>3, <1>5, <1>6, <1>7
<1>11. IsFiniteSet(same) /\ same \subseteq Int
  <2>1. same \subseteq r[1] .. r[2] OBVIOUS
  <2>2. r[1] \in Int /\ r[2] \in Int BY <1>6
  <2> HIDE DEF same
  <2> QED BY <2>1, <2>2, PartOfInterval
<1>12. PICK n \in same : \A x \in same : n <= x
  <2> HIDE DEF same
  <2> QED BY <1>10, <1>11, Extremes
<1>13. n \in r[1] .. r[2] /\ n \in Int /\ 1 <= n /\ n <= r[2] /\ q[w[n]].stems = q[i].stems
  <2>1. n \in r[1] .. r[2] /\ q[w[n]].stems = q[i].stems
    <3>1. n \in same
      <4> HIDE DEF same
      <4> QED BY <1>12
    <3> QED BY <3>1
  <2>2. r[1] \in Int /\ r[2] \in Int /\ 1 <= r[1] BY <1>1, <1>6
  <2> HIDE DEF same, w
  <2> QED BY <2>1, <2>2
<1>14. NewWord(q, r, n)
  <2> SUFFICES ASSUME NEW x \in r[1] .. n - 1, q[w[x]].stems = q[w[n]].stems PROVE FALSE
    BY DEF NewWord, w
  <2>1. x \in same BY <1>6, <1>13
  <2>2. ~(n <= x) BY <1>6, <1>13
  <2> QED BY <1>12, <2>1, <2>2
<1> DEFINE p == <<r, n>>
<1>15. p \in PlaceSet(q) BY <1>9, <1>13, <1>14, PlaceSetIsFinite
<1>16. p[1] = r /\ p[2] = n /\ n # 0 BY <1>13
<1> HIDE DEF p, same
<1>17. /\ ContentItem(q, p).required /\ ContentItem(q, p).role = "condition"
       /\ ContentItem(q, p).text = q[w[n]].stems
  BY <1>16 DEF ContentItem, w
<1> QED BY <1>13, <1>15, <1>17
\* No qualifier is lost: unless there are more spans than are kept, every
\* phrase that restricts and every content word is in a required item, and a
\* word beside another one also has an item to itself (binding/spans.py,
\* ledger.py), for questions of any length.
THEOREM NothingAskedIsLost == Spec => []NoQualifierLost
<1>1. ASSUME LedgerBuilt, stage # "asked", Len(AllSpans(asked.phrases)) <= MaxSpans,
             NEW i \in DOMAIN asked.phrases
      PROVE  LET own == {j \in Required(ledger) : i \in ledger[j].at}
                 covered == i \in Covered(asked.phrases)
             IN /\ (Kinds(Asks(i)) \cap Material # {} \/ (Asks(i).content /\ ~covered)) =>
                     \E j \in own : Asks(i).stems \subseteq ledger[j].text
                /\ (\E j \in DOMAIN asked.phrases : Neighbour(i, j)) =>
                     \E j \in Required(ledger) : ledger[j].text = Asks(i).stems /\ ledger[j].role = "condition"
  <2> DEFINE q == asked.phrases
  <2>1. Matched(q) BY <1>1, PhrasesMatch DEF LedgerBuilt
  <2>2. /\ \A s \in SpanSet(q) : \E j \in DOMAIN ledger : ledger[j] = SpanItem(q, s)
        /\ \A p \in PlaceSet(q) : \E j \in DOMAIN ledger : ledger[j] = ContentItem(q, p)
    BY <1>1, <2>1, LedgerHolds DEF LedgerBuilt
  <2>3. Asks(i) = q[i] BY DEF Asks
  <2>4. ASSUME NEW k \in Kinds(q[i]) \cap Material
        PROVE  \E j \in Required(ledger) : i \in ledger[j].at /\ q[i].stems \subseteq ledger[j].text
    <3> DEFINE s == [at |-> i, kind |-> k]
    <3>1. /\ s \in SpanSet(q) /\ SpanItem(q, s).required
          /\ i \in SpanItem(q, s).at /\ SpanItem(q, s).text = q[i].stems
      BY <2>1, SpanIsRequired
    <3> HIDE DEF s
    <3>2. PICK j \in DOMAIN ledger : ledger[j] = SpanItem(q, s) BY <2>2, <3>1
    <3> QED BY <3>1, <3>2 DEF Required
  <2>5. ASSUME IsContent(q, i)
        PROVE  \E j \in Required(ledger) : i \in ledger[j].at /\ q[i].stems \subseteq ledger[j].text
    <3>1. PICK p \in PlaceSet(q) :
            /\ ContentItem(q, p).required /\ i \in ContentItem(q, p).at
            /\ q[i].stems \subseteq ContentItem(q, p).text
      BY <2>1, <2>5, WordIsInPhrase
    <3>2. PICK j \in DOMAIN ledger : ledger[j] = ContentItem(q, p) BY <2>2
    <3> QED BY <3>1, <3>2 DEF Required
  <2>6. ASSUME NEW j \in DOMAIN q, Neighbour(i, j)
        PROVE  \E n \in Required(ledger) : ledger[n].text = q[i].stems /\ ledger[n].role = "condition"
    <3>1. i # j /\ \A k \in (i .. j) \cup (j .. i) : k \notin Covered(q) /\ (q[k].word => q[k].content)
      BY <2>6 DEF Neighbour, Asks
    <3>2. i \in Int /\ j \in Int BY <2>1 DEF Matched
    <3>3. i \in (i .. j) \cup (j .. i) /\ j \in (i .. j) \cup (j .. i) BY <3>2
    <3>4. IsContent(q, i) /\ IsContent(q, j) BY <2>6, <3>1, <3>3 DEF IsContent, Neighbour, Asks
    <3>5. \A k \in ((i .. j) \cup (j .. i)) \cap DOMAIN q : q[k].word => IsContent(q, k)
      BY <3>1 DEF IsContent
    <3> HIDE DEF q
    <3>6. PICK p \in PlaceSet(q) :
            /\ ContentItem(q, p).required /\ ContentItem(q, p).role = "condition"
            /\ ContentItem(q, p).text = q[i].stems
      BY <2>1, <3>1, <3>4, <3>5, WordHasItsOwn DEF q
    <3>7. PICK n \in DOMAIN ledger : ledger[n] = ContentItem(q, p) BY <2>2
    <3> QED BY <3>6, <3>7 DEF Required
  <2>7. Asks(i).content /\ i \notin Covered(q) => IsContent(q, i) BY DEF Asks, IsContent
  <2> QED BY <2>3, <2>4, <2>5, <2>6, <2>7
<1>2. LedgerBuilt => NoQualifierLost BY <1>1 DEF NoQualifierLost
<1> QED BY <1>2, LedgerBuiltInv, PTL
----------------------------------------------------------------------------
(***************************************************************************)
(* The advisory list.  An item's matches have each concept once and a      *)
(* strict order, so that the best of them are all, or as many as kept.     *)
(***************************************************************************)
HaveNames(manifest) ==
  /\ IsFiniteSet(manifest)
  /\ \A c \in manifest : c.id \in Nat /\ IsFiniteSet(c.name) /\ Similarity[c.id] \in Int
  /\ \A c, d \in manifest : c.id = d.id => c = d

\* Members of S stand for concepts of the manifest, one each.
StandsFor(S, manifest) ==
  /\ \A m \in S : m.id \in Nat /\ m.score \in Int /\ \E c \in manifest : c.id = m.id
  /\ \A m, n \in S : m.id = n.id => m = n

LEMMA ScoreIsNumber ==
  ASSUME NEW c, IsFiniteSet(c.name), NEW text
  PROVE  Score(c, text) \in Int /\ (text = {} => Score(c, text) = 0)
<1> DEFINE named == Cardinality(text \cap c.name)
           size == Cardinality(c.name)
<1>1. size \in Nat BY FS_CardinalityType
<1>2. IsFiniteSet(text \cap c.name)
  <2>1. text \cap c.name \subseteq c.name OBVIOUS
  <2> QED BY <2>1, FS_Subset
<1>3. named \in Nat BY <1>2, FS_CardinalityType
<1>4. text = {} => named = 0
  <2>1. text = {} => text \cap c.name = {} OBVIOUS
  <2> QED BY <2>1, FS_EmptySet
<1> HIDE DEF named, size
<1>5. size # 0 => 180 + (60 * named) \div size \in Int BY <1>1, <1>3
<1>6. Score(c, text) =
        IF size = 0 THEN 0
        ELSE IF named = size THEN 600 + 60 * size
        ELSE IF named > 0 THEN 180 + (60 * named) \div size
        ELSE IF \E i \in DOMAIN c.values : c.values[i] # {} /\ c.values[i] \subseteq text THEN 360 ELSE 0
  BY DEF Score, named, size
<1>7. Score(c, text) \in Int BY <1>1, <1>3, <1>5, <1>6
<1>8. ASSUME text = {} PROVE Score(c, text) = 0
  <2>1. \A i \in DOMAIN c.values : ~(c.values[i] # {} /\ c.values[i] \subseteq text) BY <1>8
  <2> QED BY <1>1, <1>4, <1>6, <1>8, <2>1
<1> QED BY <1>7, <1>8

LEMMA MatchesStand ==
  ASSUME NEW manifest, HaveNames(manifest), NEW text, NEW service
  PROVE  /\ StandsFor(MatchesFor(manifest, text, service), manifest)
         /\ \A c \in manifest : Score(c, text) > 0 =>
              \E m \in MatchesFor(manifest, text, service) : m.id = c.id
<1> DEFINE M == MatchesFor(manifest, text, service)
<1>1. ASSUME NEW m \in M
      PROVE  \E c \in manifest :
               m = [id |-> c.id, score |-> IF Score(c, text) > 0 THEN Score(c, text) ELSE Similarity[c.id]]
  <2>1. m \in Lexical(manifest, text) \/ m \in Similar(manifest, text) BY DEF MatchesFor
  <2>2. CASE m \in Lexical(manifest, text)
    <3>1. PICK c \in manifest : Score(c, text) > 0 /\ m = [id |-> c.id, score |-> Score(c, text)]
      BY <2>2 DEF Lexical
    <3> QED BY <3>1
  <2>3. CASE m \in Similar(manifest, text)
    <3>1. PICK c \in manifest : Score(c, text) = 0 /\ m = [id |-> c.id, score |-> Similarity[c.id]]
      BY <2>3 DEF Similar
    <3> QED BY <3>1
  <2> QED BY <2>1, <2>2, <2>3
<1>2. \A c \in manifest : Score(c, text) \in Int BY ScoreIsNumber DEF HaveNames
<1>3. ASSUME NEW m \in M PROVE m.id \in Nat /\ m.score \in Int /\ \E c \in manifest : c.id = m.id
  <2>1. PICK c \in manifest :
          m = [id |-> c.id, score |-> IF Score(c, text) > 0 THEN Score(c, text) ELSE Similarity[c.id]]
    BY <1>1
  <2>2. m.id = c.id /\ m.score = IF Score(c, text) > 0 THEN Score(c, text) ELSE Similarity[c.id] BY <2>1
  <2> QED BY <1>2, <2>2 DEF HaveNames
<1>4. ASSUME NEW m \in M, NEW n \in M, m.id = n.id PROVE m = n
  <2>1. PICK c \in manifest :
          m = [id |-> c.id, score |-> IF Score(c, text) > 0 THEN Score(c, text) ELSE Similarity[c.id]]
    BY <1>1
  <2>2. PICK d \in manifest :
          n = [id |-> d.id, score |-> IF Score(d, text) > 0 THEN Score(d, text) ELSE Similarity[d.id]]
    BY <1>1
  <2>3. m.id = c.id /\ n.id = d.id BY <2>1, <2>2
  <2>4. c = d BY <1>4, <2>3 DEF HaveNames
  <2> QED BY <2>1, <2>2, <2>4
<1>5. ASSUME NEW c \in manifest, Score(c, text) > 0 PROVE \E m \in M : m.id = c.id
  <2>1. text # {}
    <3>1. text = {} => Score(c, text) = 0 BY ScoreIsNumber DEF HaveNames
    <3> QED BY <1>5, <3>1
  <2>2. [id |-> c.id, score |-> Score(c, text)] \in Lexical(manifest, text) BY <1>5 DEF Lexical
  <2>3. [id |-> c.id, score |-> Score(c, text)] \in M BY <2>1, <2>2 DEF MatchesFor
  <2> QED BY <2>3
<1> HIDE DEF M
<1> QED BY <1>3, <1>4, <1>5 DEF StandsFor, M

\* What stands for finitely many concepts is finite, and ordered by Better.
LEMMA StandInsAreOrdered ==
  ASSUME NEW manifest, IsFiniteSet(manifest), NEW S, StandsFor(S, manifest),
         NEW R, R = {p \in S \X S : Better(p[1], p[2])}
  PROVE  /\ IsFiniteSet(S) /\ StrictOrder(S, R)
         /\ \A x \in S : Cardinality({y \in S : Better(y, x)}) = Rank(S, R, x)
<1> DEFINE f == [m \in S |-> CHOOSE c \in manifest : c.id = m.id]
<1>1. IsFiniteSet(S)
  <2>1. \A m \in S : f[m] \in manifest /\ f[m].id = m.id BY DEF StandsFor
  <2>2. f \in [S -> manifest] BY <2>1
  <2>3. \A m, n \in S : f[m] = f[n] => m = n BY <2>1 DEF StandsFor
  <2> HIDE DEF f
  <2>4. f \in Injection(S, manifest) BY <2>2, <2>3 DEF Injection, IsInjective
  <2> QED BY <2>4, FS_Injection
<1>2. ASSUME NEW x, NEW y PROVE <<x, y>> \in R <=> x \in S /\ y \in S /\ Better(x, y) OBVIOUS
<1>3. \A m \in S : m.id \in Int /\ m.score \in Int BY DEF StandsFor
<1>4. StrictOrder(S, R)
  <2>1. \A x \in S : ~Better(x, x) BY <1>3 DEF Better
  <2>2. \A x, y \in S : x # y => Better(x, y) \/ Better(y, x) BY <1>3 DEF Better, StandsFor
  <2>3. \A x, y, z \in S : Better(x, y) /\ Better(y, z) => Better(x, z) BY <1>3 DEF Better
  <2> QED BY <1>2, <2>1, <2>2, <2>3 DEF StrictOrder
<1>5. \A x \in S : {y \in S : Better(y, x)} = {y \in S : <<y, x>> \in R} BY <1>2
<1> QED BY <1>1, <1>4, <1>5 DEF Rank

\* Unless all of them are kept, PerSpan are.
LEMMA BestIsAllOrShare ==
  ASSUME NEW manifest, IsFiniteSet(manifest), NEW S, StandsFor(S, manifest), Best(S, PerSpan) # S
  PROVE  Cardinality(Best(S, PerSpan)) = PerSpan
<1> DEFINE R == {p \in S \X S : Better(p[1], p[2])}
<1>1. /\ IsFiniteSet(S) /\ StrictOrder(S, R)
      /\ \A x \in S : Cardinality({y \in S : Better(y, x)}) = Rank(S, R, x)
  BY StandInsAreOrdered
<1> HIDE DEF R
<1>2. Best(S, PerSpan) = {x \in S : Rank(S, R, x) < PerSpan} BY <1>1 DEF Best
<1>3. PerSpan \in Nat BY RecommendationBounds
<1> QED BY <1>1, <1>2, <1>3, FirstRanks

\* The list in order holds each member once.
LEMMA RankedLists ==
  ASSUME NEW manifest, IsFiniteSet(manifest), NEW S, StandsFor(S, manifest)
  PROVE  LET l == Ranked(S)
         IN  /\ l \in Seq(S) /\ Len(l) \in Nat /\ DOMAIN l = 1 .. Len(l)
             /\ \A i \in DOMAIN l : l[i] \in S
             /\ \A x \in S : \E i \in DOMAIN l : l[i] = x
             /\ \A i, j \in DOMAIN l : l[i] = l[j] => i = j
<1> DEFINE R == {p \in S \X S : Better(p[1], p[2])}
           l == [i \in 1 .. Cardinality(S) |-> CHOOSE x \in S : Cardinality({y \in S : Better(y, x)}) = i - 1]
           Valued == {l[i] : i \in 1 .. Cardinality(S)}
<1>1. /\ IsFiniteSet(S) /\ StrictOrder(S, R)
      /\ \A x \in S : Cardinality({y \in S : Better(y, x)}) = Rank(S, R, x)
  BY StandInsAreOrdered
<1>2. Ranked(S) = l BY DEF Ranked, Ordered
<1>3. l \in [1 .. Cardinality(S) -> Valued] OBVIOUS
<1> HIDE DEF R
<1>4. ASSUME NEW i \in 1 .. Cardinality(S), NEW x \in S, Rank(S, R, x) = i - 1
      PROVE  l[i] \in S /\ Rank(S, R, l[i]) = i - 1
  <2>1. l[i] = CHOOSE y \in S : Cardinality({z \in S : Better(z, y)}) = i - 1 OBVIOUS
  <2> HIDE DEF l
  <2>2. l[i] \in S /\ Cardinality({z \in S : Better(z, l[i])}) = i - 1 BY <1>1, <1>4, <2>1
  <2> QED BY <1>1, <2>2
<1> HIDE DEF l, Valued
<1>5. PicksRanks(S, R, l) BY <1>4 DEF PicksRanks
<1>6. Lists(S, R, l) BY <1>1, <1>3, <1>5, Listing
<1> QED BY <1>2, <1>6 DEF Lists
(***************************************************************************)
(* The list grows by each item's share.  The recursion is well founded, so *)
(* there is such a function; a set of numbers that has 0 and each          *)
(* successor is the whole interval.                                        *)
(***************************************************************************)
LEMMA UpTo ==
  ASSUME NEW N \in Nat, NEW G, G \subseteq 0 .. N, 0 \in G, \A n \in 1 .. N : n - 1 \in G => n \in G
  PROVE  G = 0 .. N
<1> DEFINE B == (0 .. N) \ G
<1>1. ASSUME B # {} PROVE FALSE
  <2>1. IsFiniteSet(B) /\ B \subseteq Int
    <3>1. B \subseteq 0 .. N /\ 0 \in Int /\ N \in Int OBVIOUS
    <3> HIDE DEF B
    <3> QED BY <3>1, PartOfInterval
  <2>2. PICK n \in B : \A x \in B : n <= x
    <3> HIDE DEF B
    <3> QED BY <1>1, <2>1, Extremes
  <2>3. n \in 1 .. N OBVIOUS
  <2>4. n - 1 \notin B
    <3>1. ~(n <= n - 1) BY <2>3
    <3> HIDE DEF B
    <3> QED BY <2>2, <3>1
  <2>5. n - 1 \in G BY <2>3, <2>4
  <2> QED BY <2>3, <2>5
<1> QED BY <1>1

\* f lists what the first n items add.
ListsUpTo(f, k, manifest, items, service) ==
  f = [n \in 0 .. k |-> IF n = 0 THEN {} ELSE f[n - 1] \cup Added(manifest, items[n], n, f[n - 1], service)]

LEMMA ListExists ==
  ASSUME NEW manifest, NEW items, Len(items) \in Nat, NEW service
  PROVE  \E f : ListsUpTo(f, Len(items), manifest, items, service)
<1> DEFINE N == Len(items)
           Step(n, list) == list \cup Added(manifest, items[n], n, list, service)
           G == {k \in 0 .. N : \E f : ListsUpTo(f, k, manifest, items, service)}
<1>1. 0 \in G
  <2> DEFINE f == [n \in 0 .. 0 |-> {}]
  <2>1. f = [n \in 0 .. 0 |-> IF n = 0 THEN {} ELSE Step(n, f[n - 1])]
    <3>1. \A n \in 0 .. 0 : n = 0 OBVIOUS
    <3> QED BY <3>1
  <2> HIDE DEF f
  <2>2. ListsUpTo(f, 0, manifest, items, service) BY <2>1 DEF ListsUpTo
  <2> QED BY <2>2
<1>2. ASSUME NEW k \in 1 .. N, k - 1 \in G PROVE k \in G
  <2>1. PICK f : ListsUpTo(f, k - 1, manifest, items, service) BY <1>2
  <2> DEFINE g == [n \in 0 .. k |-> IF n = k THEN Step(k, f[k - 1]) ELSE f[n]]
  <2>2. f = [n \in 0 .. k - 1 |-> IF n = 0 THEN {} ELSE Step(n, f[n - 1])] BY <2>1 DEF ListsUpTo
  <2>3. \A n \in 0 .. k - 1 : f[n] = IF n = 0 THEN {} ELSE Step(n, f[n - 1]) BY <2>2
  <2> HIDE DEF Step
  <2>4. ASSUME NEW n \in 0 .. k PROVE g[n] = IF n = 0 THEN {} ELSE Step(n, g[n - 1])
    <3>1. CASE n = k
      <4>1. k - 1 \in 0 .. k /\ k - 1 # k /\ k # 0 OBVIOUS
      <4>2. g[k - 1] = f[k - 1] /\ g[k] = Step(k, f[k - 1]) BY <4>1
      <4> HIDE DEF g
      <4> QED BY <3>1, <4>1, <4>2
    <3>2. CASE n # k
      <4>1. n \in 0 .. k - 1 /\ g[n] = f[n] BY <3>2
      <4>2. n # 0 => n - 1 \in 0 .. k /\ n - 1 # k BY <4>1
      <4>3. n # 0 => g[n - 1] = f[n - 1] BY <4>2
      <4> HIDE DEF g
      <4> QED BY <2>3, <4>1, <4>3
    <3> QED BY <3>1, <3>2
  <2>5. DOMAIN g = 0 .. k /\ g = [n \in 0 .. k |-> g[n]] OBVIOUS
  <2> HIDE DEF g
  <2>6. g = [n \in 0 .. k |-> IF n = 0 THEN {} ELSE Step(n, g[n - 1])] BY <2>4, <2>5
  <2>7. ListsUpTo(g, k, manifest, items, service) BY <2>6 DEF ListsUpTo, Step
  <2> QED BY <2>7
<1>3. N \in Nat /\ G \subseteq 0 .. N OBVIOUS
<1>4. N \in 0 .. N BY <1>3
<1> HIDE DEF G, N
<1>5. G = 0 .. N BY <1>1, <1>2, <1>3, UpTo
<1>6. N \in G BY <1>4, <1>5
<1> QED BY <1>6 DEF G, N

Grows(f, manifest, items, service) ==
  \A n \in 0 .. Len(items) :
     f[n] = IF n = 0 THEN {} ELSE f[n - 1] \cup Added(manifest, items[n], n, f[n - 1], service)

\* What is recommended is cut from the list of all items.
LEMMA RecommendedFromList ==
  ASSUME NEW manifest, NEW items, Len(items) \in Nat, NEW service
  PROVE  \E f : /\ Grows(f, manifest, items, service)
                /\ Recommend(manifest, items, service) = Take(Ranked(f[Len(items)]), Total)
<1> DEFINE f == CHOOSE g : ListsUpTo(g, Len(items), manifest, items, service)
<1>1. ListsUpTo(f, Len(items), manifest, items, service) BY ListExists
<1>2. Recommend(manifest, items, service) = Take(Ranked(f[Len(items)]), Total) BY DEF Recommend, ListsUpTo
<1> HIDE DEF f
<1>3. f = [n \in 0 .. Len(items) |-> IF n = 0 THEN {} ELSE f[n - 1] \cup Added(manifest, items[n], n, f[n - 1], service)]
  BY <1>1 DEF ListsUpTo
<1> DEFINE Step(n, list) == list \cup Added(manifest, items[n], n, list, service)
<1>4. f = [n \in 0 .. Len(items) |-> IF n = 0 THEN {} ELSE Step(n, f[n - 1])] BY <1>3
<1> HIDE DEF Step
<1>5. \A n \in 0 .. Len(items) : f[n] = IF n = 0 THEN {} ELSE Step(n, f[n - 1]) BY <1>4
<1> QED BY <1>2, <1>5 DEF Step, Grows

\* A list of which each item lists concepts that no earlier one did.
LEMMA ListStands ==
  ASSUME NEW manifest, HaveNames(manifest), NEW items, Len(items) \in Nat, NEW service, NEW f,
         Grows(f, manifest, items, service)
  PROVE  /\ StandsFor(f[Len(items)], manifest)
         /\ \A i \in 1 .. Len(items) :
              /\ f[i - 1] \subseteq f[Len(items)]
              /\ {r \in f[Len(items)] : r.for = i} = Added(manifest, items[i], i, f[i - 1], service)
<1> DEFINE N == Len(items)
           add(n) == Added(manifest, items[n], n, f[n - 1], service)
<1>1. N \in Nat /\ \A n \in 1 .. N : n - 1 \in 0 .. N /\ n \in 0 .. N /\ n # 0 OBVIOUS
<1>2. 0 \in 0 .. N BY <1>1
<1>3. f[0] = {} BY <1>2 DEF Grows
<1>4. \A n \in 1 .. N : f[n] = f[n - 1] \cup add(n) BY <1>1 DEF Grows
<1>5. ASSUME NEW n \in 1 .. N, NEW r \in add(n)
      PROVE  /\ r.for = n /\ r = [id |-> r.id, score |-> r.score, for |-> n]
             /\ \A t \in f[n - 1] : t.id # r.id
             /\ \E m \in MatchesFor(manifest, items[n].text, service) : m.id = r.id /\ m.score = r.score
  <2>1. items[n].required BY <1>5 DEF Added
  <2>2. PICK m \in Kept(MatchesFor(manifest, items[n].text, service), {t.id : t \in f[n - 1]}) :
          r = [id |-> m.id, score |-> m.score, for |-> n]
    BY <1>5, <2>1 DEF Added
  <2>3. m \in MatchesFor(manifest, items[n].text, service) /\ m.id \notin {t.id : t \in f[n - 1]}
    BY <2>2 DEF Kept, Best
  <2>4. r.id = m.id /\ r.score = m.score /\ r.for = n BY <2>2
  <2>5. \A t \in f[n - 1] : t.id # r.id BY <2>3, <2>4
  <2> QED BY <2>2, <2>3, <2>4, <2>5
<1>6. ASSUME NEW n \in 1 .. N, NEW r \in add(n), NEW t \in add(n), r.id = t.id PROVE r = t
  <2>1. PICK m \in MatchesFor(manifest, items[n].text, service) : m.id = r.id /\ m.score = r.score BY <1>5
  <2>2. PICK k \in MatchesFor(manifest, items[n].text, service) : k.id = t.id /\ k.score = t.score BY <1>5
  <2>3. m = k BY <1>6, <2>1, <2>2, MatchesStand DEF StandsFor
  <2>4. r = [id |-> r.id, score |-> r.score, for |-> n] /\ t = [id |-> t.id, score |-> t.score, for |-> n] BY <1>5
  <2>5. r.score = t.score BY <2>1, <2>2, <2>3
  <2> QED BY <1>6, <2>4, <2>5
<1>7. ASSUME NEW n \in 1 .. N, NEW r \in add(n)
      PROVE  r.id \in Nat /\ r.score \in Int /\ \E c \in manifest : c.id = r.id
  <2>1. PICK m \in MatchesFor(manifest, items[n].text, service) : m.id = r.id /\ m.score = r.score BY <1>5
  <2>2. m.id \in Nat /\ m.score \in Int /\ \E c \in manifest : c.id = m.id BY <2>1, MatchesStand DEF StandsFor
  <2> QED BY <2>1, <2>2
<1> HIDE DEF add
<1>8. StandsFor(f[N], manifest)
  <2> DEFINE G == {n \in 0 .. N : StandsFor(f[n], manifest)}
  <2>1. 0 \in G BY <1>2, <1>3 DEF StandsFor
  <2>2. ASSUME NEW n \in 1 .. N, n - 1 \in G PROVE n \in G
    <3>1. StandsFor(f[n - 1], manifest) BY <2>2
    <3>2. \A m \in f[n] : m.id \in Nat /\ m.score \in Int /\ \E c \in manifest : c.id = m.id
      BY <1>4, <1>7, <3>1 DEF StandsFor
    <3>3. ASSUME NEW m \in f[n], NEW k \in f[n], m.id = k.id PROVE m = k
      <4>1. (m \in f[n - 1] \/ m \in add(n)) /\ (k \in f[n - 1] \/ k \in add(n)) BY <1>4
      <4>2. CASE m \in f[n - 1] /\ k \in f[n - 1] BY <3>1, <3>3, <4>2 DEF StandsFor
      <4>3. CASE m \in f[n - 1] /\ k \in add(n) BY <1>5, <3>3, <4>3
      <4>4. CASE m \in add(n) /\ k \in f[n - 1] BY <1>5, <3>3, <4>4
      <4>5. CASE m \in add(n) /\ k \in add(n) BY <1>6, <3>3, <4>5
      <4> QED BY <4>1, <4>2, <4>3, <4>4, <4>5
    <3> QED BY <1>1, <3>2, <3>3 DEF StandsFor
  <2>3. G \subseteq 0 .. N OBVIOUS
  <2>4. G = 0 .. N
    <3> HIDE DEF G
    <3> QED BY <1>1, <2>1, <2>2, <2>3, UpTo
  <2>5. N \in 0 .. N BY <1>1
  <2> QED BY <2>4, <2>5
<1>9. ASSUME NEW i \in 1 .. N
      PROVE  f[i - 1] \subseteq f[N] /\ {r \in f[N] : r.for = i} = add(i)
  <2> DEFINE G == {n \in 0 .. N : /\ i - 1 <= n => f[i - 1] \subseteq f[n]
                                  /\ {r \in f[n] : r.for = i} = IF i <= n THEN add(i) ELSE {}}
  <2>1. 0 \in G
    <3>1. i - 1 <= 0 => i - 1 = 0 BY <1>1
    <3>2. ~(i <= 0) BY <1>1
    <3>3. {r \in f[0] : r.for = i} = {} BY <1>3
    <3> QED BY <1>2, <3>1, <3>2, <3>3
  <2>2. ASSUME NEW n \in 1 .. N, n - 1 \in G PROVE n \in G
    <3>1. /\ i - 1 <= n - 1 => f[i - 1] \subseteq f[n - 1]
          /\ {r \in f[n - 1] : r.for = i} = IF i <= n - 1 THEN add(i) ELSE {}
      BY <2>2
    <3>2. f[n] = f[n - 1] \cup add(n) BY <1>4
    <3>3. \A r \in add(n) : r.for = n BY <1>5
    <3>4. i - 1 <= n => i - 1 <= n - 1 \/ i - 1 = n BY <1>1
    <3>5. i - 1 <= n => f[i - 1] \subseteq f[n] BY <3>1, <3>2, <3>4
    <3>6. {r \in f[n] : r.for = i} = {r \in f[n - 1] : r.for = i} \cup {r \in add(n) : r.for = i} BY <3>2
    <3>7. {r \in add(n) : r.for = i} = IF i = n THEN add(i) ELSE {} BY <3>3
    <3>8. i <= n <=> i <= n - 1 \/ i = n BY <1>1
    <3>9. ~(i <= n - 1 /\ i = n) BY <1>1
    <3>10. {r \in f[n] : r.for = i} = IF i <= n THEN add(i) ELSE {} BY <3>1, <3>6, <3>7, <3>8, <3>9
    <3> QED BY <1>1, <3>5, <3>10
  <2>3. G \subseteq 0 .. N OBVIOUS
  <2>4. G = 0 .. N
    <3> HIDE DEF G
    <3> QED BY <1>1, <2>1, <2>2, <2>3, UpTo
  <2>5. N \in G /\ i <= N /\ i - 1 <= N BY <1>1, <2>4
  <2> QED BY <2>5
<1> QED BY <1>8, <1>9 DEF add
\* A set that is mapped one to one onto a finite set has its size.
LEMMA SameSize ==
  ASSUME NEW S, IsFiniteSet(S), NEW T, NEW f \in [S -> T],
         \A x, y \in S : f[x] = f[y] => x = y, \A t \in T : \E x \in S : f[x] = t
  PROVE  IsFiniteSet(T) /\ Cardinality(T) = Cardinality(S)
<1>1. f \in Surjection(S, T) BY DEF Surjection
<1>2. f \in Injection(S, T) BY DEF Injection, IsInjective
<1>3. f \in Bijection(S, T) BY <1>1, <1>2 DEF Bijection
<1>4. ExistsBijection(S, T) BY <1>3 DEF ExistsBijection
<1> QED BY <1>4, FS_Bijection

\* What an item adds is its share, when one of its matches is nowhere listed.
LEMMA ShareIsAdded ==
  ASSUME NEW manifest, HaveNames(manifest), NEW item, item.required, NEW n, NEW list, NEW service,
         NEW c \in manifest, Score(c, item.text) > 0, \A r \in list : r.id # c.id,
         \A r \in Added(manifest, item, n, list, service) : r.id # c.id
  PROVE  /\ IsFiniteSet(Added(manifest, item, n, list, service))
         /\ Cardinality(Added(manifest, item, n, list, service)) = PerSpan
<1> DEFINE M == MatchesFor(manifest, item.text, service)
           U == {m \in M : m.id \notin {r.id : r \in list}}
           K == Best(U, PerSpan)
           A == {[id |-> m.id, score |-> m.score, for |-> n] : m \in K}
           h == [m \in K |-> [id |-> m.id, score |-> m.score, for |-> n]]
<1>1. Added(manifest, item, n, list, service) = A BY DEF Added, Kept
<1>2. StandsFor(M, manifest) /\ \E m \in M : m.id = c.id BY MatchesStand
<1> HIDE DEF M
<1>3. StandsFor(U, manifest) BY <1>2 DEF StandsFor
<1>4. PICK m \in U : m.id = c.id BY <1>2
<1> HIDE DEF U
<1>5. K \subseteq U BY DEF Best
<1> HIDE DEF K
<1>6. m \notin K
  <2> SUFFICES ASSUME m \in K PROVE FALSE OBVIOUS
  <2> DEFINE r == [id |-> m.id, score |-> m.score, for |-> n]
  <2>1. r \in A /\ r.id = c.id BY <1>4
  <2> HIDE DEF A, r
  <2> QED BY <1>1, <2>1
<1>7. IsFiniteSet(manifest) BY DEF HaveNames
<1>8. IsFiniteSet(K) /\ Cardinality(K) = PerSpan
  <2>1. Cardinality(K) = PerSpan BY <1>3, <1>4, <1>6, <1>7, BestIsAllOrShare DEF K
  <2>2. IsFiniteSet(U) BY <1>3, <1>7, StandInsAreOrdered
  <2> QED BY <1>5, <2>1, <2>2, FS_Subset
<1>9. h \in [K -> A] OBVIOUS
<1>10. \A x, y \in K : h[x] = h[y] => x = y
  <2> SUFFICES ASSUME NEW x \in K, NEW y \in K, h[x] = h[y] PROVE x = y OBVIOUS
  <2>1. h[x].id = x.id /\ h[y].id = y.id OBVIOUS
  <2>2. x.id = y.id BY <2>1
  <2> QED BY <1>3, <1>5, <2>2 DEF StandsFor
<1>11. \A t \in A : \E x \in K : h[x] = t OBVIOUS
<1> HIDE DEF h, A
<1>12. IsFiniteSet(A) /\ Cardinality(A) = Cardinality(K) BY <1>8, <1>9, <1>10, <1>11, SameSize
<1> QED BY <1>1, <1>8, <1>12

Recommended ==
  stage \in {"suggested", "bound"} =>
    \E service \in BOOLEAN : recommendations = Recommend(asked.manifest, ledger, service)

LEMMA RecommendedInv == Spec => []Recommended
<1>1. Init => Recommended BY DEF Init, Recommended
<1>2. Recommended /\ [Next]_vars => Recommended'
  <2> SUFFICES ASSUME Recommended, [Next]_vars PROVE Recommended' OBVIOUS
  <2>1. CASE Analyse BY <2>1 DEF Analyse, Recommended
  <2>2. CASE Suggest BY <2>2 DEF Suggest, Recommended
  <2>3. CASE Bind BY <2>3 DEF Bind, Recommended
  <2>4. CASE UNCHANGED vars BY <2>4 DEF vars, Recommended
  <2> QED BY <2>1, <2>2, <2>3, <2>4 DEF Next
<1> QED BY <1>1, <1>2, PTL DEF Spec

\* One noun never consumes a compound question: a concept that a required item
\* matches is on the advisory list, unless that item has its whole share of it
\* or the list is full (recommend.py), for manifests and ledgers of any size.
THEOREM EveryItemIsServed == Spec => []EveryItemHasItsShare
<1>1. ASSUME LedgerBuilt, Recommended, stage \in {"suggested", "bound"},
             NEW i \in Required(ledger), NEW c \in asked.manifest, Score(c, ledger[i].text) > 0,
             \A j \in DOMAIN recommendations : recommendations[j].id # c.id,
             Len(recommendations) # Total
      PROVE  Cardinality({j \in DOMAIN recommendations : recommendations[j].for = i}) = PerSpan
  <2> DEFINE manifest == asked.manifest
             N == Len(ledger)
  <2>1. HaveNames(manifest) BY <1>1, ConceptsAreNamed DEF LedgerBuilt, HaveNames
  <2>2. N \in Nat /\ DOMAIN ledger = 1 .. N
    <3>1. asked \in Requests /\ stage # "asked" BY <1>1 DEF LedgerBuilt
    <3>2. Matched(asked.phrases) BY <3>1, PhrasesMatch
    <3>3. ledger = BuildLedger(asked.phrases, asked.previous, asked.selected) BY <1>1, <3>1 DEF LedgerBuilt
    <3> QED BY <3>2, <3>3, LedgerIsList
  <2>3. PICK service \in BOOLEAN : recommendations = Recommend(manifest, ledger, service)
    BY <1>1 DEF Recommended
  <2>4. PICK f : /\ Grows(f, manifest, ledger, service)
                 /\ Recommend(manifest, ledger, service) = Take(Ranked(f[N]), Total)
    BY <2>2, RecommendedFromList
  <2>5. StandsFor(f[N], manifest) BY <2>1, <2>2, <2>4, ListStands
  <2>6. i \in 1 .. N /\ ledger[i].required BY <2>2 DEF Required
  <2>7. /\ f[i - 1] \subseteq f[N]
        /\ {r \in f[N] : r.for = i} = Added(manifest, ledger[i], i, f[i - 1], service)
    BY <2>1, <2>2, <2>4, <2>6, ListStands
  <2> HIDE DEF manifest, N
  <2> DEFINE all == f[N]
             list == Ranked(all)
             n == IF Total < Len(list) THEN Total ELSE Len(list)
  <2>8. IsFiniteSet(manifest) BY <2>1 DEF HaveNames
  <2>9. /\ list \in Seq(all) /\ Len(list) \in Nat /\ DOMAIN list = 1 .. Len(list)
        /\ \A j \in DOMAIN list : list[j] \in all
        /\ \A x \in all : \E j \in DOMAIN list : list[j] = x
        /\ \A j, k \in DOMAIN list : list[j] = list[k] => j = k
    BY <2>5, <2>8, RankedLists
  <2>10. recommendations = SubSeq(list, 1, n) BY <2>3, <2>4 DEF Take
  <2> HIDE DEF list, all
  <2>11. recommendations = list
    <3>1. Total \in Nat /\ Len(list) \in Nat BY <2>9, RecommendationBounds
    <3>2. ASSUME Total < Len(list) PROVE FALSE
      <4>1. n = Total /\ Total \in Int /\ 1 \in Int /\ 1 <= Total /\ Total - 1 + 1 = Total
        BY <3>1, <3>2, RecommendationBounds
      <4>2. \A j \in 1 .. Total : list[j] \in all BY <2>9, <3>1, <3>2
      <4>3. Len(SubSeq(list, 1, Total)) = Total BY <4>1, <4>2, SubSeqProperties
      <4> QED BY <1>1, <2>10, <4>1, <4>3
    <3>3. n = Len(list) BY <3>2
    <3> QED BY <2>9, <2>10, <3>3, SubSeqFull
  <2>12. \A r \in all : r.id # c.id BY <1>1, <2>9, <2>11
  <2> DEFINE A == Added(manifest, ledger[i], i, f[i - 1], service)
             T == {j \in DOMAIN list : list[j].for = i}
             k == [j \in T |-> list[j]]
  <2>13. IsFiniteSet(A) /\ Cardinality(A) = PerSpan
    <3>1. c \in manifest BY DEF manifest
    <3>2. \A r \in f[i - 1] : r.id # c.id BY <2>7, <2>12 DEF all
    <3>3. \A r \in A : r.id # c.id BY <2>7, <2>12 DEF all
    <3> QED BY <1>1, <2>1, <2>6, <3>1, <3>2, <3>3, ShareIsAdded
  <2> HIDE DEF A
  <2>14. {r \in all : r.for = i} = A BY <2>7 DEF all, A
  <2>15. k \in [T -> A] /\ (\A x, y \in T : k[x] = k[y] => x = y) /\ \A t \in A : \E x \in T : k[x] = t
    BY <2>9, <2>14
  <2>16. IsFiniteSet(T)
    <3>1. T \subseteq 1 .. Len(list) /\ 1 \in Int /\ Len(list) \in Int BY <2>9
    <3> HIDE DEF T
    <3> QED BY <3>1, PartOfInterval
  <2>17. Cardinality(A) = Cardinality(T)
    <3> HIDE DEF k, T
    <3> QED BY <2>15, <2>16, SameSize
  <2> QED BY <2>11, <2>13, <2>17
<1>2. LedgerBuilt /\ Recommended => EveryItemHasItsShare BY <1>1 DEF EveryItemHasItsShare
<1> QED BY <1>2, LedgerBuiltInv, RecommendedInv, PTL

----------------------------------------------------------------------------
(***************************************************************************)
(* Stored fields.  A store is finite and has one row of each id, and what  *)
(* is built from it stays finite.                                          *)
(***************************************************************************)
Batches == {b \in SUBSET Rows : IsFiniteSet(b) /\ \A o, p \in b : o.id = p.id => o = p}

\* The importer replaces rows of the same id, so an id keeps one row.
LEMMA CommitKeepsRows ==
  ASSUME NEW S \in Batches, NEW batch \in Batches
  PROVE  {o \in S : \A p \in batch : p.id # o.id} \cup batch \in Batches
<1> DEFINE old == {o \in S : \A p \in batch : p.id # o.id}
<1>1. IsFiniteSet(old) /\ IsFiniteSet(batch) BY FS_Subset DEF Batches
<1>2. IsFiniteSet(old \cup batch) BY <1>1, FS_Union
<1> QED BY <1>2 DEF Batches

LEMMA WorldsAreBatches ==
  ASSUME NEW world \in Worlds
  PROVE  world \in Seq(Batches) /\ world # <<>>
<1>1. world # <<>> /\ world \in Seq(SUBSET Rows) BY RowsAreStored
<1>2. \A i \in DOMAIN world : world[i] \in Batches
  <2> SUFFICES ASSUME NEW i \in DOMAIN world PROVE world[i] \in Batches OBVIOUS
  <2>1. world[i] \in UNION {ToSet(w) : w \in Worlds} BY DEF ToSet
  <2>2. world[i] \in SUBSET Rows BY <1>1
  <2> HIDE DEF Batches
  <2>3. IsFiniteSet(world[i]) /\ \A o, p \in world[i] : o.id = p.id => o = p BY <2>1, RowsAreStored
  <2> QED BY <2>2, <2>3 DEF Batches
<1>3. Len(world) \in Nat /\ DOMAIN world = 1 .. Len(world) /\ world \in [1 .. Len(world) -> SUBSET Rows] BY <1>1, LenProperties
<1>4. world \in [1 .. Len(world) -> Batches] BY <1>2, <1>3
<1> QED BY <1>1, <1>3, <1>4

\* What a function makes of a finite set is finite.
LEMMA ImageIsFinite ==
  ASSUME NEW S, IsFiniteSet(S), NEW f, DOMAIN f = S
  PROVE  IsFiniteSet({f[x] : x \in S})
<1> DEFINE T == {f[x] : x \in S}
           g == [x \in S |-> f[x]]
<1>1. g \in Surjection(S, T) BY DEF Surjection
<1> HIDE DEF g, T
<1> QED BY <1>1, FS_Surjection DEF T

\* Sets of facts, one for each of finitely many classes and fields.
LEMMA UnionIsFinite ==
  ASSUME NEW S, IsFiniteSet(S), NEW f, DOMAIN f = S, \A x \in S : IsFiniteSet(f[x])
  PROVE  IsFiniteSet(UNION {f[x] : x \in S})
<1> DEFINE T == {f[x] : x \in S}
<1>1. IsFiniteSet(T) BY ImageIsFinite
<1>2. \A t \in T : IsFiniteSet(t) OBVIOUS
<1> HIDE DEF T
<1>3. IsFiniteSet(UNION T) BY <1>1, <1>2, FS_UNION
<1> QED BY <1>3 DEF T

\* The sum of a function that counts what falls under each of its places.
LEMMA SumOverIsTheWhole ==
  ASSUME NEW C, IsFiniteSet(C), NEW end, NEW f, IsFiniteSet(DOMAIN f),
         \A e \in DOMAIN f : f[e] = Cardinality({c \in C : end[c] = e}),
         \A c \in C : end[c] \in DOMAIN f
  PROVE  SumOver(f) = Cardinality(C)
<1> DEFINE E == DOMAIN f
           Under(T) == {c \in C : end[c] \in T}
           one(T) == CHOOSE x \in T : TRUE
           Right(g) == g = [T \in SUBSET E |-> IF T = {} THEN 0 ELSE f[one(T)] + g[T \ {one(T)}]]
           sum == CHOOSE g : Right(g)
           n(T) == Cardinality(Under(T))
           count == [T \in SUBSET E |-> n(T)]
<1>1. ASSUME NEW T \in SUBSET E, T # {}
      PROVE  one(T) \in T /\ n(T) = f[one(T)] + n(T \ {one(T)})
  <2> DEFINE x == one(T)
             U == Under(T \ {x})
             V == {c \in C : end[c] = x}
  <2>1. x \in T BY <1>1
  <2> HIDE DEF x
  <2>2. Under(T) = U \cup V /\ U \cap V = {} BY <2>1
  <2>3. U \subseteq C /\ V \subseteq C OBVIOUS
  <2>4. f[x] = Cardinality(V) BY <2>1
  <2> HIDE DEF U, V, Under
  <2>5. IsFiniteSet(U) /\ IsFiniteSet(V) BY <2>3, FS_Subset
  <2>6. Cardinality(U) \in Nat /\ Cardinality(V) \in Nat BY <2>5, FS_CardinalityType
  <2>7. Cardinality(U \cup V) = Cardinality(U) + Cardinality(V) - Cardinality(U \cap V) BY <2>5, FS_Union
  <2>8. Cardinality(U \cap V) = 0 BY <2>2, FS_EmptySet
  <2>9. n(T) = Cardinality(U) + Cardinality(V) BY <2>2, <2>6, <2>7, <2>8
  <2>10. n(T \ {x}) = Cardinality(U) BY DEF U
  <2> QED BY <2>1, <2>4, <2>6, <2>9, <2>10 DEF x
<1>2. n({}) = 0 BY FS_EmptySet
<1> HIDE DEF n
<1>3. Right(count)
  <2> DEFINE rhs == [T \in SUBSET E |-> IF T = {} THEN 0 ELSE f[one(T)] + count[T \ {one(T)}]]
  <2>1. ASSUME NEW T \in SUBSET E PROVE n(T) = IF T = {} THEN 0 ELSE f[one(T)] + count[T \ {one(T)}]
    <3>1. CASE T = {} BY <1>2, <3>1
    <3>2. CASE T # {}
      <4>1. n(T) = f[one(T)] + n(T \ {one(T)}) BY <1>1, <3>2
      <4>2. count[T \ {one(T)}] = n(T \ {one(T)}) OBVIOUS
      <4> HIDE DEF count, one
      <4> QED BY <3>2, <4>1, <4>2
    <3> QED BY <3>1, <3>2
  <2> HIDE DEF one, count
  <2>2. count = rhs BY <2>1 DEF count
  <2> QED BY <2>2 DEF one
<1>4. Right(sum)
  <2> HIDE DEF Right, count
  <2> QED BY <1>3
<1>5. SumOver(f) = sum[E] BY DEF SumOver, MapThenSumSet, MapThenFoldSet
<1> HIDE DEF sum, count
<1>6. \A T \in SUBSET E : sum[T] = IF T = {} THEN 0 ELSE f[one(T)] + sum[T \ {one(T)}]
  <2> HIDE DEF one
  <2> QED BY <1>4 DEF one
<1> HIDE DEF one
<1> DEFINE N == Cardinality(E)
           G == {k \in 0 .. N : \A T \in SUBSET E : Cardinality(T) = k => sum[T] = n(T)}
<1>7. N \in Nat BY FS_CardinalityType
<1>8. 0 \in G
  <2>1. ASSUME NEW T \in SUBSET E, Cardinality(T) = 0 PROVE sum[T] = n(T)
    <3>1. IsFiniteSet(T) BY FS_Subset
    <3>2. T = {} BY <2>1, <3>1, FS_EmptySet
    <3> QED BY <1>2, <1>6, <3>2
  <2> QED BY <1>7, <2>1
<1>9. ASSUME NEW k \in 1 .. N, k - 1 \in G PROVE k \in G
  <2>1. ASSUME NEW T \in SUBSET E, Cardinality(T) = k PROVE sum[T] = n(T)
    <3> DEFINE x == one(T)
    <3>1. IsFiniteSet(T) BY FS_Subset
    <3>2. T # {}
      <4>1. k # 0 BY <1>7
      <4> QED BY <2>1, <4>1, FS_EmptySet
    <3>3. x \in T /\ n(T) = f[x] + n(T \ {x}) BY <1>1, <3>2
    <3>4. sum[T] = f[x] + sum[T \ {x}] BY <1>6, <3>2
    <3>5. Cardinality(T \ {x}) = k - 1 BY <2>1, <3>1, <3>3, FS_RemoveElement
    <3>6. T \ {x} \in SUBSET E OBVIOUS
    <3>7. sum[T \ {x}] = n(T \ {x}) BY <1>9, <3>5, <3>6
    <3> QED BY <3>3, <3>4, <3>7
  <2>2. k \in 0 .. N OBVIOUS
  <2> QED BY <2>1, <2>2
<1>10. G \subseteq 0 .. N /\ N \in 0 .. N BY <1>7
<1> HIDE DEF G, N
<1>11. N \in G BY <1>7, <1>8, <1>9, <1>10, UpTo
<1>12. sum[E] = n(E) BY <1>11 DEF G, N
<1>13. Under(E) = C OBVIOUS
<1> QED BY <1>5, <1>12, <1>13 DEF n

\* The counts by class of a group are its size.
LEMMA ClassesAddUp ==
  ASSUME NEW C, IsFiniteSet(C)
  PROVE  SumOver(ClassCounts(C)) = Cardinality(C)
<1> DEFINE f == ClassCounts(C)
           end == [o \in C |-> o.class]
<1>1. f = [c \in {end[o] : o \in C} |-> Cardinality({o \in C : end[o] = c})] BY DEF ClassCounts
<1>2. DOMAIN end = C OBVIOUS
<1> HIDE DEF f, end
<1>3. IsFiniteSet(DOMAIN f) BY <1>1, <1>2, ImageIsFinite
<1> QED BY <1>1, <1>3, SumOverIsTheWhole DEF f

\* Of any objects, those with a usable value and those in each other state.
LEMMA StatesAddUp ==
  ASSUME NEW C, IsFiniteSet(C), NEW k
  PROVE  Cardinality(C) = Cardinality({o \in C : Usable(o, k)}) + SumOver(MissingStates(C, k))
<1> DEFINE U == {o \in C : Usable(o, k)}
           V == {o \in C : ~Usable(o, k)}
           f == MissingStates(C, k)
           end == [o \in V |-> State(o, k)]
<1>1. \A o \in C : Usable(o, k) <=> State(o, k) = "usable" BY DEF Usable, State
<1>2. f = [s \in {end[o] : o \in V} |-> Cardinality({o \in V : end[o] = s})]
  <2>1. {State(o, k) : o \in C} \ {"usable"} = {end[o] : o \in V} BY <1>1
  <2>2. \A s \in {end[o] : o \in V} : {o \in C : State(o, k) = s} = {o \in V : end[o] = s} BY <1>1
  <2> HIDE DEF V, end
  <2> QED BY <2>1, <2>2 DEF MissingStates
<1>3. DOMAIN end = V OBVIOUS
<1>4. U \cup V = C /\ U \cap V = {} OBVIOUS
<1>5. IsFiniteSet(U) /\ IsFiniteSet(V) BY FS_Subset
<1> HIDE DEF f, end, U, V
<1>6. SumOver(f) = Cardinality(V)
  <2>1. IsFiniteSet(DOMAIN f) BY <1>2, <1>3, <1>5, ImageIsFinite
  <2> QED BY <1>2, <1>5, <2>1, SumOverIsTheWhole
<1>7. Cardinality(C) = Cardinality(U) + Cardinality(V) - Cardinality(U \cap V) BY <1>4, <1>5, FS_Union
<1>8. Cardinality(U \cap V) = 0 BY <1>4, FS_EmptySet
<1>9. Cardinality(U) \in Nat /\ Cardinality(V) \in Nat BY <1>5, FS_CardinalityType
<1> QED BY <1>6, <1>7, <1>8, <1>9 DEF f, U

\* The buckets kept count no object twice, and lose some only to the limit.
LEMMA GroupsAddUp ==
  ASSUME NEW C, IsFiniteSet(C), NEW k, NEW limit, NEW kept \in GroupBy(C, k, limit)
  PROVE  LET sum == SumOver([b \in kept |-> b.count])
         IN  sum <= Cardinality(C) /\ (sum < Cardinality(C) => Cardinality(kept) = limit)
<1> DEFINE bucket(v) == [key |-> v, count |-> Cardinality({o \in C : Text(o, k) = v})]
           all == {bucket(v) : v \in {Text(o, k) : o \in C}}
           end == [o \in C |-> bucket(Text(o, k))]
           D == {o \in C : end[o] \in kept}
           f == [b \in kept |-> b.count]
<1>1. all = Buckets(C, k) BY DEF Buckets
<1>2. kept \subseteq all /\ Cardinality(kept) = IF Cardinality(all) < limit THEN Cardinality(all) ELSE limit
  BY <1>1 DEF GroupBy
<1>3. all = {end[o] : o \in C} /\ DOMAIN end = C OBVIOUS
<1>4. ASSUME NEW b \in kept PROVE b.count = Cardinality({o \in D : end[o] = b})
  <2>1. PICK o \in C : b = bucket(Text(o, k))
    <3>1. \A d \in all : \E o \in C : d = bucket(Text(o, k))
      <4> HIDE DEF bucket
      <4> QED OBVIOUS
    <3> HIDE DEF all, bucket
    <3> QED BY <1>2, <3>1
  <2>2. {p \in C : Text(p, k) = b.key} = {p \in D : end[p] = b}
    <3>1. \A p \in C : end[p] = bucket(Text(p, k)) OBVIOUS
    <3>2. \A v, w : bucket(v) = bucket(w) => v = w OBVIOUS
    <3>3. b.key = Text(o, k) BY <2>1
    <3> HIDE DEF bucket, end
    <3> QED BY <2>1, <3>1, <3>2, <3>3
  <2>3. b.count = Cardinality({p \in C : Text(p, k) = b.key}) BY <2>1
  <2> QED BY <2>2, <2>3
<1>5. D \subseteq C OBVIOUS
<1>6. kept = all => D = C OBVIOUS
<1>7. \A o \in D : end[o] \in kept OBVIOUS
<1> HIDE DEF bucket, all, end, D
<1>8. IsFiniteSet(all) /\ IsFiniteSet(kept) BY <1>2, <1>3, ImageIsFinite, FS_Subset
<1>9. IsFiniteSet(D) /\ Cardinality(D) <= Cardinality(C) /\ Cardinality(D) \in Nat /\ Cardinality(C) \in Nat
  BY <1>5, FS_Subset, FS_CardinalityType
<1>10. SumOver(f) = Cardinality(D)
  <2>1. DOMAIN f = kept /\ \A b \in kept : f[b] = Cardinality({o \in D : end[o] = b}) BY <1>4
  <2> HIDE DEF f
  <2> QED BY <1>7, <1>8, <1>9, <2>1, SumOverIsTheWhole
<1>11. ASSUME Cardinality(D) < Cardinality(C) PROVE Cardinality(kept) = limit
  <2>1. kept # all BY <1>6, <1>9, <1>11
  <2>2. Cardinality(kept) # Cardinality(all) BY <1>2, <1>8, <2>1, FS_Subset
  <2> QED BY <1>2, <2>2
<1> QED BY <1>9, <1>10, <1>11

\* What an aggregate covers has a usable value.
LEMMA CoverageIsRecorded ==
  ASSUME NEW C, IsFiniteSet(C), C \subseteq Rows, NEW k, NEW function \in {"count", "sum", "min", "max"}
  PROVE  LET r == Aggregate(C, k, function)
         IN  /\ r.matched = Cardinality(C)
             /\ r.value # None =>
                  r.coverage \in 1 .. Cardinality({o \in C : Usable(o, k)}) \cup {Cardinality(C)}
<1> DEFINE covered == {o \in C : Number(o, k) # None}
           usable == {o \in C : Usable(o, k)}
           r == Aggregate(C, k, function)
<1>1. covered \subseteq usable
  <2> SUFFICES ASSUME NEW o \in C, Number(o, k) # None PROVE Usable(o, k) OBVIOUS
  <2>1. Text(o, k) # Null /\ Reads[Text(o, k)].number # None BY DEF Number
  <2>2. k \in DOMAIN o.leaf /\ Text(o, k) = o.leaf[k] BY <2>1 DEF Text
  <2>3. o.leaf[k] \in DOMAIN Reads BY <2>1, <2>2, RowsAreStored
  <2>4. o.leaf[k] # Empty BY <2>1, <2>2, <2>3, ValuesAreRead
  <2> QED BY <2>1, <2>2, <2>4 DEF Usable
<1>2. r.matched = Cardinality(C) /\ r.coverage = IF function = "count" THEN Cardinality(C) ELSE Cardinality(covered)
  BY DEF Aggregate
<1>3. function # "count" /\ covered = {} => r.value = None BY DEF Aggregate
<1>4. IsFiniteSet(usable) /\ IsFiniteSet(covered) BY <1>1, FS_Subset
<1> HIDE DEF covered, usable, r
<1>5. Cardinality(covered) \in Nat /\ Cardinality(usable) \in Nat /\ Cardinality(covered) <= Cardinality(usable)
  BY <1>1, <1>4, FS_Subset, FS_CardinalityType
<1>6. covered # {} => Cardinality(covered) # 0 BY <1>4, FS_EmptySet
<1>7. r.value # None => r.coverage \in 1 .. Cardinality(usable) \cup {Cardinality(C)}
  BY <1>2, <1>3, <1>5, <1>6
<1> QED BY <1>2, <1>7 DEF r, usable

----------------------------------------------------------------------------
(***************************************************************************)
(* A condition on text.  What a value is resolved to is stored and reads   *)
(* like it, and it is the value itself when that is stored.                *)
(***************************************************************************)
LEMMA LeastIsIn ==
  ASSUME NEW S, IsFiniteSet(S), S \subseteq Int, S # {}
  PROVE  Min(S) \in S /\ \A y \in S : Min(S) <= y
<1>1. \E x \in S : \A y \in S : x <= y BY Extremes
<1> QED BY <1>1 DEF Min

\* resolve_value finds a stored value that some rung reads like the user's, and
\* the value itself when it is stored.
LEMMA ResolvedIsFound ==
  ASSUME NEW user, NEW read, NEW n \in Nat, DOMAIN read = 1 .. n, NEW exactRequired
  PROVE  LET v == ResolveValue(user, read, exactRequired)
         IN  /\ v # None => \E i \in DOMAIN read : v = read[i] /\ \E m \in 1 .. 4 : Matches(Rungs[m], user, read[i])
             /\ (\E i \in DOMAIN read : read[i] = user) => v = user
<1> DEFINE tried == IF exactRequired THEN {1} ELSE 1 .. 4
           reached == {m \in tried : Found(m, user, read) # {}}
           m == Min(reached)
           v == ResolveValue(user, read, exactRequired)
<1>1. v = IF reached = {} THEN None ELSE read[Min(Found(m, user, read))] BY DEF ResolveValue
<1>2. tried \subseteq 1 .. 4 /\ 1 \in tried OBVIOUS
<1>3. reached \subseteq 1 .. 4 /\ \A j \in reached : Found(j, user, read) # {} BY <1>2
<1>4. Found(1, user, read) # {} => 1 \in reached BY <1>2
<1> HIDE DEF tried, reached, m, v
<1>5. ASSUME reached # {}
      PROVE  /\ m \in reached /\ \A j \in reached : m <= j
             /\ Min(Found(m, user, read)) \in Found(m, user, read)
  <2>1. IsFiniteSet(reached) /\ reached \subseteq Int
    <3>1. 1 \in Int /\ 4 \in Int OBVIOUS
    <3> QED BY <1>3, <3>1, PartOfInterval
  <2>2. m \in reached /\ \A j \in reached : m <= j BY <1>5, <2>1, LeastIsIn DEF m
  <2>3. Found(m, user, read) \subseteq 1 .. n BY DEF Found
  <2>4. IsFiniteSet(Found(m, user, read)) /\ Found(m, user, read) \subseteq Int
    <3>1. 1 \in Int /\ n \in Int OBVIOUS
    <3> QED BY <2>3, <3>1, PartOfInterval
  <2>5. Found(m, user, read) # {} BY <1>3, <2>2
  <2>6. Min(Found(m, user, read)) \in Found(m, user, read) BY <2>4, <2>5, LeastIsIn
  <2> QED BY <2>2, <2>6
<1>6. ASSUME v # None
      PROVE  \E i \in DOMAIN read : v = read[i] /\ \E j \in 1 .. 4 : Matches(Rungs[j], user, read[i])
  <2>1. reached # {} /\ v = read[Min(Found(m, user, read))] BY <1>1, <1>6
  <2>2. m \in 1 .. 4 BY <1>3, <1>5, <2>1
  <2> QED BY <1>5, <2>1, <2>2 DEF Found
<1>7. ASSUME \E i \in DOMAIN read : read[i] = user PROVE v = user
  <2>1. \A i \in DOMAIN read : i \in Found(1, user, read) <=> read[i] = user BY DEF Found, Matches, Rungs
  <2>2. 1 \in reached BY <1>4, <1>7, <2>1
  <2>3. m = 1
    <3>1. m \in reached /\ m <= 1 BY <1>5, <2>2
    <3>2. m \in 1 .. 4 BY <1>3, <3>1
    <3> QED BY <3>1, <3>2
  <2>4. Min(Found(m, user, read)) \in Found(1, user, read) BY <1>5, <2>2, <2>3
  <2>5. v = read[Min(Found(m, user, read))] BY <1>1, <2>2
  <2> QED BY <2>1, <2>4, <2>5 DEF Found
<1> QED BY <1>6, <1>7 DEF v

\* What a field is compared with: the stored values, all of them if they are few.
TextsOf(S, k, classes) == {Text(o, k) : o \in {p \in S : classes = {} \/ p.class \in classes}} \ {Null}

LEMMA TextsAreFinite ==
  ASSUME NEW S \in Batches, NEW k, NEW classes
  PROVE  IsFiniteSet(TextsOf(S, k, classes)) /\ TextsOf(S, k, classes) \subseteq DOMAIN Reads
<1> DEFINE P == {p \in S : classes = {} \/ p.class \in classes}
           f == [o \in P |-> Text(o, k)]
           T == {f[o] : o \in P}
<1>1. IsFiniteSet(P) BY FS_Subset DEF Batches
<1>2. TextsOf(S, k, classes) = T \ {Null} BY DEF TextsOf
<1>3. \A t \in T : t # Null => t \in DOMAIN Reads
  <2> SUFFICES ASSUME NEW o \in P, Text(o, k) # Null PROVE Text(o, k) \in DOMAIN Reads OBVIOUS
  <2>1. o \in Rows BY DEF Batches
  <2>2. k \in DOMAIN o.leaf /\ Text(o, k) = o.leaf[k] BY DEF Text
  <2> QED BY <2>1, <2>2, RowsAreStored
<1>4. DOMAIN f = P OBVIOUS
<1> HIDE DEF f, P
<1>5. IsFiniteSet(T) BY <1>1, <1>4, ImageIsFinite
<1> HIDE DEF T
<1> QED BY <1>2, <1>3, <1>5, FS_Subset

\* load_field_values: all stored values but the blank one, if they are few.
LEMMA ValuesRead ==
  ASSUME NEW S \in Batches, NEW k, NEW classes
  PROVE  LET l == LoadFieldValues(S, k, classes)
             T == TextsOf(S, k, classes)
         IN  /\ Len(l) \in Nat /\ DOMAIN l = 1 .. Len(l) /\ \A i \in DOMAIN l : l[i] \in DOMAIN Reads \ {Empty}
             /\ (l # <<>> /\ Cardinality(T) <= MaxDistinct) =>
                  \A v \in T \ {Empty} : \E i \in DOMAIN l : l[i] = v
<1> DEFINE T == TextsOf(S, k, classes)
           D == DistinctRead(T)
           E == D \ {Empty}
           l == LoadFieldValues(S, k, classes)
           sorted == Ordered(E, <)
<1>1. l = IF Fields[k].kind \in {"quantity", "measurement"} THEN <<>> ELSE sorted
  BY DEF LoadFieldValues, TextsOf
<1>2. IsFiniteSet(T) /\ T \subseteq DOMAIN Reads /\ DOMAIN Reads \subseteq Int BY TextsAreFinite, ValuesAreRead
<1> HIDE DEF T
<1>3. D \subseteq T BY DEF DistinctRead
<1>4. IsFiniteSet(E) /\ E \subseteq DOMAIN Reads \ {Empty} /\ E \subseteq Int BY <1>2, <1>3, FS_Subset
<1>5. ASSUME Cardinality(T) <= MaxDistinct PROVE D = T
  <2> SUFFICES ASSUME NEW v \in T PROVE Cardinality({w \in T : w < v}) < MaxDistinct BY DEF DistinctRead
  <2> DEFINE less == {w \in T : w < v}
  <2>1. v \in Int BY <1>2
  <2>2. less \subseteq T \ {v} BY <2>1
  <2> HIDE DEF less
  <2>3. IsFiniteSet(T \ {v}) /\ Cardinality(T \ {v}) = Cardinality(T) - 1 BY <1>2, FS_RemoveElement
  <2>4. Cardinality(less) <= Cardinality(T \ {v}) /\ Cardinality(less) \in Nat
    BY <2>2, <2>3, FS_Subset, FS_CardinalityType
  <2>5. Cardinality(T) \in Nat /\ MaxDistinct \in Nat BY <1>2, FS_CardinalityType, VocabularyBounds
  <2> QED BY <1>5, <2>3, <2>4, <2>5 DEF less
<1> HIDE DEF D, l
<1>6. /\ Len(sorted) \in Nat /\ DOMAIN sorted = 1 .. Len(sorted)
      /\ \A i \in DOMAIN sorted : sorted[i] \in E
      /\ \A x \in E : \E i \in DOMAIN sorted : sorted[i] = x
  <2> HIDE DEF E
  <2> QED BY <1>4, AscendingNumbers
<1> HIDE DEF sorted
<1>7. Len(l) \in Nat /\ DOMAIN l = 1 .. Len(l) /\ \A i \in DOMAIN l : l[i] \in DOMAIN Reads \ {Empty}
  BY <1>1, <1>4, <1>6
<1>8. ASSUME l # <<>>, Cardinality(T) <= MaxDistinct, NEW v \in T \ {Empty} PROVE \E i \in DOMAIN l : l[i] = v
  <2>1. l = sorted BY <1>1, <1>8
  <2>2. v \in E BY <1>5, <1>8
  <2> QED BY <1>6, <2>1, <2>2
<1> QED BY <1>7, <1>8 DEF T, l

\* What a condition with texts was compiled from.
LEMMA TextConditions ==
  ASSUME NEW b, NEW c, NEW read, NEW f, f = CompileCondition(b, c, read), f # Uncompiled, f.texts # {},
         b.op \notin {"contains", "starts_with"}
  PROVE  /\ f.key = c.key /\ f.numbers = <<>> /\ b.values # <<>> /\ None \notin f.texts
         /\ f.texts = {ResolveValue(b.values[i], read, b.quoted) : i \in DOMAIN b.values}
         /\ f.op \in {"not_in", "in", "case_insensitive_exact"}
         /\ f.op = "not_in" <=> b.negated \/ b.op = "not_equals"
<1> DEFINE resolved == [i \in DOMAIN b.values |-> ResolveValue(b.values[i], read, b.quoted)]
           op == IF b.negated \/ b.op = "not_equals" THEN "not_in"
                 ELSE IF Len(resolved) > 1 THEN "in" ELSE TextOperators[b.op]
<1>1. f = CompileText(b, c, read)
  BY DEF CompileCondition, CompileNumeric, Condition, Uncompiled
<1>2. b.op \in DOMAIN TextOperators /\ b.values # <<>> /\ None \notin ToSet(resolved)
      /\ f = Condition(c.key, op, ToSet(resolved), <<>>)
  BY <1>1 DEF CompileText
<1>3. ToSet(resolved) = {ResolveValue(b.values[i], read, b.quoted) : i \in DOMAIN b.values} BY DEF ToSet
<1>4. b.op \in {"equals", "not_equals", "one_of"} BY <1>2 DEF TextOperators
<1>5. op \in {"not_in", "in", "case_insensitive_exact"} /\ (op = "not_in" <=> b.negated \/ b.op = "not_equals")
  <2> HIDE DEF resolved
  <2> QED BY <1>4 DEF TextOperators
<1> HIDE DEF op, resolved
<1> QED BY <1>2, <1>3, <1>5 DEF Condition

\* What the statement selects by a text reads like a value of the condition.
LEMMA SelectedReadsAlike ==
  ASSUME NEW S \in Batches, NEW b, NEW c, b.values \in Seq(DOMAIN Reads), b.op \notin {"contains", "starts_with"},
         NEW read \in {<<>>, LoadFieldValues(S, c.key, c.classes)},
         NEW f, f = CompileCondition(b, c, read), f # Uncompiled, f.texts # {}, f.op # "not_in",
         NEW o \in Rows, Holds(f, o)
  PROVE  \E u \in ToSet(b.values) : Denotes(u, Text(o, f.key))
<1> DEFINE t == Text(o, f.key)
<1>1. /\ f.numbers = <<>> /\ None \notin f.texts /\ f.op \in {"in", "case_insensitive_exact"}
      /\ f.texts = {ResolveValue(b.values[i], read, b.quoted) : i \in DOMAIN b.values}
  BY TextConditions
<1>2. t # Null /\ TextHolds(f, t) BY <1>1 DEF Holds
<1>3. t \in DOMAIN Reads
  <2>1. f.key \in DOMAIN o.leaf /\ t = o.leaf[f.key] BY <1>2 DEF Text
  <2> QED BY <1>2, <2>1, RowsAreStored
<1>4. PICK w \in f.texts : Reads[w].lower = Reads[t].lower
  <2>1. t \in f.texts \/ \E w \in f.texts : Reads[w].lower = Reads[t].lower BY <1>1, <1>2 DEF TextHolds
  <2> QED BY <2>1
<1>5. PICK i \in DOMAIN b.values : w = ResolveValue(b.values[i], read, b.quoted) BY <1>1
<1> DEFINE u == b.values[i]
<1>6. u \in DOMAIN Reads /\ u \in ToSet(b.values) BY <1>5 DEF ToSet
<1>7. PICK n \in Nat : DOMAIN read = 1 .. n /\ \A j \in DOMAIN read : read[j] \in DOMAIN Reads
  <2> DEFINE l == LoadFieldValues(S, c.key, c.classes)
  <2>1. Len(l) \in Nat /\ DOMAIN l = 1 .. Len(l) /\ \A j \in DOMAIN l : l[j] \in DOMAIN Reads \ {Empty}
    BY ValuesRead
  <2> HIDE DEF l
  <2>2. CASE read = l BY <2>1, <2>2
  <2>3. CASE read = <<>>
    <3>1. DOMAIN read = 1 .. 0 /\ 0 \in Nat BY <2>3
    <3> QED BY <3>1
  <2> QED BY <2>2, <2>3 DEF l
<1> HIDE DEF u, t
<1>8. w = ResolveValue(u, read, b.quoted) /\ w # None BY <1>1, <1>5 DEF u
<1>9. PICK j \in DOMAIN read : w = read[j] /\ \E m \in 1 .. 4 : Matches(Rungs[m], u, read[j])
  <2> DEFINE v == ResolveValue(u, read, b.quoted)
  <2>1. v # None => \E j \in DOMAIN read : v = read[j] /\ \E m \in 1 .. 4 : Matches(Rungs[m], u, read[j])
    BY <1>7, ResolvedIsFound
  <2> HIDE DEF v
  <2> QED BY <1>8, <2>1 DEF v
<1>10. w \in DOMAIN Reads BY <1>7, <1>9
<1>11. PICK m \in 1 .. 4 : Matches(Rungs[m], u, w) BY <1>9
<1>12. Reads[w].folded = Reads[t].folded /\ Reads[w].stem = Reads[t].stem /\ Reads[w].truth = Reads[t].truth
  BY <1>3, <1>4, <1>10, ValuesAreRead
<1>13. Denotes(u, t)
  <2>1. CASE w = u BY <1>4, <2>1 DEF Denotes
  <2>2. CASE w # u
    <3>1. Matches(Rungs[m], u, t) BY <1>11, <1>12, <2>2 DEF Matches
    <3>2. m \in DOMAIN Rungs BY DEF Rungs
    <3> QED BY <3>1, <3>2 DEF Denotes
  <2> QED BY <2>1, <2>2
<1> QED BY <1>6, <1>13 DEF t

\* A value stored as it was asked is one of the texts compared with.
LEMMA StoredIsCompared ==
  ASSUME NEW S \in Batches, NEW b, NEW c, b.values \in Seq(DOMAIN Reads), b.op \notin {"contains", "starts_with"},
         NEW read \in {<<>>, LoadFieldValues(S, c.key, c.classes)},
         NEW f, f = CompileCondition(b, c, read), f # Uncompiled, f.texts # {},
         Cardinality(TextsOf(S, f.key, c.classes)) <= MaxDistinct,
         NEW o \in S, o.class \in c.classes, Text(o, f.key) \in ToSet(b.values)
  PROVE  Text(o, f.key) # Null /\ Text(o, f.key) \in f.texts
<1> DEFINE t == Text(o, f.key)
           l == LoadFieldValues(S, c.key, c.classes)
           T == TextsOf(S, c.key, c.classes)
<1>1. /\ f.key = c.key /\ None \notin f.texts /\ b.values # <<>>
      /\ f.texts = {ResolveValue(b.values[i], read, b.quoted) : i \in DOMAIN b.values}
  BY TextConditions
<1>2. PICK i \in DOMAIN b.values : t = b.values[i] BY DEF ToSet
<1>3. t \in DOMAIN Reads /\ t # Null BY <1>2, ValuesAreRead
<1>4. t \in T BY <1>1, <1>3 DEF TextsOf
<1>5. Cardinality(T) <= MaxDistinct BY <1>1
<1>6. ResolveValue(t, read, b.quoted) \in f.texts /\ ResolveValue(t, read, b.quoted) # None BY <1>1, <1>2
<1>7. /\ Len(l) \in Nat /\ DOMAIN l = 1 .. Len(l) /\ \A j \in DOMAIN l : l[j] \in DOMAIN Reads \ {Empty}
      /\ l # <<>> => \A v \in T \ {Empty} : \E j \in DOMAIN l : l[j] = v
  BY <1>5, ValuesRead
<1>8. t \in DOMAIN Reads /\ t \in ToSet(b.values) BY <1>3
<1> HIDE DEF t, l, T
<1>9. PICK n \in Nat : DOMAIN read = 1 .. n /\ (read # <<>> => read = l)
  <2>1. CASE read = l BY <1>7, <2>1
  <2>2. CASE read = <<>>
    <3>1. DOMAIN read = 1 .. 0 /\ 0 \in Nat BY <2>2
    <3> QED BY <2>2, <3>1
  <2> QED BY <2>1, <2>2 DEF l
<1>10. PICK j \in DOMAIN read : \E m \in 1 .. 4 : Matches(Rungs[m], t, read[j])
  <2> DEFINE v == ResolveValue(t, read, b.quoted)
  <2>1. v # None => \E j \in DOMAIN read : v = read[j] /\ \E m \in 1 .. 4 : Matches(Rungs[m], t, read[j])
    BY <1>9, ResolvedIsFound
  <2> HIDE DEF v
  <2> QED BY <1>6, <2>1 DEF v
<1>11. read = l /\ l # <<>>
  <2>1. DOMAIN read # {} BY <1>10
  <2>2. read # <<>> BY <2>1
  <2> QED BY <1>9, <2>2
<1>12. t # Empty
  <2> SUFFICES ASSUME t = Empty PROVE FALSE OBVIOUS
  <2>1. Reads[t].folded = None /\ Reads[t].truth = None BY <1>3, ValuesAreRead
  <2>2. read[j] # t BY <1>7, <1>10, <1>11
  <2> QED BY <1>10, <2>1, <2>2 DEF Matches
<1>13. \E k \in DOMAIN read : read[k] = t BY <1>4, <1>7, <1>11, <1>12
<1>14. ResolveValue(t, read, b.quoted) = t BY <1>9, <1>13, ResolvedIsFound
<1> QED BY <1>3, <1>6, <1>14 DEF t

\* A value that was not resolved is read like no value on the rungs that were tried.
LEMMA UnresolvedIsUnlike ==
  ASSUME NEW user, NEW read, NEW n \in Nat, DOMAIN read = 1 .. n, \A i \in DOMAIN read : read[i] # None,
         NEW exactRequired \in BOOLEAN, ResolveValue(user, read, exactRequired) = None, NEW i \in DOMAIN read
  PROVE  /\ exactRequired => read[i] # user
         /\ ~exactRequired => \A m \in DOMAIN Rungs : ~Matches(Rungs[m], user, read[i])
<1> DEFINE tried == IF exactRequired THEN {1} ELSE 1 .. 4
           reached == {m \in tried : Found(m, user, read) # {}}
           first == Min(reached)
<1>1. None = IF reached = {} THEN None ELSE read[Min(Found(first, user, read))] BY DEF ResolveValue
<1>2. reached \subseteq 1 .. 4 /\ \A m \in reached : Found(m, user, read) # {} OBVIOUS
<1>3. ASSUME reached # {} PROVE FALSE
  <2> HIDE DEF reached
  <2>1. IsFiniteSet(reached) /\ reached \subseteq Int
    <3>1. 1 \in Int /\ 4 \in Int OBVIOUS
    <3> QED BY <1>2, <3>1, PartOfInterval
  <2>2. first \in reached BY <1>3, <2>1, LeastIsIn
  <2> HIDE DEF first
  <2>3. Found(first, user, read) \subseteq 1 .. n BY DEF Found
  <2>4. IsFiniteSet(Found(first, user, read)) /\ Found(first, user, read) \subseteq Int
    <3>1. 1 \in Int /\ n \in Int OBVIOUS
    <3> QED BY <2>3, <3>1, PartOfInterval
  <2>5. Min(Found(first, user, read)) \in Found(first, user, read) BY <1>2, <2>2, <2>4, LeastIsIn
  <2>6. Min(Found(first, user, read)) \in DOMAIN read BY <2>5 DEF Found
  <2> QED BY <1>1, <1>3, <2>6
<1>4. \A m \in tried : ~Matches(Rungs[m], user, read[i]) BY <1>3 DEF Found
<1>5. CASE exactRequired
  <2>1. ~Matches(Rungs[1], user, read[i]) BY <1>4, <1>5
  <2> QED BY <1>5, <2>1 DEF Matches, Rungs
<1>6. CASE ~exactRequired
  <2>1. DOMAIN Rungs = 1 .. 4 BY DEF Rungs
  <2> QED BY <1>4, <1>6, <2>1
<1> QED BY <1>5, <1>6

\* An equality that is refused has a value that no stored one is read like.
LEMMA RefusedIsUnlike ==
  ASSUME NEW S \in Batches, NEW b, NEW c, b.values \in Seq(DOMAIN Reads), b.quoted \in BOOLEAN,
         b.op \in DOMAIN TextOperators \ {"contains", "starts_with"}, b.values # <<>>, c.type # "number",
         NEW read, read = LoadFieldValues(S, c.key, c.classes), read # <<>>,
         CompileCondition(b, c, read) = Uncompiled,
         Cardinality(TextsOf(S, c.key, c.classes)) <= MaxDistinct
  PROVE  \E u \in ToSet(b.values) : \A v \in TextsOf(S, c.key, c.classes) \ {Empty} :
           IF b.quoted THEN v # u ELSE \A m \in DOMAIN Rungs : ~Matches(Rungs[m], u, v)
<1> DEFINE resolved == [i \in DOMAIN b.values |-> ResolveValue(b.values[i], read, b.quoted)]
           op == IF b.negated \/ b.op = "not_equals" THEN "not_in"
                 ELSE IF Len(resolved) > 1 THEN "in" ELSE TextOperators[b.op]
<1>1. CompileText(b, c, read) = Uncompiled BY DEF CompileCondition, TextOperators
<1>2. b.op \in {"equals", "not_equals", "one_of"} BY DEF TextOperators
<1>3. CompileText(b, c, read) = IF None \in ToSet(resolved) THEN Uncompiled
                                ELSE Condition(c.key, op, ToSet(resolved), <<>>)
  BY <1>2 DEF CompileText
<1>4. op # "unresolved"
  <2> HIDE DEF resolved
  <2> QED BY <1>2 DEF TextOperators
<1>5. None \in ToSet(resolved)
  <2> HIDE DEF op, resolved
  <2> QED BY <1>1, <1>3, <1>4 DEF Condition, Uncompiled
<1>6. PICK i \in DOMAIN b.values : ResolveValue(b.values[i], read, b.quoted) = None BY <1>5 DEF ToSet
<1> DEFINE u == b.values[i]
           T == TextsOf(S, c.key, c.classes)
<1>7. u \in ToSet(b.values) BY DEF ToSet
<1>8. /\ Len(read) \in Nat /\ DOMAIN read = 1 .. Len(read) /\ \A j \in DOMAIN read : read[j] \in DOMAIN Reads \ {Empty}
      /\ \A v \in T \ {Empty} : \E j \in DOMAIN read : read[j] = v
  BY ValuesRead
<1>9. \A j \in DOMAIN read : read[j] # None BY <1>8, ValuesAreRead
<1>10. ASSUME NEW v \in T \ {Empty}
       PROVE  IF b.quoted THEN v # u ELSE \A m \in DOMAIN Rungs : ~Matches(Rungs[m], u, v)
  <2>1. PICK j \in DOMAIN read : read[j] = v BY <1>8
  <2> HIDE DEF u, T
  <2>2. ResolveValue(u, read, b.quoted) = None BY <1>6 DEF u
  <2> DEFINE exact == b.quoted
             n == Len(read)
  <2>3. n \in Nat /\ DOMAIN read = 1 .. n /\ exact \in BOOLEAN BY <1>8
  <2>4. ResolveValue(u, read, exact) = None BY <2>2
  <2> HIDE DEF exact, n
  <2>5. (exact => read[j] # u) /\ (~exact => \A m \in DOMAIN Rungs : ~Matches(Rungs[m], u, read[j]))
    BY <1>9, <2>3, <2>4, UnresolvedIsUnlike
  <2> QED BY <2>1, <2>3, <2>5 DEF exact
<1> QED BY <1>7, <1>10

----------------------------------------------------------------------------
(***************************************************************************)
(* Groups of the component panel.                                          *)
(***************************************************************************)
\* What a group that the component panel highlights promises.
GroupIsWhole(S, group) ==
  group.available =>
    LET o == CHOOSE p \in S : p.id = group.id
        matched == Group(S, o, group.scope)
        uncut == \A k \in DOMAIN o.leaf : Shown(o, k) # None => Reads[Shown(o, k)].plain = Reads[Text(o, k)].plain
    IN /\ uncut => o \in matched
       /\ group.ids.total = SumOver(group.classes)
       /\ (group.scope = "type" /\ FindType(o).globalId # None) =>
            \A p \in matched : Group(S, p, "type") = matched

\* find_family: the value of a family is the text shown of its property.
LEMMA FamilyIsShown ==
  ASSUME NEW o, FindFamily(o) # None
  PROVE  FindFamily(o).value = Shown(o, FindFamily(o).key) /\ FindFamily(o).value # None
<1> DEFINE given == {k \in DOMAIN Fields : /\ Fields[k].kind = "property" /\ Fields[k].name \in FamilyNames
                                           /\ Shown(o, k) # None}
           first == Min(given)
<1>1. FindFamily(o) = [key |-> first, value |-> Shown(o, first)] /\ given # {} BY DEF FindFamily
<1>2. IsFiniteSet(given) /\ given \subseteq Int BY FieldsAreTabled, FS_Subset
<1>3. first \in given
  <2> HIDE DEF given
  <2> QED BY <1>1, <1>2, LeastIsIn
<1>4. Shown(o, first) # None
  <2> HIDE DEF first
  <2> QED BY <1>3
<1> HIDE DEF first
<1> QED BY <1>1, <1>4

LEMMA ShownIsStored ==
  ASSUME NEW o, NEW k, Shown(o, k) # None
  PROVE  Text(o, k) # Null /\ k \in DOMAIN o.leaf /\ Shown(o, k) = Reads[Text(o, k)].shown
BY DEF Shown, Text

\* highlight_group keeps what it promises, for each object and scope.
LEMMA GroupsAreWhole ==
  ASSUME NEW S \in Batches, NEW o \in S, NEW scope
  PROVE  GroupIsWhole(S, HighlightGroup(S, o, scope))
<1> DEFINE group == HighlightGroup(S, o, scope)
           matched == Group(S, o, scope)
           uncut == \A k \in DOMAIN o.leaf : Shown(o, k) # None => Reads[Shown(o, k)].plain = Reads[Text(o, k)].plain
<1> SUFFICES ASSUME group.available PROVE GroupIsWhole(S, group) BY DEF GroupIsWhole
<1>1. /\ group.id = o.id /\ group.scope = scope /\ group.ids = Identities(matched, MaxMatches)
      /\ group.classes = ClassCounts(matched)
      /\ \/ scope = "instance"
         \/ scope = "type" /\ HasType(o)
         \/ scope = "family" /\ FindFamily(o) # None
  BY DEF HighlightGroup
<1>2. (CHOOSE p \in S : p.id = group.id) = o BY <1>1 DEF Batches
<1>3. o \in Rows /\ IsFiniteSet(S) BY DEF Batches
<1>4. Shown(o, TypeGlobalId) # None => Text(o, TypeGlobalId) = Shown(o, TypeGlobalId)
  BY <1>3, ShownIsStored, RowsAreStored
<1>5. ASSUME uncut PROVE o \in matched
  <2>1. CASE scope = "instance" BY <2>1 DEF Group
  <2>2. CASE scope = "type" /\ HasType(o)
    <3>1. FindType(o) = [name |-> Shown(o, TypeName), globalId |-> Shown(o, TypeGlobalId)] BY <2>2 DEF FindType
    <3>2. CASE Shown(o, TypeGlobalId) # None BY <1>4, <2>2, <3>1, <3>2 DEF Group
    <3>3. CASE Shown(o, TypeGlobalId) = None
      <4>1. Shown(o, TypeName) # None BY <2>2, <3>3 DEF HasType
      <4>2. SameText(o, TypeName, Shown(o, TypeName)) BY <1>5, <4>1, ShownIsStored DEF SameText
      <4> QED BY <2>2, <3>1, <3>3, <4>2 DEF Group
    <3> QED BY <3>2, <3>3
  <2>3. CASE scope = "family" /\ FindFamily(o) # None
    <3> DEFINE f == FindFamily(o)
    <3>1. f.value = Shown(o, f.key) /\ f.value # None BY <2>3, FamilyIsShown
    <3>2. SameText(o, f.key, f.value)
      <4> HIDE DEF f
      <4> QED BY <1>5, <3>1, ShownIsStored DEF SameText
    <3> QED BY <2>3, <3>2 DEF Group
  <2> QED BY <1>1, <2>1, <2>2, <2>3
<1>6. group.ids.total = SumOver(group.classes)
  <2>1. matched \subseteq S BY DEF Group
  <2>2. IsFiniteSet(matched) BY <1>3, <2>1, FS_Subset
  <2> HIDE DEF matched, group
  <2>3. SumOver(ClassCounts(matched)) = Cardinality(matched) BY <2>2, ClassesAddUp
  <2> QED BY <1>1, <2>3 DEF Identities
<1>7. ASSUME scope = "type", FindType(o).globalId # None, NEW p \in matched
      PROVE  Group(S, p, "type") = matched
  <2> DEFINE g == Shown(o, TypeGlobalId)
  <2>1. HasType(o) BY <1>1, <1>7
  <2>2. FindType(o).globalId = g /\ g # None BY <1>7, <2>1 DEF FindType
  <2>3. matched = {q \in S : Text(q, TypeGlobalId) = g} BY <1>7, <2>1, <2>2 DEF Group
  <2>4. p \in S /\ Text(p, TypeGlobalId) = Text(o, TypeGlobalId) BY <1>4, <2>2, <2>3
  <2>5. Shown(p, TypeGlobalId) = g BY <2>4 DEF Shown
  <2>6. HasType(p) /\ FindType(p).globalId = g BY <2>2, <2>5 DEF HasType, FindType
  <2>7. Group(S, p, "type") = {q \in S : Text(q, TypeGlobalId) = g} BY <2>2, <2>6 DEF Group
  <2> QED BY <2>3, <2>7
<1> HIDE DEF group
<1> QED BY <1>1, <1>2, <1>5, <1>6, <1>7 DEF GroupIsWhole

----------------------------------------------------------------------------
(***************************************************************************)
(* The steps of one question about stored fields.                          *)
(***************************************************************************)
\* What has been compiled, executed and asked for.
Compiled ==
  /\ bound.candidate \in {FieldCandidate(c) : c \in Addressable} /\ bound.quoted \in BOOLEAN
  /\ bound.op \in Operators /\ bound.values \in UserWords
  /\ known \in Batches
  /\ lookedUp \in {<<>>, LoadFieldValues(known, bound.candidate.key, bound.candidate.classes)}
  /\ filter = CompileCondition(bound, bound.candidate, lookedUp)
Executed ==
  /\ filter # Uncompiled
  /\ \/ answer = [kind |-> "not_found"]
     \/ \E classes \in {{}, bound.candidate.classes} :
          /\ counted = Where(store, classes, {filter})
          /\ answer \in Reports(counted, Where(store, classes, {}), filter.key, Functions(bound.candidate))
Asked ==
  answer.kind = "group" => \E o \in store, scope \in {"instance", "type", "family"} :
                             answer.group = HighlightGroup(store, o, scope)

FieldInv ==
  /\ store \in Batches /\ pending \in Seq(Batches)
  /\ phase = "idle" => filter = None
  /\ phase = "compiled" => Compiled
  /\ phase = "answered" => IF filter = None THEN Asked ELSE Compiled /\ Executed

\* What a report of each kind says.
LEMMA ReportsByKind ==
  ASSUME NEW matched, NEW whole, NEW k, NEW candidate, NEW a \in Reports(matched, whole, k, Functions(candidate))
  PROVE  \/ a.kind = "list"
         \/ a.kind = "missing" /\ a.matched = Cardinality(whole) /\ a.states = MissingStates(whole, k)
         \/ a.kind = "groups" /\ a.buckets \in GroupBy(matched, k, Limit)
         \/ a.kind = "aggregate" /\ \E f \in {"count", "sum", "min", "max"} : a.result = Aggregate(matched, k, f)
<1> DEFINE list == [kind |-> "list", ids |-> Identities(matched, Limit), classes |-> ClassCounts(matched)]
           missing == [kind |-> "missing", matched |-> Cardinality(whole), states |-> MissingStates(whole, k)]
           groups == {[kind |-> "groups", buckets |-> b] : b \in GroupBy(matched, k, Limit)}
           functions == Functions(candidate)
           aggregates == {[kind |-> "aggregate", result |-> Aggregate(matched, k, f)] : f \in functions}
<1>1. a \in {list, missing} \cup groups \cup aggregates BY DEF Reports
<1>2. \A r \in groups : \E b \in GroupBy(matched, k, Limit) : r = [kind |-> "groups", buckets |-> b] OBVIOUS
<1>3. \A r \in aggregates : \E f \in functions : r = [kind |-> "aggregate", result |-> Aggregate(matched, k, f)] OBVIOUS
<1>4. functions \subseteq {"count", "sum", "min", "max"} BY DEF Functions
<1>5. list.kind = "list" OBVIOUS
<1>6. missing.kind = "missing" /\ missing.matched = Cardinality(whole) /\ missing.states = MissingStates(whole, k)
  OBVIOUS
<1> HIDE DEF list, missing, groups, functions, aggregates
<1>7. CASE a \in groups
  <2>1. PICK b \in GroupBy(matched, k, Limit) : a = [kind |-> "groups", buckets |-> b] BY <1>2, <1>7
  <2> QED BY <2>1
<1>8. CASE a \in aggregates
  <2>1. PICK f \in functions : a = [kind |-> "aggregate", result |-> Aggregate(matched, k, f)] BY <1>3, <1>8
  <2> QED BY <1>4, <2>1
<1> QED BY <1>1, <1>5, <1>6, <1>7, <1>8

(***************************************************************************)
(* The inductive invariant: a condition is the one compiled from its bound *)
(* form and from the values stored then, or from none if the index did not *)
(* know its field; and an answer was computed over what the store holds    *)
(* now.                                                                    *)
(***************************************************************************)
THEOREM FieldInvariant == FieldSpec => []FieldInv
<1>1. FieldInit => FieldInv
  <2> SUFFICES ASSUME FieldInit PROVE FieldInv OBVIOUS
  <2>1. PICK world \in Worlds : store = world[1] /\ pending = Tail(world) BY DEF FieldInit
  <2>2. world \in Seq(Batches) /\ world # <<>> BY WorldsAreBatches
  <2>3. store \in Batches /\ pending \in Seq(Batches)
    <3>1. Head(world) \in Batches /\ Tail(world) \in Seq(Batches) BY <2>2, HeadTailProperties
    <3>2. Head(world) = world[1] OBVIOUS
    <3> QED BY <2>1, <3>1, <3>2
  <2> QED BY <2>3 DEF FieldInit, FieldInv
<1>2. FieldInv /\ [FieldNext]_fieldVars => FieldInv'
  <2> SUFFICES ASSUME FieldInv, [FieldNext]_fieldVars PROVE FieldInv' OBVIOUS
  <2>1. store \in Batches /\ pending \in Seq(Batches) BY DEF FieldInv
  <2>2. CASE Import
    <3>1. pending[1] \in Batches /\ Tail(pending) \in Seq(Batches)
      <4>1. pending # <<>> BY <2>2 DEF Import
      <4>2. Head(pending) \in Batches /\ Tail(pending) \in Seq(Batches) BY <2>1, <4>1, HeadTailProperties
      <4>3. Head(pending) = pending[1] OBVIOUS
      <4> QED BY <4>2, <4>3
    <3>2. store' \in Batches /\ pending' \in Seq(Batches) BY <2>1, <2>2, <3>1, CommitKeepsRows DEF Import
    <3>3. phase' = phase /\ phase # "answered" BY <2>2 DEF Import
    <3>4. UNCHANGED <<bound, lookedUp, filter, known>> BY <2>2 DEF Import
    <3>5. Compiled => Compiled' BY <3>4 DEF Compiled
    <3> QED BY <3>2, <3>3, <3>4, <3>5 DEF FieldInv
  <2>3. CASE Summarise BY <2>3 DEF Summarise, FieldInv
  <2>4. CASE Compile
    <3>1. UNCHANGED <<store, pending>> /\ phase' = "compiled" /\ known' = store BY <2>4 DEF Compile
    <3>2. PICK concept \in Addressable, op \in Operators, values \in UserWords, negated \in BOOLEAN, quoted \in BOOLEAN :
            LET candidate == FieldCandidate(concept)
                lookup == candidate.type # "number" /\ op \notin Presence
            IN /\ bound' = [op |-> op, values |-> values, negated |-> negated, quoted |-> quoted, unit |-> None,
                            candidate |-> candidate]
               /\ lookedUp' = IF lookup /\ candidate.key \in index'
                              THEN LoadFieldValues(store, candidate.key, candidate.classes) ELSE <<>>
               /\ filter' = CompileCondition(bound', candidate, lookedUp')
      BY <2>4 DEF Compile
    <3>3. bound'.candidate = FieldCandidate(concept) /\ bound'.op = op /\ bound'.values = values /\ bound'.quoted = quoted BY <3>2
    <3>4. Compiled' BY <2>1, <3>1, <3>2, <3>3 DEF Compiled
    <3> QED BY <2>1, <3>1, <3>4 DEF FieldInv
  <2>5. CASE Execute
    <3>1. /\ UNCHANGED <<store, pending, vocabulary, index, bound, lookedUp, filter, known>>
          /\ phase = "compiled" /\ phase' = "answered" /\ filter # Uncompiled
      BY <2>5 DEF Execute
    <3>2. Compiled' BY <3>1 DEF FieldInv, Compiled
    <3>3. \/ answer' = [kind |-> "not_found"]
          \/ \E classes \in {{}, bound.candidate.classes} :
               /\ counted' = Where(store, classes, {filter})
               /\ answer' \in Reports(counted', Where(store, classes, {}), filter.key, Functions(bound.candidate))
      BY <2>5 DEF Execute
    <3>4. Executed' BY <3>1, <3>3 DEF Executed
    <3>5. answer'.kind # "group" BY <3>3, ReportsByKind
    <3> QED BY <3>1, <3>2, <3>4, <3>5 DEF FieldInv, Asked
  <2>6. CASE LookUp
    <3>1. /\ UNCHANGED <<store, pending, vocabulary, index, bound, lookedUp, filter, known>>
          /\ phase = "idle" /\ phase' = "answered"
      BY <2>6 DEF LookUp
    <3>2. answer'.kind = "fields" BY <2>6 DEF LookUp
    <3>3. filter' = None BY <3>1 DEF FieldInv
    <3> QED BY <3>1, <3>2, <3>3 DEF FieldInv, Asked
  <2>7. CASE Panel
    <3>1. /\ UNCHANGED <<store, pending, vocabulary, index, bound, lookedUp, filter, known>>
          /\ phase = "idle" /\ phase' = "answered"
      BY <2>7 DEF Panel
    <3>2. PICK o \in store :
            \/ answer' = [kind |-> "details", details |-> Details(store, o)]
            \/ \E scope \in {"instance", "type", "family"} :
                 answer' = [kind |-> "group", group |-> HighlightGroup(store, o, scope)]
            \/ \E p \in AllIds \cup {None} :
                 answer' = [kind |-> "resolved", ids |-> ResolveEntities(store, <<o.id, p, o.id>>), asked |-> {o.id, p}]
      BY <2>7 DEF Panel
    <3>3. Asked'
      <4>1. CASE \E scope \in {"instance", "type", "family"} :
                   answer' = [kind |-> "group", group |-> HighlightGroup(store, o, scope)]
        <5>1. PICK scope \in {"instance", "type", "family"} :
                answer' = [kind |-> "group", group |-> HighlightGroup(store, o, scope)]
          BY <4>1
        <5>2. answer'.group = HighlightGroup(store', o, scope) /\ o \in store' BY <3>1, <5>1
        <5> QED BY <5>2 DEF Asked
      <4>2. CASE answer' = [kind |-> "details", details |-> Details(store, o)] BY <4>2 DEF Asked
      <4>3. CASE \E p \in AllIds \cup {None} :
                   answer' = [kind |-> "resolved", ids |-> ResolveEntities(store, <<o.id, p, o.id>>), asked |-> {o.id, p}]
        <5>1. answer'.kind = "resolved" BY <4>3
        <5> QED BY <5>1 DEF Asked
      <4> QED BY <3>2, <4>1, <4>2, <4>3
    <3>4. filter' = None BY <3>1 DEF FieldInv
    <3> QED BY <3>1, <3>3, <3>4 DEF FieldInv
  <2>8. CASE UNCHANGED fieldVars
    <3>1. UNCHANGED <<store, pending, vocabulary, index, bound, lookedUp, filter, known, counted, answer, phase>>
      BY <2>8 DEF fieldVars
    <3>2. (Compiled => Compiled') /\ (Executed => Executed') /\ (Asked => Asked')
      BY <3>1 DEF Compiled, Executed, Asked
    <3> QED BY <3>1, <3>2 DEF FieldInv
  <2> QED BY <2>2, <2>3, <2>4, <2>5, <2>6, <2>7, <2>8 DEF FieldNext
<1> QED BY <1>1, <1>2, PTL DEF FieldSpec

\* highlight_group: the group of an object holds the object unless its text is
\* cut, its classes add up to its total, and a type found by its GlobalId has the
\* same group from each of its members.
THEOREM GroupsHoldTheirMembers == FieldSpec => []GroupHoldsItsMember
<1>1. FieldInv => GroupHoldsItsMember
  <2> SUFFICES ASSUME FieldInv, phase = "answered", answer.kind = "group" PROVE GroupIsWhole(store, answer.group)
    BY DEF GroupHoldsItsMember, GroupIsWhole
  <2>1. Asked
    <3>1. CASE filter = None BY <3>1 DEF FieldInv
    <3>2. CASE filter # None
      <4>1. Executed BY <3>2 DEF FieldInv
      <4>2. answer.kind # "group" BY <4>1, ReportsByKind DEF Executed
      <4> QED BY <4>2
    <3> QED BY <3>1, <3>2
  <2>2. PICK o \in store, scope \in {"instance", "type", "family"} : answer.group = HighlightGroup(store, o, scope)
    BY <2>1 DEF Asked
  <2> QED BY <2>2, GroupsAreWhole DEF FieldInv
<1> QED BY <1>1, FieldInvariant, PTL

\* A statement selects finitely many stored rows.
LEMMA SelectedAreRows ==
  ASSUME NEW S \in Batches, NEW classes, NEW conditions
  PROVE  LET W == Where(S, classes, conditions)
         IN  IsFiniteSet(W) /\ W \subseteq Rows /\ W \subseteq S
<1> DEFINE W == Where(S, classes, conditions)
<1>1. W \subseteq S BY DEF Where
<1> HIDE DEF W
<1>2. IsFiniteSet(W) /\ W \subseteq Rows BY <1>1, FS_Subset DEF Batches
<1> QED BY <1>1, <1>2 DEF W

\* entities.py, aggregates.py: recorded and missing objects add up to those asked
\* about, groups count an object once and lose some only to the limit, and an
\* aggregate rests on recorded values.
THEOREM EverythingIsAccountedFor == FieldSpec => []AccountedFor
<1>1. FieldInv => AccountedFor
  <2> SUFFICES ASSUME FieldInv, phase = "answered", filter # None, answer.kind # "not_found" PROVE AccountedFor
    BY DEF AccountedFor
  <2>1. store \in Batches /\ Executed BY DEF FieldInv
  <2>2. PICK classes \in {{}, bound.candidate.classes} :
          /\ counted = Where(store, classes, {filter})
          /\ answer \in Reports(counted, Where(store, classes, {}), filter.key, Functions(bound.candidate))
    BY <2>1 DEF Executed
  <2> DEFINE whole == Where(store, classes, {})
             present(S) == Cardinality({o \in S : Usable(o, filter.key)})
             a == answer
             k == filter.key
  <2>3. IsFiniteSet(counted) /\ counted \subseteq Rows /\ IsFiniteSet(whole) BY <2>1, <2>2, SelectedAreRows
  <2>4. \/ a.kind = "list"
        \/ a.kind = "missing" /\ a.matched = Cardinality(whole) /\ a.states = MissingStates(whole, k)
        \/ a.kind = "groups" /\ a.buckets \in GroupBy(counted, k, Limit)
        \/ a.kind = "aggregate" /\ \E f \in {"count", "sum", "min", "max"} : a.result = Aggregate(counted, k, f)
    BY <2>2, ReportsByKind
  <2>5. ASSUME a.kind = "missing"
        PROVE  a.matched = Cardinality(whole) /\ a.matched = present(whole) + SumOver(a.states)
    <3>1. a.matched = Cardinality(whole) /\ a.states = MissingStates(whole, k) BY <2>4, <2>5
    <3>2. Cardinality(whole) = present(whole) + SumOver(MissingStates(whole, k))
      <4> HIDE DEF whole
      <4> QED BY <2>3, StatesAddUp
    <3> HIDE DEF whole, present
    <3> QED BY <3>1, <3>2
  <2>6. ASSUME a.kind = "groups"
        PROVE  LET sum == SumOver([b \in a.buckets |-> b.count])
               IN sum <= Cardinality(counted) /\ (sum < Cardinality(counted) => Cardinality(a.buckets) = Limit)
    <3>1. a.buckets \in GroupBy(counted, k, Limit) BY <2>4, <2>6
    <3> QED BY <2>3, <3>1, GroupsAddUp
  <2>7. ASSUME a.kind = "aggregate"
        PROVE  /\ a.result.matched = Cardinality(counted)
               /\ a.result.value # None => a.result.coverage \in 1 .. present(counted) \cup {Cardinality(counted)}
    <3>1. PICK f \in {"count", "sum", "min", "max"} : a.result = Aggregate(counted, k, f) BY <2>4, <2>7
    <3> QED BY <2>3, <3>1, CoverageIsRecorded
  <2>8. a.kind = "missing" =>
          \E c \in {{}, bound.candidate.classes} :
            /\ a.matched = Cardinality(Where(store, c, {}))
            /\ a.matched = present(Where(store, c, {})) + SumOver(a.states)
    <3> HIDE DEF present
    <3> QED BY <2>5
  <2> QED BY <2>6, <2>7, <2>8 DEF AccountedFor
<1> QED BY <1>1, FieldInvariant, PTL

\* values.py, compile.py: what an equality counts reads like the value the user
\* gave, and what is stored exactly so when it is compiled is counted, or excluded
\* when it is negated, whatever was imported or cached before.
THEOREM ConditionsAreHonoured == FieldSpec => []ConditionHonoursTheValue
<1>1. FieldInv => ConditionHonoursTheValue
  <2> SUFFICES ASSUME FieldInv, phase = "answered", filter # None, filter # Uncompiled, answer.kind # "not_found",
                      filter.texts # {}, ~Fragment
               PROVE  ConditionHonoursTheValue
    BY DEF ConditionHonoursTheValue
  <2> DEFINE c == bound.candidate
             values == bound.values
             l == LoadFieldValues(known, c.key, c.classes)
  <2>1. store \in Batches /\ Compiled /\ Executed BY DEF FieldInv
  <2>2. known \in Batches /\ values \in Seq(DOMAIN Reads) /\ bound.op \notin {"contains", "starts_with"}
    BY <2>1, RowsAreStored DEF Compiled, Fragment
  <2>3. PICK read \in {<<>>, l} : read = lookedUp /\ filter = CompileCondition(bound, c, read) BY <2>1 DEF Compiled
  <2>4. PICK classes \in {{}, c.classes} : counted = Where(store, classes, {filter}) BY <2>1 DEF Executed
  <2>5. /\ filter.key = c.key /\ filter.numbers = <<>> /\ filter.op \in {"not_in", "in", "case_insensitive_exact"}
        /\ filter.op = "not_in" <=> Excluding
    BY <2>2, <2>3, TextConditions DEF Excluding
  <2>6. \A o \in counted : o \in store /\ Holds(filter, o) BY <2>4 DEF Where
  <2>7. \A o \in store : (Holds(filter, o) /\ o.class \in c.classes) => o \in counted BY <2>4 DEF Where
  <2>8. ASSUME ~Excluding, NEW o \in counted PROVE \E u \in ToSet(values) : Denotes(u, Text(o, filter.key))
    <3>1. o \in Rows /\ Holds(filter, o) /\ filter.op # "not_in" BY <2>1, <2>5, <2>6, <2>8 DEF Batches
    <3> QED BY <2>2, <2>3, <3>1, SelectedReadsAlike
  <2>9. ASSUME ReadWhole, NEW o, Concerned(o), Text(o, filter.key) \in ToSet(values)
        PROVE  Text(o, filter.key) # Null /\ Text(o, filter.key) \in filter.texts
    <3>1. o \in known /\ o.class \in c.classes BY <2>9 DEF Concerned
    <3>2. {p \in known : c.classes = {} \/ p.class \in c.classes} = {p \in known : Concerned(p)} BY <3>1 DEF Concerned
    <3>3. TextsOf(known, filter.key, c.classes) = {Text(p, filter.key) : p \in {q \in known : Concerned(q)}} \ {Null}
      BY <3>2 DEF TextsOf
    <3>4. Cardinality(TextsOf(known, filter.key, c.classes)) <= MaxDistinct BY <2>5, <2>9, <3>3 DEF ReadWhole, StoredTexts
    <3>5. Text(o, filter.key) \in ToSet(bound.values) /\ o.class \in bound.candidate.classes BY <2>9, <3>1
    <3> QED BY <2>2, <2>3, <3>1, <3>4, <3>5, StoredIsCompared
  <2>10. ASSUME ~Excluding, ReadWhole, NEW o \in store, Concerned(o), Text(o, filter.key) \in ToSet(values)
         PROVE  o \in counted
    <3>1. Text(o, filter.key) # Null /\ Text(o, filter.key) \in filter.texts BY <2>9, <2>10
    <3>2. filter.op \in {"in", "case_insensitive_exact"} BY <2>5, <2>10
    <3>3. TextHolds(filter, Text(o, filter.key)) BY <3>1, <3>2 DEF TextHolds
    <3>4. Holds(filter, o) BY <3>1, <3>3 DEF Holds
    <3> QED BY <2>7, <2>10, <3>4 DEF Concerned
  <2>11. ASSUME Excluding, ReadWhole, NEW o \in counted, Concerned(o) PROVE Text(o, filter.key) \notin ToSet(values)
    <3>1. Holds(filter, o) /\ filter.op = "not_in" BY <2>5, <2>6, <2>11
    <3>2. TextHolds(filter, Text(o, filter.key)) BY <2>5, <3>1 DEF Holds
    <3>3. Text(o, filter.key) \notin filter.texts BY <3>1, <3>2 DEF TextHolds
    <3> QED BY <2>9, <2>11, <3>3
  <2> QED BY <2>8, <2>10, <2>11 DEF ConditionHonoursTheValue
<1> QED BY <1>1, FieldInvariant, PTL

\* compile.py: an equality on text is refused as "not one of the values recorded"
\* only if no object of the field's classes stored a value that reads like the one
\* the user gave, whatever was cached before and however the model was imported.
THEOREM RefusalsAreTrue == FieldSpec => []RefusalIsTrue
<1>1. FieldInv => RefusalIsTrue
  <2> SUFFICES ASSUME FieldInv, phase = "compiled", Refused, lookedUp # <<>>, ReadWhole
               PROVE  \E u \in ToSet(bound.values) : \A v \in StoredTexts \ {Empty} :
                        IF bound.quoted THEN v # u ELSE \A i \in DOMAIN Rungs : ~Matches(Rungs[i], u, v)
    BY DEF RefusalIsTrue
  <2> DEFINE c == bound.candidate
             T == TextsOf(known, c.key, c.classes)
  <2>1. Compiled BY DEF FieldInv
  <2>2. known \in Batches /\ bound.values \in Seq(DOMAIN Reads) /\ bound.values # <<>> /\ bound.quoted \in BOOLEAN
    BY <2>1, RowsAreStored DEF Compiled, Refused
  <2>3. /\ lookedUp = LoadFieldValues(known, c.key, c.classes) /\ CompileCondition(bound, c, lookedUp) = Uncompiled
        /\ c.type # "number" /\ bound.op \in DOMAIN TextOperators \ {"contains", "starts_with"}
    BY <2>1 DEF Compiled, Refused, Fragment
  <2>4. CASE c.classes = {}
    <3>1. StoredTexts = {} BY <2>4 DEF StoredTexts, Concerned
    <3>2. bound.values[1] \in ToSet(bound.values) BY <2>2 DEF ToSet
    <3> QED BY <3>1, <3>2
  <2>5. CASE c.classes # {}
    <3>1. {p \in known : c.classes = {} \/ p.class \in c.classes} = {p \in known : Concerned(p)} BY <2>5 DEF Concerned
    <3>2. T = StoredTexts BY <3>1 DEF TextsOf, StoredTexts
    <3>3. Cardinality(T) <= MaxDistinct BY <3>2 DEF ReadWhole
    <3> QED BY <2>2, <2>3, <3>2, <3>3, RefusedIsUnlike
  <2> QED BY <2>4, <2>5
<1> QED BY <1>1, FieldInvariant, PTL
=============================================================================
