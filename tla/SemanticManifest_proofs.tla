---------------------- MODULE SemanticManifest_proofs ----------------------
(***************************************************************************)
(* What holds of the units and the manifest of a file, for every file: a   *)
(* key stands for one definition for good and the stored registry is an    *)
(* early state of the extractor's, so what it says of a value's unit is    *)
(* true, and what is served as comparable is on one scale.                 *)
(***************************************************************************)
EXTENDS SemanticManifest, Integers, FiniteSetTheorems, SequenceTheorems, WellFoundedInduction, TLAPS

(***************************************************************************)
(* Numbers: least and greatest members, and the whole of an interval.      *)
(***************************************************************************)
LEMMA Least ==
  ASSUME NEW S, S \subseteq Nat, S # {}
  PROVE  \E x \in S : \A y \in S : x <= y
<1> DEFINE R == OpToRel(<, Nat)
<1>1. IsWellFoundedOn(R, Nat) BY NatLessThanWellFounded
<1> HIDE DEF R
<1>2. PICK x \in S : \A y \in S : ~(<<y, x>> \in R) BY <1>1, WFMin
<1>3. \A y \in S : x <= y
  <2> TAKE y \in S
  <2>1. x \in Nat /\ y \in Nat OBVIOUS
  <2>2. ~(y < x) BY <1>2, <2>1 DEF R, OpToRel
  <2> QED BY <2>1, <2>2
<1> QED BY <1>3

LEMMA Greatest ==
  ASSUME NEW N \in Nat, NEW S, S \subseteq 1 .. N, S # {}
  PROVE  \E x \in S : \A y \in S : y <= x
<1> DEFINE T == {n \in Nat : N - n \in S}
<1>1. T \subseteq Nat OBVIOUS
<1>2. T # {}
  <2>1. PICK x \in S : TRUE OBVIOUS
  <2>2. N - x \in Nat /\ N - (N - x) = x BY <2>1
  <2> QED BY <2>1, <2>2
<1>3. PICK n \in T : \A m \in T : n <= m
  <2> HIDE DEF T
  <2> QED BY <1>1, <1>2, Least
<1>4. ASSUME NEW y \in S PROVE y <= N - n
  <2>1. N - y \in T
    <3>1. y \in Int /\ N - y \in Nat /\ N - (N - y) = y OBVIOUS
    <3> QED BY <3>1
  <2>2. n <= N - y
    <3> HIDE DEF T
    <3> QED BY <1>3, <2>1
  <2> QED BY <1>3, <2>2
<1> QED BY <1>3, <1>4

LEMMA UpTo ==
  ASSUME NEW N \in Nat, NEW G, G \subseteq 0 .. N, 0 \in G, \A n \in 1 .. N : n - 1 \in G => n \in G
  PROVE  G = 0 .. N
<1> DEFINE B == (0 .. N) \ G
<1>1. ASSUME B # {} PROVE FALSE
  <2>1. B \subseteq Nat OBVIOUS
  <2>2. PICK n \in B : \A x \in B : n <= x
    <3> HIDE DEF B
    <3> QED BY <1>1, <2>1, Least
  <2>3. n \in 1 .. N OBVIOUS
  <2>4. n - 1 \notin B
    <3>1. ~(n <= n - 1) BY <2>3
    <3> HIDE DEF B
    <3> QED BY <2>2, <3>1
  <2>5. n - 1 \in G BY <2>3, <2>4
  <2> QED BY <2>3, <2>5
<1> QED BY <1>1

----------------------------------------------------------------------------
(***************************************************************************)
(* The registry.  The keys of a slug are numbered without gaps, each with  *)
(* a definition of its own; registering adds at most one, and a definition *)
(* that is there keeps its key.                                            *)
(***************************************************************************)
Kept(reg) ==
  /\ IsFiniteSet(DOMAIN reg)
  /\ \A k \in DOMAIN reg :
       /\ reg[k] # None /\ k[2] \in Nat
       /\ \A m \in 1 .. k[2] - 1 : <<k[1], m>> \in DOMAIN reg /\ reg[<<k[1], m>>] # reg[k]

Grown(new, old) == \A k \in DOMAIN old : k \in DOMAIN new /\ new[k] = old[k]

KeyFor(reg, k, d) == k \in DOMAIN reg /\ reg[k] = d /\ k = <<Slug(d), k[2]>> /\ k[2] \in Nat \ {0}

\* There is a key for every definition: its numbers cannot all be taken.
LEMMA KeyIsFound ==
  ASSUME NEW reg, Kept(reg), NEW d
  PROVE  \E n \in Nat \ {0} : /\ KeyOf(reg, d) = <<Slug(d), n>> /\ Fits(reg, <<Slug(d), n>>, d)
                              /\ \A m \in 1 .. n - 1 : ~Fits(reg, <<Slug(d), m>>, d)
<1> DEFINE c == Cardinality(DOMAIN reg)
           Tries == 1 .. c + 1
           Free == {n \in Tries : Fits(reg, <<Slug(d), n>>, d)}
           f == [n \in Tries |-> <<Slug(d), n>>]
<1>1. c \in Nat /\ IsFiniteSet(DOMAIN reg) BY FS_CardinalityType DEF Kept
<1>2. IsFiniteSet(Tries) /\ Cardinality(Tries) = c + 1
  <2>1. c + 1 \in Int /\ 1 \in Int /\ (IF 1 > c + 1 THEN 0 ELSE (c + 1) - 1 + 1) = c + 1 BY <1>1
  <2> HIDE DEF c
  <2> QED BY <2>1, FS_Interval
<1>3. Free # {}
  <2> SUFFICES ASSUME Free = {} PROVE FALSE OBVIOUS
  <2>1. \A n \in Tries : f[n] \in DOMAIN reg BY DEF Fits
  <2>2. \A m, n \in Tries : f[m] = f[n] => m = n OBVIOUS
  <2>3. DOMAIN f = Tries OBVIOUS
  <2>4. f \in [Tries -> DOMAIN reg] BY <2>1
  <2> HIDE DEF f, Tries
  <2>5. f \in Injection(Tries, DOMAIN reg) BY <2>2, <2>4 DEF Injection, IsInjective
  <2>6. Cardinality(Tries) <= c BY <1>1, <1>2, <2>5, FS_Injection
  <2> QED BY <1>1, <1>2, <2>6
<1>4. PICK n \in Free : \A m \in Free : n <= m
  <2>1. Free \subseteq Nat BY <1>1
  <2> HIDE DEF Free
  <2> QED BY <1>3, <2>1, Least
<1>5. n \in Tries /\ n \in Nat \ {0} /\ Fits(reg, <<Slug(d), n>>, d) BY <1>1, <1>4
<1>6. \A m \in 1 .. n - 1 : m \in Tries /\ ~Fits(reg, <<Slug(d), m>>, d)
  <2> SUFFICES ASSUME NEW m \in 1 .. n - 1 PROVE m \in Tries /\ m \notin Free OBVIOUS
  <2>1. m \in Tries /\ ~(n <= m) BY <1>1, <1>5
  <2> HIDE DEF Free
  <2> QED BY <1>4, <2>1
<1> HIDE DEF Free
<1> DEFINE Right(m) == /\ Fits(reg, <<Slug(d), m>>, d)
                       /\ \A i \in 1 .. m - 1 : ~Fits(reg, <<Slug(d), i>>, d)
<1>7. KeyOf(reg, d) = <<Slug(d), CHOOSE m \in Tries : Right(m)>> BY DEF KeyOf
<1>8. Right(n) BY <1>5, <1>6
<1> DEFINE e == CHOOSE m \in Tries : Right(m)
<1>9. e \in Tries /\ Right(e)
  <2> HIDE DEF Right, Tries
  <2> QED BY <1>5, <1>8
<1>10. KeyOf(reg, d) = <<Slug(d), e>> BY <1>7
<1> HIDE DEF e
<1>11. e \in Nat \ {0} BY <1>1, <1>9
<1> QED BY <1>9, <1>10, <1>11

LEMMA RegisterKeeps ==
  ASSUME NEW reg, Kept(reg), NEW u
  PROVE  LET r == Register(reg, u)
         IN  /\ Kept(r.reg) /\ Grown(r.reg, reg)
             /\ Definition(u) = None => r.key = None /\ r.reg = reg
             /\ Definition(u) # None => KeyFor(r.reg, r.key, Definition(u))
<1> DEFINE d == Definition(u)
           k == KeyOf(reg, d)
           new == [x \in DOMAIN reg \cup {k} |-> IF x = k THEN d ELSE reg[x]]
<1>1. CASE d = None
  <2>1. Register(reg, u) = [reg |-> reg, key |-> None] BY <1>1 DEF Register
  <2>2. Register(reg, u).reg = reg /\ Register(reg, u).key = None BY <2>1
  <2> QED BY <1>1, <2>2 DEF Grown
<1>2. CASE d # None
  <2>1. Register(reg, u) = [reg |-> new, key |-> k] BY <1>2 DEF Register
  <2> HIDE DEF d
  <2>2. PICK n \in Nat \ {0} : /\ k = <<Slug(d), n>> /\ Fits(reg, <<Slug(d), n>>, d)
                               /\ \A m \in 1 .. n - 1 : ~Fits(reg, <<Slug(d), m>>, d)
    BY KeyIsFound
  <2> HIDE DEF k
  <2>3. k \in DOMAIN reg => reg[k] = d BY <2>2 DEF Fits
  <2>4. DOMAIN new = DOMAIN reg \cup {k} /\ new[k] = d /\ \A x \in DOMAIN reg : new[x] = reg[x] BY <2>3
  <2>5. k[1] = Slug(d) /\ k[2] = n BY <2>2
  <2> HIDE DEF new
  <2>6. IsFiniteSet(DOMAIN new) BY <2>4, FS_AddElement DEF Kept
  <2>7. ASSUME NEW x \in DOMAIN new
        PROVE  /\ new[x] # None /\ x[2] \in Nat
               /\ \A m \in 1 .. x[2] - 1 : <<x[1], m>> \in DOMAIN new /\ new[<<x[1], m>>] # new[x]
    <3>1. CASE x \in DOMAIN reg BY <2>4, <3>1 DEF Kept
    <3>2. CASE x = k
      <4>1. \A m \in 1 .. n - 1 : <<Slug(d), m>> \in DOMAIN reg /\ reg[<<Slug(d), m>>] # d
        BY <2>2 DEF Fits
      <4> QED BY <1>2, <2>4, <2>5, <3>2, <4>1
    <3> QED BY <2>4, <3>1, <3>2
  <2>8. Kept(new) BY <2>6, <2>7 DEF Kept
  <2>9. Grown(new, reg) BY <2>4 DEF Grown
  <2>10. KeyFor(new, k, d) BY <2>2, <2>4, <2>5 DEF KeyFor
  <2>11. Register(reg, u).reg = new /\ Register(reg, u).key = k BY <2>1
  <2> QED BY <1>2, <2>8, <2>9, <2>10, <2>11 DEF d
<1> QED BY <1>1, <1>2

LEMMA RegisterAgain ==
  ASSUME NEW reg, Kept(reg), NEW u, Definition(u) # None, NEW k, KeyFor(reg, k, Definition(u))
  PROVE  Register(reg, u).key = k
<1> DEFINE d == Definition(u)
<1>1. Register(reg, u).key = KeyOf(reg, d) BY DEF Register
<1> HIDE DEF d
<1>2. PICK n \in Nat \ {0} : /\ KeyOf(reg, d) = <<Slug(d), n>> /\ Fits(reg, <<Slug(d), n>>, d)
                             /\ \A m \in 1 .. n - 1 : ~Fits(reg, <<Slug(d), m>>, d)
  BY KeyIsFound
<1>3. k \in DOMAIN reg /\ reg[k] = d /\ k = <<Slug(d), k[2]>> /\ k[2] \in Nat \ {0} /\ k[1] = Slug(d)
  BY DEF KeyFor, d
<1> DEFINE o == k[2]
<1>4. k = <<Slug(d), o>> /\ o \in Nat \ {0} BY <1>3
<1>5. \A m \in 1 .. o - 1 : <<Slug(d), m>> \in DOMAIN reg /\ reg[<<Slug(d), m>>] # d BY <1>3 DEF Kept
<1>6. Fits(reg, <<Slug(d), o>>, d) BY <1>3 DEF Fits
<1> HIDE DEF o
<1>7. ~(o < n)
  <2> SUFFICES ASSUME o < n PROVE FALSE OBVIOUS
  <2>1. o \in 1 .. n - 1 BY <1>2, <1>4
  <2> QED BY <1>2, <1>6, <2>1
<1>8. ~(n < o)
  <2> SUFFICES ASSUME n < o PROVE FALSE OBVIOUS
  <2>1. n \in 1 .. o - 1 BY <1>2, <1>4
  <2> QED BY <1>2, <1>5, <2>1 DEF Fits
<1>9. n = o BY <1>2, <1>4, <1>7, <1>8
<1> QED BY <1>1, <1>2, <1>4, <1>9

LEMMA GrownTwice ==
  ASSUME NEW a, NEW b, NEW c, Grown(b, a), Grown(c, b)
  PROVE  Grown(c, a)
BY DEF Grown

LEMMA KeyStays ==
  ASSUME NEW a, NEW b, Grown(b, a), NEW k, NEW d, KeyFor(a, k, d)
  PROVE  KeyFor(b, k, d)
BY DEF Grown, KeyFor

(***************************************************************************)
(* Many units.  The recursion is well founded, so there is a registry      *)
(* after each of them, in which each that came before has its key.         *)
(***************************************************************************)
AfterUpTo(f, k, reg, units) == f = [n \in 0 .. k |-> IF n = 0 THEN reg ELSE Register(f[n - 1], units[n]).reg]

LEMMA AfterExists ==
  ASSUME NEW reg, NEW units, Len(units) \in Nat
  PROVE  \E f : AfterUpTo(f, Len(units), reg, units)
<1> DEFINE N == Len(units)
           Step(n, r) == Register(r, units[n]).reg
           G == {k \in 0 .. N : \E f : AfterUpTo(f, k, reg, units)}
<1>1. 0 \in G
  <2> DEFINE f == [n \in 0 .. 0 |-> reg]
  <2>1. f = [n \in 0 .. 0 |-> IF n = 0 THEN reg ELSE Step(n, f[n - 1])]
    <3>1. \A n \in 0 .. 0 : n = 0 OBVIOUS
    <3> QED BY <3>1
  <2> HIDE DEF f
  <2>2. AfterUpTo(f, 0, reg, units) BY <2>1 DEF AfterUpTo
  <2> QED BY <2>2
<1>2. ASSUME NEW k \in 1 .. N, k - 1 \in G PROVE k \in G
  <2>1. PICK f : AfterUpTo(f, k - 1, reg, units) BY <1>2
  <2> DEFINE g == [n \in 0 .. k |-> IF n = k THEN Step(k, f[k - 1]) ELSE f[n]]
  <2>2. f = [n \in 0 .. k - 1 |-> IF n = 0 THEN reg ELSE Step(n, f[n - 1])] BY <2>1 DEF AfterUpTo
  <2>3. \A n \in 0 .. k - 1 : f[n] = IF n = 0 THEN reg ELSE Step(n, f[n - 1]) BY <2>2
  <2> HIDE DEF Step
  <2>4. ASSUME NEW n \in 0 .. k PROVE g[n] = IF n = 0 THEN reg ELSE Step(n, g[n - 1])
    <3>1. CASE n = k
      <4>1. k - 1 \in 0 .. k /\ k - 1 # k /\ k # 0 OBVIOUS
      <4>2. g[k - 1] = f[k - 1] /\ g[k] = Step(k, f[k - 1]) BY <4>1
      <4> HIDE DEF g
      <4> QED BY <3>1, <4>1, <4>2
    <3>2. CASE n # k
      <4>1. n \in 0 .. k - 1 /\ g[n] = f[n] BY <3>2
      <4>2. n # 0 => n - 1 \in 0 .. k /\ n - 1 # k BY <4>1
      <4>3. n # 0 => g[n - 1] = f[n - 1] BY <4>2
      <4> HIDE DEF g
      <4> QED BY <2>3, <4>1, <4>3
    <3> QED BY <3>1, <3>2
  <2>5. DOMAIN g = 0 .. k /\ g = [n \in 0 .. k |-> g[n]] OBVIOUS
  <2> HIDE DEF g
  <2>6. g = [n \in 0 .. k |-> IF n = 0 THEN reg ELSE Step(n, g[n - 1])] BY <2>4, <2>5
  <2>7. AfterUpTo(g, k, reg, units) BY <2>6 DEF AfterUpTo, Step
  <2> QED BY <2>7
<1>3. N \in Nat /\ G \subseteq 0 .. N OBVIOUS
<1>4. N \in 0 .. N BY <1>3
<1> HIDE DEF G, N
<1>5. G = 0 .. N BY <1>1, <1>2, <1>3, UpTo
<1>6. N \in G BY <1>4, <1>5
<1> QED BY <1>6 DEF G, N

LEMMA AllRegistered ==
  ASSUME NEW reg, Kept(reg), NEW units, Len(units) \in Nat
  PROVE  LET all == RegisterAll(reg, units)
         IN  /\ Kept(all) /\ Grown(all, reg)
             /\ \A i \in 1 .. Len(units) : Definition(units[i]) # None =>
                  KeyFor(all, Register(all, units[i]).key, Definition(units[i]))
<1> DEFINE N == Len(units)
           f == CHOOSE g : AfterUpTo(g, N, reg, units)
           Step(n, r) == Register(r, units[n]).reg
<1>1. AfterUpTo(f, N, reg, units) BY AfterExists
<1>2. RegisterAll(reg, units) = f[N] BY DEF RegisterAll, AfterUpTo
<1> HIDE DEF f
<1>3. f = [n \in 0 .. N |-> IF n = 0 THEN reg ELSE Step(n, f[n - 1])] BY <1>1 DEF AfterUpTo
<1> HIDE DEF Step
<1>4. \A n \in 0 .. N : f[n] = IF n = 0 THEN reg ELSE Step(n, f[n - 1]) BY <1>3
<1>5. N \in Nat /\ 0 \in 0 .. N /\ N \in 0 .. N OBVIOUS
<1> HIDE DEF N
<1>6. f[0] = reg BY <1>4, <1>5
<1>7. \A n \in 1 .. N : n \in 0 .. N /\ n # 0 /\ n - 1 \in 0 .. N BY <1>5
<1>8. \A n \in 1 .. N : f[n] = Register(f[n - 1], units[n]).reg BY <1>4, <1>7 DEF Step
<1> DEFINE Has(n) == \A i \in 1 .. n : Definition(units[i]) # None => \E k : KeyFor(f[n], k, Definition(units[i]))
           G == {n \in 0 .. N : Kept(f[n]) /\ Grown(f[n], reg) /\ Has(n)}
<1>9. 0 \in G
  <2>1. \A i \in 1 .. 0 : FALSE OBVIOUS
  <2> QED BY <1>5, <1>6, <2>1 DEF Grown
<1>10. ASSUME NEW n \in 1 .. N, n - 1 \in G PROVE n \in G
  <2>1. Kept(f[n - 1]) /\ Grown(f[n - 1], reg) /\ Has(n - 1) BY <1>10
  <2> DEFINE r == Register(f[n - 1], units[n])
  <2>2. /\ Kept(r.reg) /\ Grown(r.reg, f[n - 1])
        /\ Definition(units[n]) # None => KeyFor(r.reg, r.key, Definition(units[n]))
    BY <2>1, RegisterKeeps
  <2>3. f[n] = r.reg BY <1>8
  <2> HIDE DEF r
  <2>4. Kept(f[n]) /\ Grown(f[n], reg) BY <2>1, <2>2, <2>3, GrownTwice
  <2>5. ASSUME NEW i \in 1 .. n, Definition(units[i]) # None PROVE \E k : KeyFor(f[n], k, Definition(units[i]))
    <3>1. CASE i = n BY <2>2, <2>3, <2>5, <3>1
    <3>2. CASE i # n
      <4>1. i \in 1 .. n - 1 BY <3>2
      <4>2. PICK k : KeyFor(f[n - 1], k, Definition(units[i])) BY <2>1, <2>5, <4>1
      <4> QED BY <2>2, <2>3, <4>2, KeyStays
    <3> QED BY <3>1, <3>2
  <2> QED BY <1>7, <2>4, <2>5
<1>11. G \subseteq 0 .. N OBVIOUS
<1>12. G = 0 .. N
  <2> HIDE DEF G
  <2> QED BY <1>5, <1>9, <1>10, <1>11, UpTo
<1>13. Kept(f[N]) /\ Grown(f[N], reg) /\ Has(N) BY <1>5, <1>12
<1>14. ASSUME NEW i \in 1 .. N, Definition(units[i]) # None
       PROVE  KeyFor(f[N], Register(f[N], units[i]).key, Definition(units[i]))
  <2>1. PICK k : KeyFor(f[N], k, Definition(units[i])) BY <1>13, <1>14
  <2>2. Register(f[N], units[i]).key = k BY <1>13, <1>14, <2>1, RegisterAgain
  <2> QED BY <2>1, <2>2
<1> QED BY <1>2, <1>13, <1>14 DEF N

\* The default of a measure stands for the definition the project declares.
DefaultsHold(registered, units) ==
  \A m \in Measures :
    LET d == Definition(Declared(units, m))
    IN IF d = None THEN registered.defaults[m] = None
       ELSE KeyFor(registered.reg, registered.defaults[m], d)

LEMMA DefaultsAreDeclared ==
  ASSUME NEW units
  PROVE  LET r == DefaultsOf(units)
         IN  r = [reg |-> r.reg, defaults |-> r.defaults] /\ Kept(r.reg) /\ DefaultsHold(r, units)
<1> DEFINE declared == [i \in DOMAIN MeasureOrder |-> Declared(units, MeasureOrder[i])]
           all == RegisterAll(Empty, declared)
           defaults == [m \in Measures |-> Register(all, Declared(units, m)).key]
<1>1. DefaultsOf(units) = [reg |-> all, defaults |-> defaults] BY DEF DefaultsOf
<1>2. Kept(Empty)
  <2>1. DOMAIN Empty = {} BY DEF Empty
  <2> QED BY <2>1, FS_EmptySet DEF Kept
<1>3. Len(declared) \in Nat /\ \A i \in 1 .. Len(MeasureOrder) : i \in 1 .. Len(declared)
  <2> DEFINE X == {declared[i] : i \in DOMAIN MeasureOrder}
  <2>1. Len(MeasureOrder) \in Nat /\ DOMAIN MeasureOrder = 1 .. Len(MeasureOrder) BY MeasuresInOrder
  <2>2. declared \in [1 .. Len(MeasureOrder) -> X] /\ DOMAIN declared = 1 .. Len(MeasureOrder) BY <2>1
  <2> HIDE DEF declared, X
  <2>3. declared \in Seq(X) BY <2>1, <2>2
  <2>4. Len(declared) \in Nat /\ DOMAIN declared = 1 .. Len(declared) BY <2>3, LenProperties
  <2> QED BY <2>2, <2>4
<1> HIDE DEF all
<1>4. /\ Kept(all)
      /\ \A i \in 1 .. Len(declared) : Definition(declared[i]) # None =>
           KeyFor(all, Register(all, declared[i]).key, Definition(declared[i]))
  <2> HIDE DEF declared
  <2> QED BY <1>2, <1>3, AllRegistered DEF all
<1>5. ASSUME NEW m \in Measures
      PROVE  LET d == Definition(Declared(units, m))
             IN IF d = None THEN defaults[m] = None ELSE KeyFor(all, defaults[m], d)
  <2>1. PICK i \in DOMAIN MeasureOrder : MeasureOrder[i] = m BY DEF Measures
  <2>2. declared[i] = Declared(units, m) /\ i \in 1 .. Len(declared) BY <1>3, <2>1, MeasuresInOrder
  <2>3. defaults[m] = Register(all, Declared(units, m)).key OBVIOUS
  <2> HIDE DEF declared, defaults
  <2>4. Definition(Declared(units, m)) = None => Register(all, Declared(units, m)).key = None
    BY <1>4, RegisterKeeps
  <2> QED BY <1>4, <2>2, <2>3, <2>4
<1> HIDE DEF defaults
<1> QED BY <1>1, <1>4, <1>5 DEF DefaultsHold

----------------------------------------------------------------------------
(***************************************************************************)
(* The rows.  A cell has the measure of the last typed item of its field,  *)
(* and its override is the key of that item's own unit; both stay true     *)
(* while the registry grows.                                               *)
(***************************************************************************)
CellHolds(reg, items, p, c) ==
  LET typed == Typed(items, p)
      unit == Definition(items[LastOf(typed)].unit)
  IN IF typed = {} THEN c.measure = None
     ELSE /\ c.measure = items[LastOf(typed)].measure
          /\ IF unit = None THEN c.override = None ELSE KeyFor(reg, c.override, unit)

Paths(o) == {o.items[i].path : i \in {j \in DOMAIN o.items : o.items[j].path[1] \notin o.failed}}

RowHolds(reg, o, row) ==
  /\ row.class = o.class /\ row.failed = o.failed /\ DOMAIN row.cells = Paths(o)
  /\ \A p \in Paths(o) : CellHolds(reg, o.items, p, row.cells[p])

LEMMA RowStays ==
  ASSUME NEW a, NEW b, Grown(b, a), NEW o, NEW row, RowHolds(a, o, row)
  PROVE  RowHolds(b, o, row)
<1>1. ASSUME NEW p, NEW c, CellHolds(a, o.items, p, c) PROVE CellHolds(b, o.items, p, c)
  BY <1>1, KeyStays DEF CellHolds
<1> QED BY <1>1 DEF RowHolds

\* What is last among the places of a sequence is one of them.
LEMMA LastIsThere ==
  ASSUME NEW N \in Nat, NEW places, places \subseteq 1 .. N, places # {}
  PROVE  LastOf(places) \in places
<1>1. PICK x \in places : \A y \in places : y <= x BY Greatest
<1> QED BY <1>1 DEF LastOf

\* What is last among all and is one of a part is last in the part.
LEMMA LastOfPart ==
  ASSUME NEW N \in Nat, NEW places, places \subseteq 1 .. N,
         NEW part, part \subseteq places, LastOf(places) \in part
  PROVE  LastOf(part) = LastOf(places)
<1> DEFINE last == LastOf(places)
<1>1. PICK x \in places : \A y \in places : y <= x BY Greatest
<1>2. last \in places /\ \A y \in places : y <= last BY <1>1 DEF LastOf
<1>3. LastOf(part) \in part /\ \A y \in part : y <= LastOf(part)
  <2>1. \A y \in part : y <= last BY <1>2
  <2> HIDE DEF last
  <2>2. last \in part BY DEF last
  <2> QED BY <2>1, <2>2 DEF LastOf
<1>4. last <= LastOf(part) /\ LastOf(part) <= last BY <1>2, <1>3
<1>5. last \in Nat /\ LastOf(part) \in Nat
  <2>1. last \in 1 .. N /\ LastOf(part) \in 1 .. N
    <3> HIDE DEF last
    <3> QED BY <1>2, <1>3
  <2> HIDE DEF last
  <2> QED BY <2>1
<1> HIDE DEF last
<1>6. LastOf(part) = last BY <1>4, <1>5
<1> QED BY <1>6 DEF last

IsRead(o) == /\ Len(o.items) \in Nat /\ DOMAIN o.items = 1 .. Len(o.items)

LEMMA RowIsExtracted ==
  ASSUME NEW reg, Kept(reg), NEW o, IsRead(o)
  PROVE  LET x == Extracted(reg, o)
         IN Kept(x.reg) /\ Grown(x.reg, reg) /\ RowHolds(x.reg, o, x.row)
<1> DEFINE kept == {i \in DOMAIN o.items : o.items[i].path[1] \notin o.failed}
           units == [i \in DOMAIN o.items |-> IF i \in kept /\ o.items[i].measure # None THEN o.items[i].unit ELSE None]
           added == RegisterAll(reg, units)
           cells == [p \in {o.items[i].path : i \in kept} |-> Cell(added, o.items, p)]
           row == [class |-> o.class, failed |-> o.failed, materials |-> o.materials,
                   references |-> o.references, storey |-> o.storey, cells |-> cells]
<1>1. Extracted(reg, o) = [reg |-> added, row |-> row] BY DEF Extracted
<1>2. /\ row.class = o.class /\ row.failed = o.failed /\ row.cells = cells /\ DOMAIN cells = Paths(o)
      /\ \A p \in Paths(o) : cells[p] = Cell(added, o.items, p)
  BY DEF Paths
<1>3. Extracted(reg, o).reg = added /\ Extracted(reg, o).row = row BY <1>1
<1> HIDE DEF cells, row
<1> DEFINE N == Len(o.items)
<1>4. N \in Nat /\ DOMAIN o.items = 1 .. N BY DEF IsRead
<1> HIDE DEF N
<1>5. Len(units) \in Nat /\ Len(units) = N
  <2> DEFINE X == {units[i] : i \in 1 .. N}
  <2>1. units \in [1 .. N -> X] /\ DOMAIN units = 1 .. N BY <1>4
  <2> HIDE DEF units, X
  <2>2. units \in Seq(X) BY <1>4, <2>1
  <2>3. Len(units) \in Nat /\ DOMAIN units = 1 .. Len(units) BY <2>2, LenProperties
  <2>4. 1 .. N = 1 .. Len(units) BY <2>1, <2>3
  <2> QED BY <1>4, <2>3, <2>4
<1>6. \A i \in kept : o.items[i].measure # None => units[i] = o.items[i].unit OBVIOUS
<1> HIDE DEF units
<1>7. /\ Kept(added) /\ Grown(added, reg)
      /\ \A i \in 1 .. Len(units) : Definition(units[i]) # None =>
           KeyFor(added, Register(added, units[i]).key, Definition(units[i]))
  BY <1>5, AllRegistered
<1> HIDE DEF added
<1>8. ASSUME NEW p \in Paths(o) PROVE CellHolds(added, o.items, p, Cell(added, o.items, p))
  <2> DEFINE typed == Typed(o.items, p)
             last == o.items[LastOf(typed)]
             c == Cell(added, o.items, p)
  <2>1. /\ c.measure = IF typed = {} THEN None ELSE last.measure
        /\ c.override = IF typed = {} THEN None ELSE Register(added, last.unit).key
    BY DEF Cell
  <2>2. CASE typed = {} BY <2>1, <2>2 DEF CellHolds
  <2>3. CASE typed # {}
    <3>1. typed \subseteq 1 .. N BY <1>4 DEF Typed, Of
    <3>2. LastOf(typed) \in typed BY <1>4, <2>3, <3>1, LastIsThere
    <3>3. p[1] \notin o.failed BY <1>8 DEF Paths
    <3>4. LastOf(typed) \in kept /\ last.measure # None /\ last.path = p BY <3>2, <3>3 DEF Typed, Of
    <3>5. units[LastOf(typed)] = last.unit BY <1>6, <3>4
    <3>6. LastOf(typed) \in 1 .. Len(units) BY <1>5, <3>1, <3>2
    <3> DEFINE d == Definition(last.unit)
    <3>7. d # None => KeyFor(added, c.override, d) BY <1>7, <2>1, <2>3, <3>5, <3>6
    <3>8. d = None => c.override = None BY <1>7, <2>1, <2>3, RegisterKeeps
    <3> HIDE DEF c
    <3> QED BY <2>1, <2>3, <3>7, <3>8 DEF CellHolds, c
  <2> QED BY <2>2, <2>3
<1>9. RowHolds(added, o, row) BY <1>2, <1>8 DEF RowHolds
<1> QED BY <1>3, <1>7, <1>9

----------------------------------------------------------------------------
(***************************************************************************)
(* The invariant.  Imported: the registry keeps its keys, its defaults are *)
(* the file's, and the rows are those of the first objects of the file.    *)
(* Served: what carries the version the backend reads was built from this  *)
(* file; what was in place before does not carry it.                       *)
(***************************************************************************)
IsList(s) == Len(s) \in Nat /\ DOMAIN s = 1 .. Len(s) /\ s = [i \in 1 .. Len(s) |-> s[i]]

Progress ==
  /\ file \in Files /\ IsList(db) /\ Len(db) <= Len(file.objects)
  /\ phase = "objects" => Len(db) < Len(file.objects)
  /\ phase \in {"build", "done"} => Len(db) = Len(file.objects)

Registered ==
  /\ registry = [reg |-> registry.reg, defaults |-> registry.defaults]
  /\ stored = [reg |-> stored.reg, defaults |-> stored.defaults]
  /\ Kept(registry.reg) /\ Kept(stored.reg)
  /\ Grown(registry.reg, stored.reg)
  /\ phase # "units" \/ db # <<>> => DefaultsHold(stored, file.units)

RowsHold == \A o \in DOMAIN db : RowHolds(registry.reg, file.objects[o], db[o])

Imported == Progress /\ Registered /\ RowsHold

OnOneScale(a) == a.schema = Reads
                 /\ \A c \in Concepts(a.content) : c.unit_available => OneScale(<<c.kind, c.set, c.field>>)

InPlace == /\ phase = "done" => artifact.content = Built
           /\ Usable(artifact) => OnOneScale(artifact)
InCache == cache # None => OnOneScale(cache)
InHand == /\ request = [r \in Requests |-> request[r]]
          /\ \A r \in Requests : request[r].at \in {"loaded", "served"} => OnOneScale(request[r].got)

IInv == Imported /\ InPlace /\ InCache /\ InHand

\* What is known of an object of the file.
LEMMA ObjectIsRead ==
  ASSUME NEW f \in Files, NEW o \in DOMAIN f.objects
  PROVE  IsRead(f.objects[o]) /\ f.objects[o].failed \subseteq ContainerKinds
BY FilesAreRead DEF IsRead

\* A unit the file mentions has no key that could be taken for none.
LEMMA KeyIsSome ==
  ASSUME NEW f \in Files, NEW u \in Mentioned(f), Definition(u) # None,
         NEW reg, NEW k, KeyFor(reg, k, Definition(u))
  PROVE  k # None
BY KeysAreKeys DEF KeyFor

LEMMA DeclaredIsMentioned ==
  ASSUME NEW f \in Files, NEW m, Definition(Declared(f.units, m)) # None
  PROVE  Declared(f.units, m) \in Mentioned(f)
<1> DEFINE First(i) == f.units[i].type = m /\ \A j \in 1 .. i - 1 : f.units[j].type # m
           Ones == {i \in DOMAIN f.units : f.units[i].type = m}
<1>1. Len(f.units) \in Nat /\ DOMAIN f.units = 1 .. Len(f.units) BY FilesAreRead
<1>2. Ones # {}
  <2> SUFFICES ASSUME Ones = {} PROVE FALSE OBVIOUS
  <2>1. Declared(f.units, m) = None BY DEF Declared
  <2> QED BY <2>1 DEF Definition
<1>3. PICK i \in Ones : \A j \in Ones : i <= j
  <2>1. Ones \subseteq Nat BY <1>1
  <2> HIDE DEF Ones
  <2> QED BY <1>2, <2>1, Least
<1>4. \A j \in 1 .. i - 1 : j \in DOMAIN f.units /\ ~(i <= j) BY <1>1, <1>3
<1>5. First(i) BY <1>3, <1>4
<1> DEFINE e == CHOOSE j \in DOMAIN f.units : First(j)
<1>6. e \in DOMAIN f.units
  <2> HIDE DEF First
  <2> QED BY <1>3, <1>5
<1>7. Declared(f.units, m) = f.units[e] BY <1>2 DEF Declared
<1> HIDE DEF e
<1> QED BY <1>6, <1>7 DEF Mentioned

\* A value that is not masked is that of the last typed item.
LEMMA ShownIsTyped ==
  ASSUME file \in Files, NEW o \in DOMAIN file.objects, NEW p,
         Typed(file.objects[o].items, p) # {}, ~Masked(o, p)
  PROVE  Shown(o, p) = file.objects[o].items[LastOf(Typed(file.objects[o].items, p))]
<1> DEFINE x == file.objects[o]
           all == Of(x.items, p)
           typed == Typed(x.items, p)
<1>1. IsRead(x) BY ObjectIsRead
<1>2. all \subseteq 1 .. Len(x.items) /\ typed \subseteq all /\ all # {} /\ Len(x.items) \in Nat
  BY <1>1 DEF IsRead, Typed, Of
<1>3. LastOf(all) \in all
  <2> HIDE DEF all, typed
  <2> QED BY <1>2, LastIsThere
<1>4. LastOf(all) \in typed BY <1>3 DEF Masked, Shown, Typed
<1>5. LastOf(typed) = LastOf(all)
  <2> HIDE DEF all, typed
  <2> QED BY <1>2, <1>4, LastOfPart
<1> QED BY <1>5 DEF Shown

\* What is stored says the unit each value was written in, or nothing.
LEMMA RowsAreFaithful ==
  ASSUME Imported
  PROVE  UnitsAreFaithful
<1> SUFFICES ASSUME NEW o \in DOMAIN db, NEW p \in DOMAIN db[o].cells,
                    db[o].cells[p].measure # None, ~Masked(o, p)
             PROVE  LET k == Effective(db[o].cells[p], stored.defaults)
                        e == Definition(UnitOf(Shown(o, p)))
                    IN /\ k = None <=> e = None
                       /\ k \in DOMAIN stored.reg \ {None} => stored.reg[k] = e
  BY DEF UnitsAreFaithful
<1> DEFINE c == db[o].cells[p]
           x == file.objects[o]
           typed == Typed(x.items, p)
           last == x.items[LastOf(typed)]
           d == Definition(last.unit)
           k == Effective(c, stored.defaults)
<1>1. file \in Files /\ o \in DOMAIN file.objects /\ db # <<>>
  <2>1. DOMAIN db = 1 .. Len(db) /\ Len(db) \in Nat /\ Len(db) <= Len(file.objects) /\ file \in Files
    BY DEF Imported, Progress, IsList
  <2>2. DOMAIN file.objects = 1 .. Len(file.objects) /\ Len(file.objects) \in Nat BY <2>1, FilesAreRead
  <2> QED BY <2>1, <2>2
<1>2. CellHolds(registry.reg, x.items, p, c)
  BY DEF Imported, RowsHold, RowHolds
<1>3. typed # {} /\ c.measure = last.measure /\ IF d = None THEN c.override = None ELSE KeyFor(registry.reg, c.override, d)
  BY <1>2 DEF CellHolds
<1>4. Shown(o, p) = last BY <1>1, <1>3, ShownIsTyped
<1>5. LastOf(typed) \in typed
  <2>1. IsRead(x) BY <1>1, ObjectIsRead
  <2>2. typed \subseteq 1 .. Len(x.items) BY <2>1 DEF IsRead, Typed, Of
  <2> QED BY <1>3, <2>1, <2>2, LastIsThere DEF IsRead
<1>6. LastOf(typed) \in DOMAIN x.items /\ last.measure # None BY <1>5 DEF Typed, Of
<1>7. /\ last.measure \in Measures
      /\ last.unit # None => d # None
  BY <1>1, <1>6, FilesAreRead
<1>8. last.unit \in Mentioned(file)
  <2>1. last.unit \in {x.items[i].unit : i \in DOMAIN x.items} BY <1>6
  <2> HIDE DEF last
  <2> QED BY <1>1, <2>1 DEF Mentioned
<1>9. CASE last.unit # None
  <2>1. KeyFor(registry.reg, c.override, d) BY <1>3, <1>7, <1>9
  <2>2. c.override # None
    <3> HIDE DEF c, last
    <3> QED BY <1>1, <1>7, <1>8, <1>9, <2>1, KeyIsSome
  <2>3. k = c.override BY <2>2 DEF Effective
  <2>4. UnitOf(last) = last.unit BY <1>9 DEF UnitOf
  <2>5. k \in DOMAIN stored.reg => stored.reg[k] = d
    <3>1. registry.reg[k] = d BY <2>1, <2>3 DEF KeyFor
    <3> HIDE DEF k, d
    <3> QED BY <3>1 DEF Imported, Registered, Grown
  <2> QED BY <1>4, <1>7, <1>9, <2>2, <2>3, <2>4, <2>5
<1>10. CASE last.unit = None
  <2> DEFINE m == last.measure
             e == Definition(Declared(file.units, m))
  <2>1. d = None BY <1>10 DEF Definition
  <2>2. k = stored.defaults[m] BY <1>3, <2>1 DEF Effective
  <2>3. UnitOf(last) = Declared(file.units, m) BY <1>10 DEF UnitOf
  <2>4. DefaultsHold(stored, file.units) BY <1>1 DEF Imported, Registered
  <2>5. IF e = None THEN stored.defaults[m] = None ELSE KeyFor(stored.reg, stored.defaults[m], e)
    BY <1>7, <2>4 DEF DefaultsHold
  <2>6. e # None => stored.defaults[m] # None
    <3> HIDE DEF m
    <3> QED BY <1>1, <2>5, DeclaredIsMentioned, KeyIsSome
  <2>7. e # None => stored.reg[stored.defaults[m]] = e BY <2>5 DEF KeyFor
  <2> QED BY <1>4, <2>2, <2>3, <2>5, <2>6, <2>7
<1> QED BY <1>9, <1>10

----------------------------------------------------------------------------
(***************************************************************************)
(* One scale.  The counts of measures and of keys are of finite sets, so   *)
(* one at most means that all the rows agree.                              *)
(***************************************************************************)
LEMMA ImageIsFinite ==
  ASSUME NEW S, IsFiniteSet(S), NEW f, DOMAIN f = S
  PROVE  IsFiniteSet({f[x] : x \in S})
<1> DEFINE T == {f[x] : x \in S}
<1>1. \A t \in T : \E x \in S : f[x] = t OBVIOUS
<1>2. \A x \in S : f[x] \in T OBVIOUS
<1>3. \E g : g \in [S -> T] /\ \A x \in S : g[x] = f[x]
  <2> DEFINE g == [x \in S |-> f[x]]
  <2>1. g \in [S -> T] /\ \A x \in S : g[x] = f[x] OBVIOUS
  <2> QED BY <2>1
<1> HIDE DEF T
<1>4. PICK g : g \in [S -> T] /\ \A x \in S : g[x] = f[x] BY <1>3
<1>5. g \in Surjection(S, T) BY <1>1, <1>4 DEF Surjection
<1>6. IsFiniteSet(T) BY <1>5, FS_Surjection
<1> QED BY <1>6 DEF T

LEMMA AtMostOne ==
  ASSUME NEW S, IsFiniteSet(S), ~(Cardinality(S) > 1), NEW x \in S, NEW y \in S
  PROVE  x = y
<1> SUFFICES ASSUME x # y PROVE FALSE OBVIOUS
<1>1. IsFiniteSet(S \ {x}) /\ Cardinality(S \ {x}) = Cardinality(S) - 1 BY FS_RemoveElement
<1>2. Cardinality(S) \in Nat /\ Cardinality(S \ {x}) \in Nat BY <1>1, FS_CardinalityType
<1>3. Cardinality(S \ {x}) # 0 BY <1>1, FS_EmptySet
<1> QED BY <1>1, <1>2, <1>3

\* MeasureFacts names a unit only for rows that are all typed and agree.
LEMMA UniformRows ==
  ASSUME NEW rows, IsFiniteSet(rows), NEW reg, NEW defaults,
         MeasureFacts(rows, reg, defaults).symbol # None
  PROVE  /\ \A r \in rows : r.measure # None /\ Symbol(reg, Effective(r, defaults)) # None
         /\ \A q, r \in rows : q.measure = r.measure /\ Effective(q, defaults) = Effective(r, defaults)
<1> DEFINE typed == {r \in rows : r.measure # None}
           types == {r.measure : r \in typed}
           keys == {Effective(r, defaults) : r \in typed}
<1>1. /\ ~(Cardinality(types) > 1) /\ typed = rows /\ ~(Cardinality(keys) > 1)
      /\ ~\E k \in keys : Symbol(reg, k) = None
  <2> DEFINE state == IF Cardinality(types) > 1 \/ typed # rows THEN "unknown"
                      ELSE IF Cardinality(keys) > 1 THEN "mixed"
                      ELSE IF \E k \in keys : Symbol(reg, k) = None THEN "unknown" ELSE "uniform"
             one == Symbol(reg, CHOOSE k \in keys : TRUE)
             sym == IF state = "uniform" THEN one ELSE None
  <2>1. MeasureFacts(rows, reg, defaults).symbol = IF typed = {} THEN None ELSE sym
    <3>1. MeasureFacts(rows, reg, defaults)
            = IF typed = {} THEN [measured |-> FALSE, state |-> None, symbol |-> None, safe |-> FALSE]
              ELSE [measured |-> TRUE, state |-> state, symbol |-> sym, safe |-> state = "uniform"]
      BY DEF MeasureFacts
    <3> HIDE DEF sym, state
    <3> QED BY <3>1
  <2>2. sym # None BY <2>1
  <2>3. state = "uniform" BY <2>2
  <2> QED BY <2>3
<1>2. IsFiniteSet(typed) BY FS_Subset
<1> HIDE DEF typed
<1>3. IsFiniteSet(types)
  <2> DEFINE f == [r \in typed |-> r.measure]
  <2>1. DOMAIN f = typed /\ {f[r] : r \in typed} = types OBVIOUS
  <2> HIDE DEF f, types
  <2> QED BY <1>2, <2>1, ImageIsFinite
<1>4. IsFiniteSet(keys)
  <2> DEFINE f == [r \in typed |-> Effective(r, defaults)]
  <2>1. DOMAIN f = typed /\ {f[r] : r \in typed} = keys OBVIOUS
  <2> HIDE DEF f, keys
  <2> QED BY <1>2, <2>1, ImageIsFinite
<1>5. \A r \in rows : r.measure \in types /\ Effective(r, defaults) \in keys BY <1>1
<1>6. \A q, r \in rows : q.measure = r.measure /\ Effective(q, defaults) = Effective(r, defaults)
  <2> HIDE DEF types, keys
  <2>1. \A x, y \in types : x = y BY <1>1, <1>3, AtMostOne
  <2>2. \A x, y \in keys : x = y BY <1>1, <1>4, AtMostOne
  <2> QED BY <1>5, <2>1, <2>2
<1>7. \A r \in rows : r.measure # None BY <1>1 DEF typed
<1> HIDE DEF keys
<1> QED BY <1>1, <1>5, <1>6, <1>7

\* A field whose stored rows are uniform is on one scale in the whole file.
LEMMA UniformIsOneScale ==
  ASSUME Imported, UnitsAreFaithful, Len(db) = Len(file.objects), NEW p \in Fields(db),
         MeasureFacts(Rows(db, p), stored.reg, stored.defaults).symbol # None
  PROVE  OneScale(p)
<1> DEFINE objects == file.objects
           carriers == Carrying(p)
           scale(o) == <<Shown(o, p).measure, Definition(UnitOf(Shown(o, p)))>>
           cell(o) == db[o].cells[p]
           row(o) == [measure |-> cell(o).measure, override |-> cell(o).override]
           key(o) == Effective(row(o), stored.defaults)
<1>1. /\ file \in Files /\ Len(db) \in Nat /\ DOMAIN db = 1 .. Len(db) /\ DOMAIN objects = DOMAIN db
  <2>1. file \in Files /\ Len(db) \in Nat /\ DOMAIN db = 1 .. Len(db) BY DEF Imported, Progress, IsList
  <2> QED BY <2>1, FilesAreRead
<1>2. \A o \in DOMAIN db : DOMAIN db[o].cells = Paths(objects[o])
  BY DEF Imported, RowsHold, RowHolds
<1>3. carriers = Carriers(db, p)
  <2>1. \A o \in DOMAIN db : p \in Paths(objects[o]) <=> p[1] \notin objects[o].failed /\ Of(objects[o].items, p) # {}
    BY DEF Paths, Of
  <2> QED BY <1>1, <1>2, <2>1 DEF Carriers, Carrying
<1>4. carriers # {} BY <1>3 DEF Fields, Carriers
<1>5. IsFiniteSet(Rows(db, p)) /\ \A o \in carriers : row(o) \in Rows(db, p)
  <2> DEFINE f == [o \in carriers |-> row(o)]
  <2>1. IsFiniteSet(carriers)
    <3>1. IsFiniteSet(1 .. Len(db)) BY <1>1, FS_Interval
    <3>2. carriers \subseteq 1 .. Len(db) BY <1>1 DEF Carrying
    <3> QED BY <3>1, <3>2, FS_Subset
  <2>2. DOMAIN f = carriers /\ Rows(db, p) = {f[o] : o \in carriers} BY <1>3 DEF Rows, Cells
  <2>3. \A o \in carriers : f[o] = row(o) OBVIOUS
  <2> HIDE DEF f, carriers, row
  <2> QED BY <2>1, <2>2, <2>3, ImageIsFinite
<1>6. /\ \A r \in Rows(db, p) : r.measure # None /\ Symbol(stored.reg, Effective(r, stored.defaults)) # None
      /\ \A q, r \in Rows(db, p) : /\ q.measure = r.measure
                                  /\ Effective(q, stored.defaults) = Effective(r, stored.defaults)
  BY <1>5, UniformRows
<1>7. ASSUME NEW o \in carriers, ~Masked(o, p)
      PROVE  /\ scale(o) = <<cell(o).measure, stored.reg[key(o)]>>
             /\ cell(o).measure # None /\ stored.reg[key(o)] # None /\ stored.reg[key(o)].resolved
  <2>1. row(o) \in Rows(db, p) BY <1>5
  <2>2. row(o).measure # None /\ Symbol(stored.reg, key(o)) # None BY <1>6, <2>1
  <2>3. key(o) # None /\ key(o) \in DOMAIN stored.reg /\ stored.reg[key(o)].resolved BY <2>2 DEF Symbol
  <2>4. stored.reg[key(o)] # None BY <2>3 DEF Imported, Registered, Kept
  <2>5. cell(o).measure # None /\ key(o) = Effective(cell(o), stored.defaults) BY <2>2 DEF Effective
  <2>6. o \in DOMAIN db /\ p \in DOMAIN db[o].cells BY <1>3 DEF Carriers
  <2>7. Definition(UnitOf(Shown(o, p))) = stored.reg[key(o)]
    BY <1>7, <2>3, <2>5, <2>6 DEF UnitsAreFaithful
  <2>8. CellHolds(registry.reg, objects[o].items, p, cell(o))
    BY <1>2, <2>6 DEF Imported, RowsHold, RowHolds
  <2>9. /\ Typed(objects[o].items, p) # {}
        /\ cell(o).measure = objects[o].items[LastOf(Typed(objects[o].items, p))].measure
    BY <2>5, <2>8 DEF CellHolds
  <2>10. cell(o).measure = Shown(o, p).measure
    BY <1>1, <1>7, <2>6, <2>9, ShownIsTyped
  <2> QED BY <2>3, <2>4, <2>5, <2>7, <2>10
<1>8. ASSUME NEW o \in carriers, NEW x \in carriers, ~Masked(o, p), ~Masked(x, p) PROVE scale(o) = scale(x)
  <2>1. row(o) \in Rows(db, p) /\ row(x) \in Rows(db, p) BY <1>5
  <2>2. row(o).measure = row(x).measure /\ key(o) = key(x) BY <1>6, <2>1
  <2>3. cell(o).measure = cell(x).measure BY <2>2
  <2> QED BY <1>7, <1>8, <2>2, <2>3
<1>9. \A o \in carriers : ~Masked(o, p) => scale(o)[1] # None /\ scale(o)[2] # None /\ scale(o)[2].resolved
  BY <1>7
<1> HIDE DEF scale, carriers
<1> QED BY <1>4, <1>8, <1>9 DEF OneScale, scale, carriers

----------------------------------------------------------------------------
(***************************************************************************)
(* The document of a file that is imported.                                *)
(***************************************************************************)
Complete == Imported /\ Len(db) = Len(file.objects)

\* A stored field has a path of the file, in the class of an object that has it.
LEMMA FieldIsAPath ==
  ASSUME Imported, NEW p \in Fields(db)
  PROVE  /\ p = <<p[1], p[2], p[3]>> /\ p[1] \in ContainerKinds \cup {"attribute", "measurement"}
         /\ p[1] = "attribute" => p[2] \in Classes(db) /\ p[3] \in Attributes
<1>1. PICK o \in DOMAIN db : p \in DOMAIN db[o].cells BY DEF Fields
<1>2. file \in Files /\ o \in DOMAIN file.objects
  <2>1. DOMAIN db = 1 .. Len(db) /\ Len(db) \in Nat /\ Len(db) <= Len(file.objects) /\ file \in Files
    BY DEF Imported, Progress, IsList
  <2>2. DOMAIN file.objects = 1 .. Len(file.objects) /\ Len(file.objects) \in Nat BY <2>1, FilesAreRead
  <2> QED BY <2>1, <2>2
<1>3. p \in Paths(file.objects[o]) /\ db[o].class = file.objects[o].class
  BY <1>1 DEF Imported, RowsHold, RowHolds
<1>4. PICK i \in DOMAIN file.objects[o].items : p = file.objects[o].items[i].path BY <1>3 DEF Paths
<1>5. db[o].class \in Classes(db) BY DEF Classes
<1> QED BY <1>2, <1>3, <1>4, <1>5, FilesAreRead

LEMMA RecordOfField ==
  ASSUME NEW s, NEW p, NEW n, NEW total, NEW facts
  PROVE  LET r == FieldRecord(s, p, n, total, facts)
         IN r.kind = p[1] /\ r.set = p[2] /\ r.field = p[3] /\ r.symbol = facts.symbol
BY DEF FieldRecord

LEMMA AvailableIsOneScale ==
  ASSUME Complete, UnitsAreFaithful
  PROVE  \A c \in Concepts(Built) : c.unit_available => OneScale(<<c.kind, c.set, c.field>>)
<1> DEFINE reg == stored.reg
           defaults == stored.defaults
<1>1. ASSUME NEW r \in FieldRecords(db, reg, defaults), r.symbol # None
      PROVE  OneScale(<<r.kind, r.set, r.field>>)
  <2>1. ASSUME NEW p \in Fields(db), r.kind = p[1], r.set = p[2], r.field = p[3],
               r.symbol = MeasureFacts(Rows(db, p), reg, defaults).symbol
        PROVE  OneScale(<<r.kind, r.set, r.field>>)
    <3>1. OneScale(p) BY <1>1, <2>1, UniformIsOneScale DEF Complete
    <3>2. p = <<r.kind, r.set, r.field>> BY <2>1, FieldIsAPath DEF Complete
    <3> QED BY <3>1, <3>2
  <2>2. CASE \E c \in Classes(db), a \in Attributes : r = AttributeField(db, c, a)
    <3>1. PICK c \in Classes(db), a \in Attributes : r = AttributeField(db, c, a) BY <2>2
    <3>2. r.symbol = NoFacts.symbol BY <3>1, RecordOfField DEF AttributeField
    <3> QED BY <1>1, <3>2 DEF NoFacts
  <2>3. CASE \E p \in Fields(db) : r = MeasurementField(db, reg, defaults, p)
    <3>1. PICK p \in Fields(db) : r = MeasurementField(db, reg, defaults, p) BY <2>3
    <3>2. /\ r.kind = p[1] /\ r.set = p[2] /\ r.field = p[3]
          /\ r.symbol = MeasureFacts(Rows(db, p), reg, defaults).symbol
      BY <3>1, RecordOfField DEF MeasurementField
    <3> QED BY <2>1, <3>2
  <2>4. CASE \E p \in Fields(db) : r = ContainerField(db, reg, defaults, p)
    <3>1. PICK p \in Fields(db) : r = ContainerField(db, reg, defaults, p) BY <2>4
    <3>2. /\ r.kind = p[1] /\ r.set = p[2] /\ r.field = p[3]
          /\ r.symbol = MeasureFacts(Rows(db, p), reg, defaults).symbol
      BY <3>1, RecordOfField DEF ContainerField
    <3> QED BY <2>1, <3>2
  <2> QED BY <2>2, <2>3, <2>4 DEF FieldRecords
<1>2. Built.fields = FieldRecords(db, reg, defaults) BY DEF Built, Document
<1> SUFFICES ASSUME NEW c \in Concepts(Built), c.unit_available
             PROVE  OneScale(<<c.kind, c.set, c.field>>)
  OBVIOUS
<1>3. ASSUME NEW r \in Built.fields, c = FieldConcept(r) PROVE OneScale(<<c.kind, c.set, c.field>>)
  <2>1. c.kind = r.kind /\ c.set = r.set /\ c.field = r.field /\ r.symbol # None BY <1>3 DEF FieldConcept
  <2> QED BY <1>1, <1>2, <1>3, <2>1
<1>4. ASSUME NEW r, c = ContainerConcept(r) \/ c = SectionConcept(r) PROVE FALSE
  BY <1>4 DEF ContainerConcept, SectionConcept
<1> QED BY <1>3, <1>4 DEF Concepts

LEMMA NothingIsMissing ==
  ASSUME Complete, phase = "done", artifact.content = Built
  PROVE  NothingSilentlyMissing
<1> DEFINE reg == stored.reg
           defaults == stored.defaults
           doc == artifact.content
           offered == {<<f.kind, f.set, f.field>> : f \in doc.fields}
<1>1. doc.fields = FieldRecords(db, reg, defaults) /\ doc.missing = Missing(db, defaults)
  BY DEF Built, Document
<1>2. ASSUME NEW p \in Fields(db)
      PROVE  p \in offered \/ \E m \in doc.missing : m.capability = p[1] /\ m.scope = p[2] /\ m.why = "structure"
  <2>1. /\ p = <<p[1], p[2], p[3]>> /\ p[1] \in ContainerKinds \cup {"attribute", "measurement"}
        /\ p[1] = "attribute" => p[2] \in Classes(db) /\ p[3] \in Attributes
    BY FieldIsAPath DEF Complete
  <2>2. ASSUME NEW r \in doc.fields, r.kind = p[1] /\ r.set = p[2] /\ r.field = p[3] PROVE p \in offered
    BY <2>1, <2>2
  <2>3. CASE p[1] = "attribute"
    <3> DEFINE r == AttributeField(db, p[2], p[3])
    <3>1. r \in doc.fields BY <1>1, <2>1, <2>3 DEF FieldRecords
    <3>2. r.kind = p[1] /\ r.set = p[2] /\ r.field = p[3] BY <2>3, RecordOfField DEF AttributeField
    <3> QED BY <2>2, <3>1, <3>2
  <2>4. CASE p[1] = "measurement"
    <3> DEFINE r == MeasurementField(db, reg, defaults, p)
    <3>1. r \in doc.fields BY <1>1, <2>4 DEF FieldRecords
    <3>2. r.kind = p[1] /\ r.set = p[2] /\ r.field = p[3] BY RecordOfField DEF MeasurementField
    <3> QED BY <2>2, <3>1, <3>2
  <2>5. CASE p[1] \in ContainerKinds /\ Reliable(db, p[1], p[2])
    <3> DEFINE r == ContainerField(db, reg, defaults, p)
    <3>1. r \in doc.fields BY <1>1, <2>5 DEF FieldRecords
    <3>2. r.kind = p[1] /\ r.set = p[2] /\ r.field = p[3] BY RecordOfField DEF ContainerField
    <3> QED BY <2>2, <3>1, <3>2
  <2>6. CASE p[1] \in ContainerKinds /\ ~Reliable(db, p[1], p[2])
    <3> DEFINE k == <<p[1], p[2]>>
               m == [capability |-> k[1], scope |-> k[2], why |-> "structure"]
    <3>1. k \in Containers(db) BY <2>6 DEF Containers
    <3>2. ~Reliable(db, k[1], k[2]) BY <2>6
    <3>3. m \in Missing(db, defaults)
      <4> HIDE DEF k
      <4> QED BY <3>1, <3>2 DEF Missing
    <3>4. m.capability = p[1] /\ m.scope = p[2] /\ m.why = "structure" OBVIOUS
    <3> HIDE DEF m
    <3> QED BY <1>1, <3>3, <3>4
  <2> QED BY <2>1, <2>3, <2>4, <2>5, <2>6
<1>3. ASSUME NEW o \in DOMAIN file.objects, NEW k \in file.objects[o].failed
      PROVE  \E m \in doc.missing : m.capability = k /\ m.why = "failure"
  <2>1. file \in Files /\ DOMAIN db = 1 .. Len(db) /\ Len(db) = Len(file.objects)
    BY DEF Complete, Imported, Progress, IsList
  <2>2. o \in DOMAIN db BY <2>1, FilesAreRead
  <2>3. k \in ContainerKinds BY <2>1, ObjectIsRead
  <2>4. k \in db[o].failed BY <2>2 DEF Complete, Imported, RowsHold, RowHolds
  <2>5. Failures(db, k) # {} BY <2>2, <2>4 DEF Failures
  <2> DEFINE m == [capability |-> k, scope |-> None, why |-> "failure"]
  <2>6. m \in Missing(db, defaults) BY <2>3, <2>5 DEF Missing
  <2>7. m.capability = k /\ m.why = "failure" OBVIOUS
  <2> HIDE DEF m
  <2> QED BY <1>1, <2>6, <2>7
<1> HIDE DEF offered
<1> QED BY <1>2, <1>3 DEF NothingSilentlyMissing, offered

----------------------------------------------------------------------------
(***************************************************************************)
(* The steps.                                                              *)
(***************************************************************************)
LEMMA EmptyIsKept == Kept(Empty)
<1>1. DOMAIN Empty = {} BY DEF Empty
<1> QED BY <1>1, FS_EmptySet DEF Kept

LEMMA NoRowsYet == IsList(<<>>) /\ Len(<<>>) = 0 /\ DOMAIN <<>> = {}
BY DEF IsList

LEMMA InitIsSound ==
  ASSUME Init
  PROVE  IInv
<1>1. Progress
  <2>1. file \in Files /\ db = <<>> /\ phase = "units" BY DEF Init
  <2>2. Len(file.objects) \in Nat BY <2>1, FilesAreRead
  <2> QED BY <2>1, <2>2, NoRowsYet DEF Progress
<1>2. Registered BY EmptyIsKept DEF Init, Registered, Grown
<1>3. RowsHold BY NoRowsYet DEF Init, RowsHold
<1>4. InPlace
  <2>1. artifact \in {None} \cup Previous /\ phase = "units" BY DEF Init
  <2> QED BY <2>1, PreviousIsOlder DEF InPlace, Usable
<1>5. InCache /\ InHand BY DEF Init, InCache, InHand
<1> QED BY <1>1, <1>2, <1>3, <1>4, <1>5 DEF IInv, Imported

LEMMA ReadUnitsIsSound ==
  ASSUME IInv, ReadUnits
  PROVE  Imported'
<1>1. file' = file /\ db' = <<>> /\ registry' = DefaultsOf(file.units) /\ stored' = registry'
      /\ phase' = IF Len(file.objects) = 0 THEN "build" ELSE "objects"
  BY DEF ReadUnits
<1>2. Progress'
  <2>1. file \in Files BY DEF IInv, Imported, Progress
  <2>2. Len(file.objects) \in Nat BY <2>1, FilesAreRead
  <2> QED BY <1>1, <2>1, <2>2, NoRowsYet DEF Progress
<1>3. Registered'
  <2>1. stored' = DefaultsOf(file.units) BY <1>1
  <2>2. Grown(registry'.reg, stored'.reg) BY <1>1 DEF Grown
  <2> QED BY <1>1, <2>1, <2>2, DefaultsAreDeclared DEF Registered
<1>4. RowsHold' BY <1>1, NoRowsYet DEF RowsHold
<1> QED BY <1>2, <1>3, <1>4 DEF Imported

LEMMA AppendedList ==
  ASSUME NEW s, IsList(s), NEW x
  PROVE  LET t == Append(s, x)
         IN IsList(t) /\ Len(t) = Len(s) + 1 /\ t[Len(s) + 1] = x /\ \A i \in 1 .. Len(s) : t[i] = s[i]
<1> DEFINE S == {s[i] : i \in 1 .. Len(s)} \cup {x}
<1>1. s \in Seq(S)
  <2>1. s \in [1 .. Len(s) -> S] /\ Len(s) \in Nat BY DEF IsList
  <2> HIDE DEF S
  <2> QED BY <2>1
<1>2. x \in S OBVIOUS
<1> HIDE DEF S
<1>3. /\ Append(s, x) \in Seq(S) /\ Len(Append(s, x)) = Len(s) + 1
      /\ \A i \in 1 .. Len(s) : Append(s, x)[i] = s[i]
      /\ Append(s, x)[Len(s) + 1] = x
  BY <1>1, <1>2, AppendProperties
<1> DEFINE t == Append(s, x)
<1>4. t \in [1 .. Len(t) -> S] /\ Len(t) \in Nat
  <2> HIDE DEF t
  <2>1. t \in Seq(S) BY <1>3 DEF t
  <2> QED BY <2>1
<1>5. IsList(t)
  <2> HIDE DEF t
  <2> QED BY <1>4 DEF IsList
<1> QED BY <1>3, <1>5

LEMMA ExtractIsSound ==
  ASSUME IInv, ExtractObject
  PROVE  Imported'
<1> DEFINE n == Len(db) + 1
           o == file.objects[n]
           x == Extracted(registry.reg, o)
<1>1. /\ phase = "objects" /\ registry' = [registry EXCEPT !.reg = x.reg] /\ db' = Append(db, x.row)
      /\ phase' = (IF n = Len(file.objects) THEN "build" ELSE "objects") /\ file' = file /\ stored' = stored
  BY DEF ExtractObject
<1>2. Progress /\ Registered /\ RowsHold BY DEF IInv, Imported
<1>3. file \in Files /\ IsList(db) /\ Len(db) < Len(file.objects) BY <1>1, <1>2 DEF Progress
<1>4. Len(file.objects) \in Nat /\ DOMAIN file.objects = 1 .. Len(file.objects) BY <1>3, FilesAreRead
<1>5. Len(db) \in Nat /\ DOMAIN db = 1 .. Len(db) BY <1>3 DEF IsList
<1>6. n \in DOMAIN file.objects BY <1>3, <1>4, <1>5
<1>7. Kept(x.reg) /\ Grown(x.reg, registry.reg) /\ RowHolds(x.reg, o, x.row)
  <2>1. IsRead(o) BY <1>3, <1>6, ObjectIsRead
  <2>2. Kept(registry.reg) BY <1>2 DEF Registered
  <2> HIDE DEF o
  <2> QED BY <2>1, <2>2, RowIsExtracted
<1> HIDE DEF x, o
<1>8. /\ IsList(db') /\ Len(db') = n /\ db'[n] = x.row /\ \A i \in 1 .. Len(db) : db'[i] = db[i]
  BY <1>1, <1>3, AppendedList
<1>9. Progress' BY <1>1, <1>3, <1>4, <1>5, <1>8 DEF Progress
<1>10. registry'.reg = x.reg /\ registry'.defaults = registry.defaults
       /\ registry' = [reg |-> registry'.reg, defaults |-> registry'.defaults]
  BY <1>1, <1>2 DEF Registered
<1>11. Registered'
  <2>1. DefaultsHold(stored, file.units) BY <1>1, <1>2 DEF Registered
  <2>2. DefaultsHold(stored', file.units)
    BY <1>1, <2>1 DEF DefaultsHold
  <2>3. Grown(registry'.reg, stored'.reg) BY <1>1, <1>2, <1>7, <1>10, GrownTwice DEF Registered
  <2> QED BY <1>1, <1>2, <1>7, <1>10, <2>2, <2>3 DEF Registered
<1>12. RowsHold'
  <2>1. ASSUME NEW i \in 1 .. Len(db') PROVE RowHolds(x.reg, file.objects[i], db'[i])
    <3>1. CASE i = n BY <1>7, <1>8, <3>1 DEF o
    <3>2. CASE i # n
      <4>1. i \in 1 .. Len(db) BY <1>5, <1>8, <3>2
      <4>2. RowHolds(registry.reg, file.objects[i], db[i]) BY <1>2, <1>5, <4>1 DEF RowsHold
      <4> QED BY <1>7, <1>8, <4>1, <4>2, RowStays
    <3> QED BY <3>1, <3>2
  <2>2. DOMAIN db' = 1 .. Len(db') BY <1>8 DEF IsList
  <2> QED BY <1>1, <1>10, <2>1, <2>2 DEF RowsHold
<1> QED BY <1>9, <1>11, <1>12 DEF Imported

\* The other steps read the import, and what is on one scale stays so: that is
\* a fact of the file.
LEMMA ImportIsRead ==
  ASSUME Imported, UNCHANGED <<file, registry, stored, db>>,
         phase' = phase \/ (phase = "build" /\ phase' = "done") \/ (phase # "units" /\ phase' \in {"units", "refused"})
  PROVE  Imported'
<1>1. Progress' BY DEF Imported, Progress
<1>2. Registered' BY DEF Imported, Registered
<1>3. RowsHold' BY DEF Imported, RowsHold
<1> QED BY <1>1, <1>2, <1>3 DEF Imported

LEMMA ScaleStays ==
  ASSUME file' = file, NEW p
  PROVE  OneScale(p)' <=> OneScale(p)
BY DEF OneScale, Carrying, Masked, Shown, UnitOf

\* Who holds a manifest that is on one scale still does, and so does who takes it over.
LEMMA HeldStays ==
  ASSUME IInv, file' = file
  PROVE  /\ artifact' = artifact => (Usable(artifact) => OnOneScale(artifact))'
         /\ cache' = cache => InCache'
         /\ request' = request => InHand'
<1>1. \A p : OneScale(p)' <=> OneScale(p) BY ScaleStays
<1>2. artifact' = artifact => (Usable(artifact) => OnOneScale(artifact))'
  BY <1>1 DEF IInv, InPlace, Usable, OnOneScale
<1>3. cache' = cache => InCache' BY <1>1 DEF IInv, InCache, OnOneScale
<1>4. request' = request => InHand' BY <1>1 DEF IInv, InHand, OnOneScale
<1> QED BY <1>2, <1>3, <1>4

LEMMA PublishIsSound ==
  ASSUME IInv, Publish
  PROVE  IInv'
<1>1. /\ phase = "build" /\ phase' = "done" /\ artifact' = [content |-> Built, schema |-> schema]
      /\ UNCHANGED <<file, schema, registry, stored, db, cache, request>>
  BY DEF Publish
<1>2. Imported /\ Imported' BY <1>1, ImportIsRead DEF IInv
<1>3. InCache' /\ InHand' BY <1>1, HeldStays
<1>4. Complete /\ UnitsAreFaithful
  BY <1>1, <1>2, RowsAreFaithful DEF Complete, Imported, Progress
<1>5. \A c \in Concepts(Built) : c.unit_available => OneScale(<<c.kind, c.set, c.field>>)
  BY <1>4, AvailableIsOneScale
<1>6. artifact'.content = Built /\ Built' = Built /\ artifact'.schema = schema BY <1>1 DEF Built
<1>7. InPlace'
  <2>1. \A p : OneScale(p)' <=> OneScale(p) BY <1>1, ScaleStays
  <2> HIDE DEF Built
  <2>2. (Usable(artifact) => OnOneScale(artifact))'
    BY <1>5, <1>6, <2>1 DEF Usable, OnOneScale
  <2> QED BY <1>6, <2>2 DEF InPlace
<1> QED BY <1>2, <1>3, <1>7 DEF IInv

LEMMA StepIsSound ==
  ASSUME IInv, [Next]_vars
  PROVE  IInv'
<1>1. ASSUME UNCHANGED import PROVE Imported'
  BY <1>1, ImportIsRead DEF import, IInv
<1>2. ASSUME UNCHANGED <<import, artifact>> PROVE InPlace'
  <2>1. Built' = Built /\ phase' = phase /\ artifact' = artifact /\ file' = file BY <1>2 DEF Built, import
  <2>2. (Usable(artifact) => OnOneScale(artifact))' BY <2>1, HeldStays
  <2>3. phase = "done" => artifact.content = Built BY DEF IInv, InPlace
  <2> HIDE DEF Built
  <2> QED BY <2>1, <2>2, <2>3 DEF InPlace
<1>3. ASSUME artifact' = artifact, file' = file, phase' # "done" PROVE InPlace'
  BY <1>3, HeldStays DEF InPlace
<1>4. CASE ReadUnits
  <2>1. artifact' = artifact /\ cache' = cache /\ request' = request /\ file' = file /\ phase' # "done"
    BY <1>4 DEF ReadUnits
  <2> QED BY <1>3, <1>4, <2>1, ReadUnitsIsSound, HeldStays DEF IInv
<1>5. CASE ExtractObject
  <2>1. artifact' = artifact /\ cache' = cache /\ request' = request /\ file' = file /\ phase' # "done"
    BY <1>5 DEF ExtractObject
  <2> QED BY <1>3, <1>5, <2>1, ExtractIsSound, HeldStays DEF IInv
<1>6. CASE Publish BY <1>6, PublishIsSound
<1>7. CASE Refuse \/ Again
  <2>1. /\ UNCHANGED <<file, registry, stored, db, artifact, cache, request>>
        /\ phase # "units" /\ phase' \in {"units", "refused"}
    BY <1>7 DEF Refuse, Again
  <2>2. Imported' BY <2>1, ImportIsRead DEF IInv
  <2> QED BY <1>3, <2>1, <2>2, HeldStays DEF IInv
<1>8. CASE \E r \in Requests : Hit(r) \/ Load(r) \/ Store(r)
  <2>1. PICK r \in Requests : Hit(r) \/ Load(r) \/ Store(r) BY <1>8
  <2>2. UNCHANGED <<import, artifact>> /\ file' = file BY <2>1 DEF Hit, Load, Store, import
  <2>3. Imported' /\ InPlace' BY <1>1, <1>2, <2>2
  <2>4. \A p : OneScale(p)' <=> OneScale(p) BY <2>2, ScaleStays
  <2> DEFINE Sound(a) == a.schema = Reads
                         /\ \A c \in Concepts(a.content) : c.unit_available => OneScale(<<c.kind, c.set, c.field>>)
  <2>5. /\ request = [q \in Requests |-> request[q]]
        /\ \A q \in Requests : request[q].at \in {"loaded", "served"} => Sound(request[q].got)
    BY DEF IInv, InHand, OnOneScale
  <2>6. (cache # None => Sound(cache)) /\ (Usable(artifact) => Sound(artifact))
    BY DEF IInv, InCache, InPlace, OnOneScale
  <2>7. (InCache' <=> (cache' # None => Sound(cache')))
        /\ (InHand' <=> /\ request' = [q \in Requests |-> request'[q]]
                        /\ \A q \in Requests : request'[q].at \in {"loaded", "served"} => Sound(request'[q].got))
    BY <2>4 DEF InCache, InHand, OnOneScale
  <2> HIDE DEF Sound
  <2>8. CASE Hit(r)
    <3>1. request' = [request EXCEPT ![r] = [at |-> "served", got |-> cache]] /\ cache' = cache /\ cache # None
      BY <2>8 DEF Hit
    <3> QED BY <2>3, <2>5, <2>6, <2>7, <3>1 DEF IInv
  <2>9. CASE Load(r)
    <3>1. /\ request' = [request EXCEPT ![r] = IF Usable(artifact) THEN [at |-> "loaded", got |-> artifact]
                                               ELSE [at |-> "unavailable", got |-> None]]
          /\ cache' = cache
      BY <2>9 DEF Load
    <3> QED BY <2>3, <2>5, <2>6, <2>7, <3>1 DEF IInv
  <2>10. CASE Store(r)
    <3>1. request[r].at = "loaded" /\ cache' = request[r].got /\ request' = [request EXCEPT ![r].at = "served"]
      BY <2>10 DEF Store
    <3>2. Sound(cache') BY <2>5, <3>1
    <3>3. \A q \in Requests : request'[q].got = request[q].got /\ (q # r => request'[q].at = request[q].at)
      BY <2>5, <3>1
    <3> QED BY <2>3, <2>5, <2>7, <3>1, <3>2, <3>3 DEF IInv
  <2> QED BY <2>1, <2>8, <2>9, <2>10
<1>9. CASE UNCHANGED vars
  <2>1. UNCHANGED <<import, artifact, cache, request>> /\ file' = file BY <1>9 DEF vars, import
  <2> QED BY <1>1, <1>2, <2>1, HeldStays DEF IInv
<1> QED BY <1>4, <1>5, <1>6, <1>7, <1>8, <1>9 DEF Next

LEMMA InvariantHolds == Spec => []IInv
<1>1. Init => IInv BY InitIsSound
<1>2. IInv /\ [Next]_vars => IInv' BY StepIsSound
<1> QED BY <1>1, <1>2, PTL DEF Spec

----------------------------------------------------------------------------
\* What the stored registry says of a value's unit is the unit the shown value
\* was written in, whatever was registered before and after it, and although
\* the registry is stored before the objects add to it (measures.py: unit keys).
THEOREM UnitsStayTrue == Spec => []UnitsAreFaithful
<1>1. IInv => UnitsAreFaithful BY RowsAreFaithful DEF IInv
<1> QED BY <1>1, InvariantHolds, PTL

\* A field a request may compare is on one scale in the file (measurement.py,
\* loader.py): the rows agreed when the manifest was built, and only manifests
\* of the version the backend reads are served.
THEOREM OneScaleIsServed == Spec => []ServedMeansOneScale
<1>1. IInv => ServedMeansOneScale BY DEF IInv, InHand, OnOneScale, ServedMeansOneScale
<1> QED BY <1>1, InvariantHolds, PTL

\* Every stored field is offered or declared, and every failed extraction is
\* declared (builder.py: _missing_capabilities).
THEOREM NothingIsLeftOut == Spec => []NothingSilentlyMissing
<1>1. IInv => NothingSilentlyMissing
  <2> SUFFICES ASSUME IInv, phase = "done" PROVE NothingSilentlyMissing
    BY DEF NothingSilentlyMissing
  <2>1. Complete /\ artifact.content = Built BY DEF IInv, InPlace, Complete, Imported, Progress
  <2> QED BY <2>1, NothingIsMissing
<1> QED BY <1>1, InvariantHolds, PTL
=============================================================================
