---------------------------- MODULE Answers_proofs ----------------------------
(***************************************************************************)
(* What holds of every answer: a delivered number is the number the        *)
(* model's objects give, and the card describes what is highlighted,       *)
(* whatever the plan, the objects, their relationships and the drafts are. *)
(***************************************************************************)
EXTENDS Answers, FiniteSetTheorems, SequenceTheorems, WellFoundedInduction, TLAPS

(***************************************************************************)
(* Numbers: least and greatest members, and the whole of an interval.      *)
(***************************************************************************)
LEMMA Least ==
  ASSUME NEW S, S \subseteq Nat, S # {}
  PROVE  \E x \in S : \A y \in S : x <= y
<1> DEFINE R == OpToRel(<, Nat)
<1>1. IsWellFoundedOn(R, Nat) BY NatLessThanWellFounded
<1> HIDE DEF R
<1>2. PICK x \in S : \A y \in S : ~(<<y, x>> \in R) BY <1>1, WFMin
<1>3. \A y \in S : x <= y
  <2> TAKE y \in S
  <2>1. x \in Nat /\ y \in Nat OBVIOUS
  <2>2. ~(y < x) BY <1>2, <2>1 DEF R, OpToRel
  <2> QED BY <2>1, <2>2
<1> QED BY <1>3

LEMMA Greatest ==
  ASSUME NEW N \in Nat, NEW S, S \subseteq 1 .. N, S # {}
  PROVE  \E x \in S : \A y \in S : y <= x
<1> DEFINE T == {n \in Nat : N - n \in S}
<1>1. T \subseteq Nat OBVIOUS
<1>2. T # {}
  <2>1. PICK x \in S : TRUE OBVIOUS
  <2>2. N - x \in Nat /\ N - (N - x) = x BY <2>1
  <2> QED BY <2>1, <2>2
<1>3. PICK n \in T : \A m \in T : n <= m
  <2> HIDE DEF T
  <2> QED BY <1>1, <1>2, Least
<1>4. ASSUME NEW y \in S PROVE y <= N - n
  <2>1. N - y \in T
    <3>1. y \in Int /\ N - y \in Nat /\ N - (N - y) = y OBVIOUS
    <3> QED BY <3>1
  <2>2. n <= N - y
    <3> HIDE DEF T
    <3> QED BY <1>3, <2>1
  <2> QED BY <1>3, <2>2
<1> QED BY <1>3, <1>4

LEMMA UpTo ==
  ASSUME NEW N \in Nat, NEW G, G \subseteq 0 .. N, 0 \in G, \A n \in 1 .. N : n - 1 \in G => n \in G
  PROVE  G = 0 .. N
<1> DEFINE B == (0 .. N) \ G
<1>1. ASSUME B # {} PROVE FALSE
  <2>1. B \subseteq Nat OBVIOUS
  <2>2. PICK n \in B : \A x \in B : n <= x
    <3> HIDE DEF B
    <3> QED BY <1>1, <2>1, Least
  <2>3. n \in 1 .. N OBVIOUS
  <2>4. n - 1 \notin B
    <3>1. ~(n <= n - 1) BY <2>3
    <3> HIDE DEF B
    <3> QED BY <2>2, <3>1
  <2>5. n - 1 \in G BY <2>3, <2>4
  <2> QED BY <2>3, <2>5
<1> QED BY <1>1

----------------------------------------------------------------------------
(***************************************************************************)
(* Sets of objects: what a bound keeps of them.                            *)
(***************************************************************************)
LEMMA ObjectsAreFinite ==
  ASSUME NEW S, S \subseteq Objects
  PROVE  IsFiniteSet(S) /\ Cardinality(S) \in Nat /\ S \subseteq Int
BY ObjectsAreIds, FS_Subset, FS_CardinalityType

LEMMA LessIsFewer ==
  ASSUME NEW S, S \subseteq Objects, NEW T, T \subseteq S
  PROVE  IsFiniteSet(T) /\ Cardinality(T) \in Nat /\ Cardinality(T) <= Cardinality(S)
         /\ (Cardinality(T) = Cardinality(S) => T = S)
<1>1. IsFiniteSet(S) BY ObjectsAreFinite
<1> QED BY <1>1, FS_Subset, FS_CardinalityType

\* All of a set that fits the bound is kept.
LEMMA FirstIsAll ==
  ASSUME NEW S, S \subseteq Objects, NEW n \in Nat, Cardinality(S) <= n
  PROVE  FirstOf(S, n) = S
<1>1. ASSUME NEW o \in S PROVE Cardinality({x \in S : x < o}) < n
  <2> DEFINE T == {x \in S : x < o}
  <2>1. o \in Int BY ObjectsAreFinite
  <2>2. T \subseteq S /\ o \notin T BY <2>1
  <2> HIDE DEF T
  <2>3. Cardinality(T) \in Nat /\ Cardinality(T) <= Cardinality(S) /\ Cardinality(T) # Cardinality(S)
    BY <2>2, LessIsFewer
  <2>4. Cardinality(S) \in Nat BY ObjectsAreFinite
  <2> QED BY <2>3, <2>4 DEF T
<1> QED BY <1>1 DEF FirstOf

----------------------------------------------------------------------------
(***************************************************************************)
(* The traversal.  The walk after n steps has visited what is n links away *)
(* or nearer, and its hops start where it was before its last step.        *)
(***************************************************************************)
WalkUpTo(f, k, seeds) ==
  f = [n \in 0 .. k |-> IF n = 0 THEN [visited |-> seeds, frontier |-> seeds, hops |-> {}] ELSE Advance(f[n - 1])]
NearUpTo(f, k, S) == f = [n \in 0 .. k |-> IF n = 0 THEN S ELSE f[n - 1] \cup Touching(f[n - 1])]

LEMMA WalkExists ==
  ASSUME NEW N \in Nat, NEW seeds
  PROVE  \E f : WalkUpTo(f, N, seeds)
<1> DEFINE First == [visited |-> seeds, frontier |-> seeds, hops |-> {}]
           Step(x) == Advance(x)
           G == {k \in 0 .. N : \E f : WalkUpTo(f, k, seeds)}
<1>1. 0 \in G
  <2> DEFINE f == [n \in 0 .. 0 |-> First]
  <2>1. f = [n \in 0 .. 0 |-> IF n = 0 THEN First ELSE Step(f[n - 1])]
    <3>1. \A n \in 0 .. 0 : n = 0 OBVIOUS
    <3> HIDE DEF First, Step
    <3> QED BY <3>1
  <2> HIDE DEF f
  <2>2. WalkUpTo(f, 0, seeds) BY <2>1 DEF WalkUpTo
  <2> QED BY <2>2
<1>2. ASSUME NEW k \in 1 .. N, k - 1 \in G PROVE k \in G
  <2>1. PICK f : WalkUpTo(f, k - 1, seeds) BY <1>2
  <2> DEFINE g == [n \in 0 .. k |-> IF n = k THEN Step(f[k - 1]) ELSE f[n]]
  <2>2. f = [n \in 0 .. k - 1 |-> IF n = 0 THEN First ELSE Step(f[n - 1])] BY <2>1 DEF WalkUpTo
  <2> HIDE DEF First, Step
  <2>3. \A n \in 0 .. k - 1 : f[n] = IF n = 0 THEN First ELSE Step(f[n - 1]) BY <2>2
  <2>4. ASSUME NEW n \in 0 .. k PROVE g[n] = IF n = 0 THEN First ELSE Step(g[n - 1])
    <3>1. CASE n = k
      <4>1. k - 1 \in 0 .. k /\ k - 1 # k /\ k # 0 OBVIOUS
      <4>2. g[k - 1] = f[k - 1] /\ g[k] = Step(f[k - 1]) BY <4>1
      <4> HIDE DEF g
      <4> QED BY <3>1, <4>1, <4>2
    <3>2. CASE n # k
      <4>1. n \in 0 .. k - 1 /\ g[n] = f[n] BY <3>2
      <4>2. n # 0 => n - 1 \in 0 .. k /\ n - 1 # k BY <4>1
      <4>3. n # 0 => g[n - 1] = f[n - 1] BY <4>2
      <4> HIDE DEF g
      <4> QED BY <2>3, <4>1, <4>3
    <3> QED BY <3>1, <3>2
  <2>5. DOMAIN g = 0 .. k /\ g = [n \in 0 .. k |-> g[n]] OBVIOUS
  <2> HIDE DEF g
  <2>6. g = [n \in 0 .. k |-> IF n = 0 THEN First ELSE Step(g[n - 1])] BY <2>4, <2>5
  <2>7. WalkUpTo(g, k, seeds) BY <2>6 DEF WalkUpTo, First, Step
  <2> QED BY <2>7
<1>3. G \subseteq 0 .. N /\ N \in 0 .. N OBVIOUS
<1> HIDE DEF G
<1>4. G = 0 .. N BY <1>1, <1>2, <1>3, UpTo
<1>5. N \in G BY <1>3, <1>4
<1> QED BY <1>5 DEF G

LEMMA NearExists ==
  ASSUME NEW N \in Nat, NEW S
  PROVE  \E f : NearUpTo(f, N, S)
<1> DEFINE First == S
           Step(x) == x \cup Touching(x)
           G == {k \in 0 .. N : \E f : NearUpTo(f, k, S)}
<1>1. 0 \in G
  <2> DEFINE f == [n \in 0 .. 0 |-> First]
  <2>1. f = [n \in 0 .. 0 |-> IF n = 0 THEN First ELSE Step(f[n - 1])]
    <3>1. \A n \in 0 .. 0 : n = 0 OBVIOUS
    <3> HIDE DEF First, Step
    <3> QED BY <3>1
  <2> HIDE DEF f
  <2>2. NearUpTo(f, 0, S) BY <2>1 DEF NearUpTo
  <2> QED BY <2>2
<1>2. ASSUME NEW k \in 1 .. N, k - 1 \in G PROVE k \in G
  <2>1. PICK f : NearUpTo(f, k - 1, S) BY <1>2
  <2> DEFINE g == [n \in 0 .. k |-> IF n = k THEN Step(f[k - 1]) ELSE f[n]]
  <2>2. f = [n \in 0 .. k - 1 |-> IF n = 0 THEN First ELSE Step(f[n - 1])] BY <2>1 DEF NearUpTo
  <2> HIDE DEF First, Step
  <2>3. \A n \in 0 .. k - 1 : f[n] = IF n = 0 THEN First ELSE Step(f[n - 1]) BY <2>2
  <2>4. ASSUME NEW n \in 0 .. k PROVE g[n] = IF n = 0 THEN First ELSE Step(g[n - 1])
    <3>1. CASE n = k
      <4>1. k - 1 \in 0 .. k /\ k - 1 # k /\ k # 0 OBVIOUS
      <4>2. g[k - 1] = f[k - 1] /\ g[k] = Step(f[k - 1]) BY <4>1
      <4> HIDE DEF g
      <4> QED BY <3>1, <4>1, <4>2
    <3>2. CASE n # k
      <4>1. n \in 0 .. k - 1 /\ g[n] = f[n] BY <3>2
      <4>2. n # 0 => n - 1 \in 0 .. k /\ n - 1 # k BY <4>1
      <4>3. n # 0 => g[n - 1] = f[n - 1] BY <4>2
      <4> HIDE DEF g
      <4> QED BY <2>3, <4>1, <4>3
    <3> QED BY <3>1, <3>2
  <2>5. DOMAIN g = 0 .. k /\ g = [n \in 0 .. k |-> g[n]] OBVIOUS
  <2> HIDE DEF g
  <2>6. g = [n \in 0 .. k |-> IF n = 0 THEN First ELSE Step(g[n - 1])] BY <2>4, <2>5
  <2>7. NearUpTo(g, k, S) BY <2>6 DEF NearUpTo, First, Step
  <2> QED BY <2>7
<1>3. G \subseteq 0 .. N /\ N \in 0 .. N OBVIOUS
<1> HIDE DEF G
<1>4. G = 0 .. N BY <1>1, <1>2, <1>3, UpTo
<1>5. N \in G BY <1>3, <1>4
<1> QED BY <1>5 DEF G

\* The hops that start at the objects X, in either direction.
Met(X) == Expand(X, Relating, Related) \cup Expand(X, Related, Relating)
Hop(m, n) == [from |-> m, to |-> n]

LEMMA InMet ==
  ASSUME NEW X
  PROVE  /\ \A h \in Met(X) : /\ h = Hop(h.from, h.to) /\ h.from \in MemberRows /\ h.to \in MemberRows
                              /\ h.from.of \in X /\ Opposite(h.from, h.to) /\ h.from.rel = h.to.rel /\ h.from # h.to
         /\ \A m, n \in MemberRows : m.of \in X /\ Opposite(m, n) /\ m.rel = n.rel /\ m # n => Hop(m, n) \in Met(X)
<1>1. ASSUME NEW h \in Met(X)
      PROVE  /\ h = Hop(h.from, h.to) /\ h.from \in MemberRows /\ h.to \in MemberRows
             /\ h.from.of \in X /\ Opposite(h.from, h.to) /\ h.from.rel = h.to.rel /\ h.from # h.to
  BY DEF Met, Expand, Hop, Opposite
<1>2. ASSUME NEW m \in MemberRows, NEW n \in MemberRows, m.of \in X, Opposite(m, n), m.rel = n.rel, m # n
      PROVE  Hop(m, n) \in Met(X)
  <2>1. CASE m.role \in Relating /\ n.role \in Related
    <3>1. Hop(m, n) \in Expand(X, Relating, Related) BY <1>2, <2>1 DEF Expand, Hop
    <3> QED BY <3>1 DEF Met
  <2>2. CASE m.role \in Related /\ n.role \in Relating
    <3>1. Hop(m, n) \in Expand(X, Related, Relating) BY <1>2, <2>2 DEF Expand, Hop
    <3> QED BY <3>1 DEF Met
  <2> QED BY <1>2, <2>1, <2>2 DEF Opposite
<1> QED BY <1>1, <1>2

LEMMA MetOfBoth ==
  ASSUME NEW X, NEW Y
  PROVE  Met(X \cup Y) = Met(X) \cup Met(Y)
BY DEF Met, Expand

LEMMA MetIsTouched ==
  ASSUME NEW X, None \notin X
  PROVE  Touching(X) = {h.to.of : h \in Met(X)} \ {None}
<1>1. ASSUME NEW o \in Touching(X) PROVE o \in {h.to.of : h \in Met(X)} \ {None}
  <2>1. PICK l \in LinkRows : l[1].of \in X /\ l[2].of = o BY DEF Touching
  <2>2. /\ l[1] \in MemberRows /\ l[2] \in MemberRows /\ l[1].rel = l[2].rel /\ l[1] # l[2] /\ o # None
        /\ Opposite(l[1], l[2])
    BY <2>1 DEF LinkRows
  <2>3. Hop(l[1], l[2]) \in Met(X) BY <2>1, <2>2, InMet
  <2>4. Hop(l[1], l[2]).to.of = o BY <2>1 DEF Hop
  <2> QED BY <2>2, <2>3, <2>4
<1>2. ASSUME NEW h \in Met(X), h.to.of # None PROVE h.to.of \in Touching(X)
  <2>1. /\ h.from \in MemberRows /\ h.to \in MemberRows /\ h.from.of \in X /\ Opposite(h.from, h.to)
        /\ h.from.rel = h.to.rel /\ h.from # h.to
    BY InMet
  <2> DEFINE l == <<h.from, h.to>>
  <2>2. l \in LinkRows BY <1>2, <2>1 DEF LinkRows
  <2>3. l[1].of \in X /\ l[2].of = h.to.of BY <2>1
  <2> HIDE DEF l
  <2> QED BY <2>2, <2>3 DEF Touching
<1> QED BY <1>1, <1>2

LEMMA TouchingOfBoth ==
  ASSUME NEW X, NEW Y
  PROVE  Touching(X \cup Y) = Touching(X) \cup Touching(Y)
BY DEF Touching

LEMMA WalkIsNear ==
  ASSUME NEW seeds, None \notin seeds, NEW depth \in Nat
  PROVE  /\ Walk(seeds, depth).visited = Near(seeds, depth) /\ None \notin Near(seeds, depth)
         /\ seeds \subseteq Near(seeds, depth)
         /\ Walk(seeds, depth).hops = IF depth = 0 THEN {} ELSE Met(Near(seeds, depth - 1))
<1> DEFINE f == CHOOSE x : WalkUpTo(x, depth, seeds)
           g == CHOOSE x : NearUpTo(x, depth, seeds)
           start == [visited |-> seeds, frontier |-> seeds, hops |-> {}]
<1>1. WalkUpTo(f, depth, seeds) /\ Walk(seeds, depth) = f[depth]
  <2>1. WalkUpTo(f, depth, seeds) BY WalkExists
  <2>2. Walk(seeds, depth) = f[depth] BY DEF Walk, WalkUpTo
  <2> QED BY <2>1, <2>2
<1>2. NearUpTo(g, depth, seeds) /\ Near(seeds, depth) = g[depth]
  <2>1. NearUpTo(g, depth, seeds) BY NearExists
  <2>2. Near(seeds, depth) = g[depth] BY DEF Near, NearUpTo
  <2> QED BY <2>1, <2>2
<1> HIDE DEF f, g
<1>3. f = [n \in 0 .. depth |-> IF n = 0 THEN start ELSE Advance(f[n - 1])] BY <1>1 DEF WalkUpTo
<1>4. g = [n \in 0 .. depth |-> IF n = 0 THEN seeds ELSE g[n - 1] \cup Touching(g[n - 1])] BY <1>2 DEF NearUpTo
<1>5. 0 \in 0 .. depth /\ \A n \in 1 .. depth : n \in 0 .. depth /\ n # 0 /\ n - 1 \in 0 .. depth /\ n \in Nat /\ n - 1 \in Nat
  OBVIOUS
<1>6. f[0] = start /\ g[0] = seeds BY <1>3, <1>4, <1>5
<1>7. \A n \in 1 .. depth : f[n] = Advance(f[n - 1]) /\ g[n] = g[n - 1] \cup Touching(g[n - 1])
  BY <1>3, <1>4, <1>5
\* Near(S, n - 1) is a walk of its own.
<1>8. ASSUME NEW n \in 1 .. depth PROVE Near(seeds, n - 1) = g[n - 1]
  <2> DEFINE k == n - 1
             h == [m \in 0 .. k |-> g[m]]
             e == CHOOSE x : NearUpTo(x, k, seeds)
  <2>1. k \in Nat /\ k \in 0 .. k /\ k \in 0 .. depth BY <1>5
  <2>2. NearUpTo(e, k, seeds) /\ Near(seeds, k) = e[k]
    <3>1. NearUpTo(e, k, seeds) BY <2>1, NearExists
    <3>2. Near(seeds, k) = e[k] BY DEF Near, NearUpTo
    <3> QED BY <3>1, <3>2
  <2> HIDE DEF e
  <2>3. e = [m \in 0 .. k |-> IF m = 0 THEN seeds ELSE e[m - 1] \cup Touching(e[m - 1])] BY <2>2 DEF NearUpTo
  <2> DEFINE G == {m \in 0 .. k : e[m] = g[m]}
  <2>4. 0 \in G BY <1>6, <2>1, <2>3
  <2>5. ASSUME NEW m \in 1 .. k, m - 1 \in G PROVE m \in G
    <3>1. m \in 1 .. depth /\ m \in 0 .. k /\ m # 0 BY <2>1
    <3>2. e[m] = e[m - 1] \cup Touching(e[m - 1]) BY <2>3, <3>1
    <3> QED BY <1>7, <2>5, <3>1, <3>2
  <2>6. G \subseteq 0 .. k OBVIOUS
  <2> HIDE DEF G, k
  <2>7. G = 0 .. k BY <2>1, <2>4, <2>5, <2>6, UpTo
  <2>8. e[k] = g[k] BY <2>1, <2>7 DEF G
  <2> QED BY <2>2, <2>8 DEF k
<1> DEFINE Right(n) ==
      LET w == f[n] IN
      /\ w.visited = g[n] /\ w.frontier \subseteq w.visited /\ None \notin w.visited /\ seeds \subseteq w.visited
      /\ w.hops = Met(w.visited \ w.frontier) /\ Touching(w.visited \ w.frontier) \subseteq w.visited
      /\ n # 0 => w.visited \ w.frontier = g[n - 1]
           G == {n \in 0 .. depth : Right(n)}
<1>9. 0 \in G
  <2>1. Met({}) = {} /\ Touching({}) = {} BY DEF Met, Expand, Touching
  <2>2. start.visited = seeds /\ start.frontier = seeds /\ start.hops = {} /\ seeds \ seeds = {} OBVIOUS
  <2> HIDE DEF start
  <2> QED BY <1>5, <1>6, <2>1, <2>2
<1>10. ASSUME NEW n \in 1 .. depth, n - 1 \in G PROVE n \in G
  <2> DEFINE w == f[n - 1]
             next == {h.to.of : h \in Met(w.frontier)} \ (w.visited \cup {None})
             x == f[n]
  <2>1. Right(n - 1) BY <1>10
  <2>2. x = [visited |-> w.visited \cup next, frontier |-> next, hops |-> w.hops \cup Met(w.frontier)]
    BY <1>7 DEF Advance, Met
  <2>3. x.visited = w.visited \cup next /\ x.frontier = next /\ x.hops = w.hops \cup Met(w.frontier) BY <2>2
  <2>4. None \notin w.frontier BY <2>1
  <2>5. Touching(w.frontier) = {h.to.of : h \in Met(w.frontier)} \ {None} BY <2>4, MetIsTouched
  <2>6. w.visited = (w.visited \ w.frontier) \cup w.frontier BY <2>1
  <2>7. Touching(w.visited) = Touching(w.visited \ w.frontier) \cup Touching(w.frontier)
    BY <2>6, TouchingOfBoth
  <2>8. Met(w.visited) = w.hops \cup Met(w.frontier)
    <3>1. Met(w.visited) = Met(w.visited \ w.frontier) \cup Met(w.frontier) BY <2>6, MetOfBoth
    <3> QED BY <2>1, <3>1
  <2>9. x.visited \ x.frontier = w.visited BY <2>3
  <2>10. x.visited = w.visited \cup Touching(w.visited) BY <2>1, <2>3, <2>5, <2>7
  <2>11. x.visited = g[n] BY <1>7, <2>1, <2>10
  <2>12. w.visited = g[n - 1] /\ None \notin w.visited /\ seeds \subseteq w.visited BY <2>1
  <2> HIDE DEF w, x
  <2>13. None \notin next OBVIOUS
  <2> HIDE DEF next
  <2>14. Right(n) BY <2>3, <2>8, <2>9, <2>10, <2>11, <2>12, <2>13 DEF x
  <2> QED BY <1>5, <2>14
<1>11. G \subseteq 0 .. depth /\ depth \in 0 .. depth OBVIOUS
<1>12. G = 0 .. depth
  <2> HIDE DEF G
  <2> QED BY <1>9, <1>10, <1>11, UpTo
<1>13. Right(depth) BY <1>11, <1>12
<1>14. depth # 0 => Near(seeds, depth - 1) = g[depth - 1]
  <2>1. depth # 0 => depth \in 1 .. depth OBVIOUS
  <2> QED BY <1>8, <2>1
<1>15. depth = 0 => f[depth].hops = {} BY <1>6
<1> QED BY <1>1, <1>2, <1>13, <1>14, <1>15

----------------------------------------------------------------------------
(***************************************************************************)
(* One part.  What its result records of it, whatever the operation.       *)
(***************************************************************************)
ValidPart(p) ==
  /\ p.where \subseteq Objects /\ p.depth \in Nat /\ (p.scope # None => p.scope \subseteq Objects)

Told(r, p) ==
  /\ r.part = p /\ r.status \in {"unavailable", "zero", "exact", "partial"}
  /\ p.op # "relationship" /\ r.total # None => Established(p) /\ Ones(r.total) = Truth(p, "total")
  /\ r.aggregate # None => /\ Established(p) /\ p.op \in {"aggregate", "extremum"} /\ Known(p) # {}
                           /\ r.aggregate.value = Truth(p, "aggregate")
                           /\ r.status = "exact" => Known(p) = Meant(p)
  /\ p.op = "relationship" => r.endpoints = IF r.status = "unavailable" THEN {} ELSE Connected(p)
  /\ r.status \in {"exact", "partial"} => Established(p) /\ r.total = Cardinality(Asked(p))
  /\ r.status = "zero" => Established(p) /\ Asked(p) = {} /\ r.total = 0
  /\ r.status = "unavailable" =>
       ~Established(p) \/ (p.op \in {"aggregate", "extremum"} /\ (p.output # "measured" \/ Known(p) = {}))
  /\ r.status = "partial" => p.op \in {"aggregate", "extremum", "description", "comparison"}
  /\ r.breakdown = {} \/ (p.op # "relationship" /\ r.breakdown = Buckets(Meant(p), ClassOf))

LEMMA MatchedIsMeant ==
  ASSUME NEW p, ValidPart(p)
  PROVE  Matched(p) = Meant(p) /\ Meant(p) \subseteq Objects
BY DEF ValidPart, Matched, Meant, InScope

LEMMA ToldOfCount ==
  ASSUME NEW p, ValidPart(p), p.op # "relationship", NEW r \in Structured(p)
  PROVE  Told(r, p) /\ (p.op \notin {"aggregate", "extremum"} => r.aggregate = None)
<1> DEFINE M == Matched(p)
           n == Cardinality(M)
           counted == [NoResult(p) EXCEPT !.status = "exact", !.total = n,
                         !.breakdown = IF Cardinality(p.classes) > 1 THEN Buckets(M, ClassOf) ELSE {},
                         !.examples = FirstOf(M, Examples(p))]
<1>1. M = Meant(p) /\ Asked(p) = M BY MatchedIsMeant DEF Asked
<1>2. Established(p) <=> ~p.unresolved BY DEF Established
<1>3. Truth(p, "total") = Ones(n) /\ Cardinality(Asked(p)) = n BY <1>1 DEF Truth
<1>4. /\ counted.part = p /\ counted.status = "exact" /\ counted.total = n /\ counted.aggregate = None
      /\ (counted.breakdown = {} \/ counted.breakdown = Buckets(Meant(p), ClassOf))
  <2>1. counted.breakdown = IF Cardinality(p.classes) > 1 THEN Buckets(M, ClassOf) ELSE {} BY DEF NoResult
  <2> QED BY <1>1, <2>1 DEF NoResult
<1>5. M = {} => n = 0 BY FS_EmptySet
<1>6. CASE p.unresolved
  <2>1. r = NoResult(p) BY <1>6 DEF Structured
  <2> QED BY <1>2, <1>6, <2>1 DEF Told, NoResult
<1>7. CASE ~p.unresolved /\ M = {}
  <2>1. r = [NoResult(p) EXCEPT !.status = "zero", !.total = 0] BY <1>7 DEF Structured
  <2> QED BY <1>1, <1>2, <1>3, <1>5, <1>7, <2>1 DEF Told, NoResult
<1>8. CASE ~p.unresolved /\ M # {} /\ p.op \in {"aggregate", "extremum"}
  <2> DEFINE K == {o \in M : Value[o] # None}
  <2>1. r = Aggregated(counted, M) BY <1>8 DEF Structured
  <2>2. K = Known(p) BY <1>1 DEF Known
  <2>3. Truth(p, "aggregate") = IF p.op = "extremum" THEN Max({Value[o] : o \in K}) ELSE Total(K)
    BY <1>8, <2>2 DEF Truth
  <2> HIDE DEF M, n
  <2>4. CASE p.output # "measured" \/ K = {}
    <3>1. r = [counted EXCEPT !.status = "unavailable"] BY <1>4, <2>1, <2>4 DEF Aggregated
    <3> DEFINE c == counted
    <3>2. r.part = p /\ r.status = "unavailable" /\ r.total = n /\ r.aggregate = None /\ r.breakdown = c.breakdown
      <4>1. r.status = "unavailable" /\ r.part = c.part /\ r.total = c.total /\ r.aggregate = c.aggregate /\ r.breakdown = c.breakdown
        BY <3>1 DEF NoResult
      <4> HIDE DEF counted
      <4> QED BY <1>4, <4>1
    <3> HIDE DEF counted
    <3> QED BY <1>2, <1>3, <1>4, <1>8, <2>2, <2>4, <3>2 DEF Told
  <2>5. CASE p.output = "measured" /\ K # {}
    <3> DEFINE v == IF p.op = "extremum" THEN Max({Value[o] : o \in K}) ELSE Total(K)
               s == IF K = M THEN "exact" ELSE "partial"
    <3>1. r = [counted EXCEPT !.aggregate = [value |-> v, covers |-> Cardinality(K), of |-> Cardinality(M)], !.status = s]
      BY <1>4, <2>1, <2>5 DEF Aggregated
    <3> HIDE DEF v, s
    <3> DEFINE c == counted
    <3>2. r.part = p /\ r.status = s /\ r.total = n /\ r.aggregate.value = v /\ r.breakdown = c.breakdown
      <4>1. r.status = s /\ r.part = c.part /\ r.total = c.total /\ r.aggregate.value = v /\ r.breakdown = c.breakdown
        BY <3>1 DEF NoResult
      <4> HIDE DEF counted
      <4> QED BY <1>4, <4>1
    <3>3. v = Truth(p, "aggregate") BY <2>3 DEF v
    <3>4. s \in {"exact", "partial"} /\ (s = "exact" => K = M) BY DEF s
    <3> HIDE DEF counted, K
    <3> QED BY <1>1, <1>2, <1>3, <1>4, <1>8, <2>2, <2>5, <3>2, <3>3, <3>4 DEF Told
  <2> QED BY <2>4, <2>5
<1>9. CASE ~p.unresolved /\ M # {} /\ p.op \notin {"aggregate", "extremum"}
  <2>1. PICK d : r = [counted EXCEPT !.distribution = d] \/ r = counted BY <1>9 DEF Structured
  <2> DEFINE c == counted
  <2>2. r.part = c.part /\ r.status = c.status /\ r.total = c.total /\ r.aggregate = c.aggregate /\ r.breakdown = c.breakdown
    BY <2>1 DEF NoResult
  <2> HIDE DEF counted, M, n
  <2>3. r.part = p /\ r.status = "exact" /\ r.total = n /\ r.aggregate = None /\ r.breakdown = c.breakdown
    BY <1>4, <2>2
  <2> QED BY <1>1, <1>2, <1>3, <1>4, <1>9, <2>3 DEF Told
<1> QED BY <1>6, <1>7, <1>8, <1>9

LEMMA ToldOfRanking ==
  ASSUME NEW p, ValidPart(p), p.op \in {"description", "comparison"}, NEW r \in Qualitative(p)
  PROVE  Told(r, p)
<1>1. PICK c \in Structured(p) :
        r \in (IF p.ranking /\ c.status \in {"exact", "partial"}
               THEN {[c EXCEPT !.ranked = Cardinality(ids), !.examples = IF ids = {} THEN @ ELSE FirstOf(ids, 3)] :
                        ids \in SUBSET Matched(p)} \cup {[c EXCEPT !.status = "partial"], c}
               ELSE {c})
  BY DEF Qualitative
<1>2. Told(c, p) /\ c.aggregate = None
  BY ToldOfCount
<1>3. CASE r = c BY <1>2, <1>3
<1>4. CASE r = [c EXCEPT !.status = "partial"] /\ c.status \in {"exact", "partial"}
  <2>1. r.part = c.part /\ r.status = "partial" /\ r.total = c.total /\ r.aggregate = None /\ r.breakdown = c.breakdown
    BY <1>2, <1>4
  <2> QED BY <1>2, <1>4, <2>1 DEF Told
<1>5. CASE \E ids : r = [c EXCEPT !.ranked = Cardinality(ids), !.examples = IF ids = {} THEN @ ELSE FirstOf(ids, 3)]
  <2>1. r.part = c.part /\ r.status = c.status /\ r.total = c.total /\ r.aggregate = None /\ r.breakdown = c.breakdown
    BY <1>2, <1>5
  <2> QED BY <1>2, <1>5, <2>1 DEF Told
<1> QED BY <1>1, <1>3, <1>4, <1>5
\* What a part may start from, and what a walk from there reaches.
LEMMA StartsAreSeeds ==
  ASSUME NEW p, ValidPart(p), p.op = "relationship", Plain(p)
  PROVE  /\ Seeds(p) = Starts(p) /\ Starts(p) \subseteq Objects
         /\ Walk(Seeds(p), p.depth).visited = Near(Starts(p), p.depth) /\ Connected(p) \cap Starts(p) = {}
         /\ Walk(Seeds(p), p.depth).hops = IF p.depth = 0 THEN {} ELSE Met(Near(Starts(p), p.depth - 1))
<1>1. Starts(p) = IF p.scope \notin {None, {}} THEN p.scope ELSE Matched(p) BY MatchedIsMeant DEF Starts
<1>2. Starts(p) \subseteq Objects BY <1>1, MatchedIsMeant DEF ValidPart
<1>3. Cardinality(Starts(p)) <= MaxSeeds /\ p.classes # {} BY DEF Plain
<1>4. MaxSeeds \in Nat BY BoundsAreCounts
<1>5. Seeds(p) = FirstOf(Starts(p), MaxSeeds) BY <1>1, <1>3 DEF Seeds
<1>6. Seeds(p) = Starts(p) BY <1>2, <1>3, <1>4, <1>5, FirstIsAll
<1>7. None \notin Starts(p) /\ p.depth \in Nat BY <1>2, ObjectsAreIds DEF ValidPart
<1>8. Connected(p) \cap Starts(p) = {} BY DEF Connected
<1>9. /\ Walk(Starts(p), p.depth).visited = Near(Starts(p), p.depth)
      /\ Walk(Starts(p), p.depth).hops = IF p.depth = 0 THEN {} ELSE Met(Near(Starts(p), p.depth - 1))
  BY <1>7, WalkIsNear
<1> QED BY <1>2, <1>6, <1>8, <1>9

LEMMA ToldOfRelationship ==
  ASSUME NEW p, ValidPart(p), p.op = "relationship", Plain(p)
  PROVE  Told(Relationship(p), p)
<1> DEFINE seeds == Seeds(p)
           walk == Walk(seeds, p.depth)
           endpoints == {o \in walk.visited \ seeds : p.reaches # {} => ClassOf[o] \in p.reaches}
           kept == Retained(walk.hops, seeds \cup endpoints)
           r == Relationship(p)
<1>1. r = IF p.relation # "recorded" \/ seeds = {} THEN NoResult(p)
          ELSE IF endpoints = {} THEN [NoResult(p) EXCEPT !.status = "zero", !.total = 0]
          ELSE [NoResult(p) EXCEPT !.status = "exact", !.total = Cardinality(endpoints),
                  !.endpoints = endpoints, !.examples = FirstOf(endpoints, 3),
                  !.seeds = seeds, !.hops = kept.hops, !.cut = kept.cut]
  BY DEF Relationship
<1>2. seeds = Starts(p) /\ walk.visited = Near(Starts(p), p.depth) BY StartsAreSeeds
<1>3. endpoints = Connected(p) BY <1>2 DEF Connected
<1>4. Established(p) <=> (p.relation = "recorded" /\ Starts(p) # {}) BY DEF Established, ValidPart
<1>5. Asked(p) = Connected(p) BY DEF Asked, ValidPart
<1> HIDE DEF walk, endpoints, kept, seeds
<1>6. CASE p.relation # "recorded" \/ seeds = {}
  <2>1. r = NoResult(p) BY <1>1, <1>6
  <2> QED BY <1>2, <1>4, <1>6, <2>1 DEF Told, NoResult
<1>7. CASE ~(p.relation # "recorded" \/ seeds = {}) /\ endpoints = {}
  <2>1. r = [NoResult(p) EXCEPT !.status = "zero", !.total = 0] BY <1>1, <1>7
  <2>2. r.part = p /\ r.status = "zero" /\ r.total = 0 /\ r.aggregate = None /\ r.endpoints = {} /\ r.breakdown = {}
    BY <2>1 DEF NoResult
  <2> QED BY <1>2, <1>3, <1>4, <1>5, <1>7, <2>2 DEF Told
<1>8. CASE ~(p.relation # "recorded" \/ seeds = {}) /\ endpoints # {}
  <2>1. r = [NoResult(p) EXCEPT !.status = "exact", !.total = Cardinality(endpoints),
                  !.endpoints = endpoints, !.examples = FirstOf(endpoints, 3),
                  !.seeds = seeds, !.hops = kept.hops, !.cut = kept.cut]
    BY <1>1, <1>8
  <2>2. /\ r.part = p /\ r.status = "exact" /\ r.total = Cardinality(endpoints) /\ r.aggregate = None
        /\ r.endpoints = endpoints /\ r.breakdown = {}
    BY <2>1 DEF NoResult
  <2> QED BY <1>2, <1>3, <1>4, <1>5, <1>8, <2>2 DEF Told
<1> QED BY <1>6, <1>7, <1>8

LEMMA ResultIsTold ==
  ASSUME NEW p, ValidPart(p), Plain(p), NEW r \in Results(p)
  PROVE  Told(r, p)
<1>1. CASE p.op = "relationship"
  <2>1. r = Relationship(p) BY <1>1 DEF Results
  <2> QED BY <1>1, <2>1, ToldOfRelationship
<1>2. CASE p.op \in {"description", "comparison"}
  <2>1. r \in Qualitative(p) BY <1>2 DEF Results
  <2> QED BY <1>2, <2>1, ToldOfRanking
<1>3. CASE p.op \notin {"relationship", "description", "comparison"}
  <2>1. r \in Structured(p) BY <1>3 DEF Results
  <2> QED BY <1>3, <2>1, ToldOfCount
<1> QED BY <1>1, <1>2, <1>3

\* Plain asks something of relationships only; whatever it is, r.part is the part.
LEMMA PartOfResult ==
  ASSUME NEW p, NEW r \in Results(p)
  PROVE  r.part = p /\ (p.op = "relationship" /\ r.status = "unavailable" => r.endpoints = {})
<1>2. CASE p.op = "relationship"
  <2>1. r = Relationship(p) BY <1>2 DEF Results
  <2> QED BY <2>1 DEF Relationship, NoResult
<1>3. ASSUME NEW c \in Structured(p) PROVE c.part = p
  <2> DEFINE M == Matched(p)
             counted == [NoResult(p) EXCEPT !.status = "exact", !.total = Cardinality(M),
                           !.breakdown = IF Cardinality(p.classes) > 1 THEN Buckets(M, ClassOf) ELSE {},
                           !.examples = FirstOf(M, Examples(p))]
  <2>1. \/ c = NoResult(p) \/ c = [NoResult(p) EXCEPT !.status = "zero", !.total = 0]
        \/ c = Aggregated(counted, M) \/ (\E d : c = [counted EXCEPT !.distribution = d]) \/ c = counted
    BY <1>3 DEF Structured
  <2>2. counted.part = p BY DEF NoResult
  <2>3. c = Aggregated(counted, M) => c.part = p BY DEF Aggregated, NoResult
  <2> QED BY <2>1, <2>2, <2>3 DEF NoResult
<1>4. CASE p.op \in {"description", "comparison"}
  <2>1. r \in Qualitative(p) BY <1>4 DEF Results
  <2>2. PICK c \in Structured(p) :
          r \in (IF p.ranking /\ c.status \in {"exact", "partial"}
                 THEN {[c EXCEPT !.ranked = Cardinality(ids), !.examples = IF ids = {} THEN @ ELSE FirstOf(ids, 3)] :
                          ids \in SUBSET Matched(p)} \cup {[c EXCEPT !.status = "partial"], c}
                 ELSE {c})
    BY <2>1 DEF Qualitative
  <2>3. CASE r = c BY <1>3, <1>4, <2>3
  <2>4. CASE r = [c EXCEPT !.status = "partial"]
    <3>1. r.part = c.part BY <2>4
    <3> QED BY <1>3, <1>4, <3>1
  <2>5. CASE \E ids : r = [c EXCEPT !.ranked = Cardinality(ids), !.examples = IF ids = {} THEN @ ELSE FirstOf(ids, 3)]
    <3>1. r.part = c.part BY <2>5
    <3> QED BY <1>3, <1>4, <3>1
  <2> QED BY <2>2, <2>3, <2>4, <2>5
<1>5. CASE p.op \notin {"relationship", "description", "comparison"}
  <2>1. r \in Structured(p) BY <1>5 DEF Results
  <2> QED BY <1>3, <1>5, <2>1
<1> QED BY <1>2, <1>4, <1>5
----------------------------------------------------------------------------
(***************************************************************************)
(* The inductive invariant: the results are those of the plan's parts, and *)
(* what is said and shown was made from them.                              *)
(***************************************************************************)
Executed ==
  /\ plan \in Plans /\ stage \in {"validated", "executed", "answered", "presented"}
  /\ stage # "validated" => DOMAIN results = DOMAIN plan /\ \A i \in DOMAIN plan : results[i] \in Results(plan[i])
SaidOfResults ==
  /\ stage \in {"validated", "executed"} => said = None
  /\ said # None => IF said.by = "backend" THEN \A i \in DOMAIN plan : said.lines[i] = FallbackLine(results[i])
                    ELSE Validated(said.draft, results)
ShownOfResults ==
  /\ stage # "presented" => card = None
  /\ card # None => lit = Hydrate(SelectVisual(results)) /\ card \in Cards(SelectVisual(results), lit)
IInv == Executed /\ SaidOfResults /\ ShownOfResults

LEMMA InitHolds == Init => IInv
BY DEF Init, IInv, Executed, SaidOfResults, ShownOfResults

LEMMA ExecuteHolds == IInv /\ Execute => IInv'
<1> SUFFICES ASSUME IInv, Execute PROVE IInv'
  OBVIOUS
<1> USE DEF Execute
<1>1. Executed'
  <2>1. DOMAIN results' = DOMAIN plan /\ \A i \in DOMAIN plan : results'[i] \in Results(plan[i])
    OBVIOUS
  <2> QED BY <2>1 DEF IInv, Executed
<1>2. SaidOfResults' BY DEF IInv, SaidOfResults
<1>3. ShownOfResults' BY DEF IInv, ShownOfResults
<1> QED BY <1>1, <1>2, <1>3 DEF IInv

LEMMA AnswerHolds == ASSUME NEW d \in Drafts, IInv, Answer(d) PROVE IInv'
<1> USE DEF Answer
<1>1. Executed' BY DEF IInv, Executed
<1>2. SaidOfResults'
  <2>1. DOMAIN results = DOMAIN plan BY DEF IInv, Executed
  <2>2. CASE Validated(d, results)
    <3>1. said' = [by |-> "model", draft |-> d] BY <2>2
    <3>2. said'.by = "model" /\ said'.draft = d BY <3>1
    <3>3. stage' = "answered" /\ results' = results OBVIOUS
    <3> QED BY <2>2, <3>2, <3>3 DEF SaidOfResults, Validated, KnownParts, ClaimHolds, StatusPreserved, Grounded
  <2>3. CASE ~Validated(d, results)
    <3>1. said' = [by |-> "backend", lines |-> [i \in DOMAIN results |-> FallbackLine(results[i])]] BY <2>3
    <3>2. said'.by = "backend" /\ \A i \in DOMAIN plan : said'.lines[i] = FallbackLine(results[i]) BY <2>1, <3>1
    <3>3. stage' = "answered" /\ results' = results /\ plan' = plan OBVIOUS
    <3> QED BY <3>2, <3>3 DEF SaidOfResults
  <2> QED BY <2>2, <2>3
<1>3. ShownOfResults' BY DEF IInv, ShownOfResults
<1> QED BY <1>1, <1>2, <1>3 DEF IInv

LEMMA PresentHolds == IInv /\ Present => IInv'
<1> SUFFICES ASSUME IInv, Present PROVE IInv'
  OBVIOUS
<1> USE DEF Present
<1>1. Executed' BY DEF IInv, Executed
<1>2. SaidOfResults' BY DEF IInv, SaidOfResults
<1>3. ShownOfResults' BY DEF ShownOfResults
<1> QED BY <1>1, <1>2, <1>3 DEF IInv

LEMMA InvariantHolds == Spec => []IInv
<1>1. IInv /\ [Next]_vars => IInv'
  <2> SUFFICES ASSUME IInv, [Next]_vars PROVE IInv'
    OBVIOUS
  <2>1. CASE Execute BY <2>1, ExecuteHolds
  <2>2. CASE \E d \in Drafts : Answer(d) BY <2>2, AnswerHolds
  <2>3. CASE Present BY <2>3, PresentHolds
  <2>4. CASE UNCHANGED vars
    BY <2>4 DEF vars, IInv, Executed, SaidOfResults, ShownOfResults
  <2> QED BY <2>1, <2>2, <2>3, <2>4 DEF Next
<1> QED BY InitHolds, <1>1, PTL DEF Spec

\* The parts of a plan in use are valid, and told apart by their ids.
LEMMA PlanIsValid ==
  ASSUME Executed
  PROVE  /\ \A i \in DOMAIN plan : ValidPart(plan[i])
         /\ DOMAIN plan \subseteq Nat /\ (\A i, j \in DOMAIN plan : plan[i].id = plan[j].id => i = j)
         /\ stage # "validated" => \A i \in DOMAIN plan : results[i].part = plan[i] /\ (Plain(plan[i]) => Told(results[i], plan[i]))
<1>1. plan \in Plans BY DEF Executed
<1>2. \A i \in DOMAIN plan : ValidPart(plan[i]) BY <1>1, PartsAreValid DEF ValidPart
<1>3. DOMAIN plan \subseteq Nat BY <1>1, PartsAreValid
<1>4. \A i, j \in DOMAIN plan : plan[i].id = plan[j].id => i = j BY <1>1, PartsAreValid
<1>5. ASSUME stage # "validated", NEW i \in DOMAIN plan
      PROVE  results[i].part = plan[i] /\ (Plain(plan[i]) => Told(results[i], plan[i]))
  <2>1. results[i] \in Results(plan[i]) BY <1>5 DEF Executed
  <2>2. results[i].part = plan[i] BY <2>1, PartOfResult
  <2>3. ASSUME Plain(plan[i]) PROVE Told(results[i], plan[i])
    <3>1. ValidPart(plan[i]) BY <1>2
    <3> QED BY <2>1, <2>3, <3>1, ResultIsTold
  <2> QED BY <2>2, <2>3
<1> QED BY <1>2, <1>3, <1>4, <1>5

----------------------------------------------------------------------------
(***************************************************************************)
(* What is delivered.                                                      *)
(***************************************************************************)
\* Six digits of a number of up to nine are the number, or near it.
LEMMA SixDigitsAreNear ==
  ASSUME NEW n \in Nat, n < Billion
  PROVE  /\ SixDigitsOf(n) \in Int
         /\ n < Million => SixDigitsOf(n) = n
         /\ SixDigitsOf(n) \in n - (n \div 100000) .. n + (n \div 100000)
<1> DEFINE P == {q \in Powers : n \div q < Million}
           p == Min(P)
           rest == n % p
           kept == n \div p
           s == SixDigitsOf(n)
<1>1. s = p * (IF 2 * rest > p \/ (2 * rest = p /\ kept % 2 = 1) THEN kept + 1 ELSE kept)
  BY DEF SixDigitsOf
<1>2. p \in P /\ \A q \in P : p <= q
  <2> DEFINE Is(x) == x \in P /\ \A q \in P : x <= q
  <2>1. 1000 \in P BY SMT DEF Powers, Million, Billion
  <2>2. \E x : Is(x)
    <3>1. P \subseteq {1, 10, 100, 1000} BY DEF Powers
    <3> HIDE DEF P
    <3>2. CASE 1 \in P BY <3>1, <3>2, SMT
    <3>3. CASE 1 \notin P /\ 10 \in P BY <3>1, <3>3, SMT
    <3>4. CASE 1 \notin P /\ 10 \notin P /\ 100 \in P BY <3>1, <3>4, SMT
    <3>5. CASE 1 \notin P /\ 10 \notin P /\ 100 \notin P BY <2>1, <3>1, <3>5, SMT
    <3> QED BY <3>2, <3>3, <3>4, <3>5
  <2>3. p = CHOOSE x \in P : \A q \in P : x <= q BY DEF Min
  <2> HIDE DEF P, p
  <2> QED BY <2>2, <2>3
<1>3. p = 1 \/ p = 10 \/ p = 100 \/ p = 1000 BY <1>2 DEF Powers
<1>4. (p = 1 => n < Million) /\ (p # 1 => 1 \notin P) /\ (p \in {100, 1000} => 10 \notin P) /\ (p = 1000 => 100 \notin P)
  <2>1. \A q \in P : q \in Int /\ n \div q < Million BY DEF Powers
  <2> HIDE DEF P, p
  <2>2. p = 1 => n < Million BY <1>2, <2>1, SMT
  <2> QED BY <1>2, <1>3, <2>2, SMT
<1>5. (p # 1 => n >= 1000000) /\ (p \in {100, 1000} => n >= 10000000) /\ (p = 1000 => n >= 100000000)
  <2>1. (1 \notin P => n >= 1000000) /\ (10 \notin P => n >= 10000000) /\ (100 \notin P => n >= 100000000)
    BY SMT DEF Powers, Million
  <2> HIDE DEF P, p
  <2> QED BY <1>4, <2>1, SMT
<1> HIDE DEF P, p, s
<1> DEFINE Close(w) == w \in Int /\ (n < Million => w = n) /\ w \in n - (n \div 100000) .. n + (n \div 100000)
<1>6. ASSUME p = 1 PROVE Close(s)
  <2>1. rest = 0 /\ kept = n BY <1>6, SMT
  <2>2. s = n BY <1>1, <1>6, <2>1, SMT
  <2>3. n \div 100000 \in Nat BY SMT
  <2> QED BY <2>2, <2>3, SMT
<1>7. ASSUME p = 10 PROVE Close(s)
  <2>1. kept \in Int /\ rest \in Nat /\ rest < 10 /\ n = 10 * kept + rest BY <1>7, SMT
  <2>2. s = 10 * kept \/ s = 10 * (kept + 1) BY <1>1, <1>7, SMT
  <2>3. n \div 100000 >= 10 /\ ~(n < Million) BY <1>5, <1>7, SMT DEF Million
  <2> HIDE DEF kept, rest
  <2> QED BY <2>1, <2>2, <2>3, SMT
<1>8. ASSUME p = 100 PROVE Close(s)
  <2>1. kept \in Int /\ rest \in Nat /\ rest < 100 /\ n = 100 * kept + rest BY <1>8, SMT
  <2>2. s = 100 * kept \/ s = 100 * (kept + 1) BY <1>1, <1>8, SMT
  <2>3. n \div 100000 >= 100 /\ ~(n < Million) BY <1>5, <1>8, SMT DEF Million
  <2> HIDE DEF kept, rest
  <2> QED BY <2>1, <2>2, <2>3, SMT
<1>9. ASSUME p = 1000 PROVE Close(s)
  <2>1. kept \in Int /\ rest \in Nat /\ rest < 1000 /\ n = 1000 * kept + rest BY <1>9, SMT
  <2>2. s = 1000 * kept \/ s = 1000 * (kept + 1) BY <1>1, <1>9, SMT
  <2>3. n \div 100000 >= 1000 /\ ~(n < Million) BY <1>5, <1>9, SMT DEF Million
  <2> HIDE DEF kept, rest
  <2> QED BY <2>1, <2>2, <2>3, SMT
<1>10. Close(s) BY <1>3, <1>6, <1>7, <1>8, <1>9, SMT
<1> QED BY <1>10 DEF s

LEMMA WrittenReadsAs ==
  ASSUME NEW t
  PROVE  ReadsAs(SixDigits(t), t) /\ ReadsAs(Written(t), t)
<1>1. ReadsAs(t, t) BY SMT DEF ReadsAs
<1>2. Million \in Nat /\ Billion \in Nat /\ 0 < Million /\ Million < Billion BY SMT DEF Million, Billion
<1>3. ReadsAs(SixDigits(t), t)
  <2>1. CASE t \in 0 .. Billion - 1
    <3>1. t \in Nat /\ t < Billion BY <1>2, <2>1, SMT
    <3>2. SixDigits(t) = SixDigitsOf(t) BY <3>1, SMT DEF SixDigits
    <3>3. /\ SixDigitsOf(t) \in Int /\ (t < Million => SixDigitsOf(t) = t)
          /\ SixDigitsOf(t) \in t - (t \div 100000) .. t + (t \div 100000)
      BY <3>1, SixDigitsAreNear
    <3> QED BY <1>2, <3>1, <3>2, <3>3, SMT DEF ReadsAs
  <2>2. CASE t \in 1 - Billion .. -1
    <3>1. t \in Int /\ t < 0 /\ -t \in Nat /\ -t < Billion BY <1>2, <2>2, SMT
    <3>2. SixDigits(t) = -SixDigitsOf(-t) BY <3>1, SMT DEF SixDigits
    <3>3. /\ SixDigitsOf(-t) \in Int /\ (-t < Million => SixDigitsOf(-t) = -t)
          /\ SixDigitsOf(-t) \in -t - (-t \div 100000) .. -t + (-t \div 100000)
      BY <3>1, SixDigitsAreNear
    <3>4. -SixDigits(t) = SixDigitsOf(-t) BY <3>2, <3>3, SMT
    <3>5. t \in 1 - Million .. Million - 1 => SixDigits(t) = t BY <1>2, <3>1, <3>2, <3>3, SMT
    <3>6. t \notin 0 .. Billion - 1 BY <1>2, <3>1, SMT
    <3> QED BY <3>3, <3>4, <3>5, <3>6 DEF ReadsAs
  <2>3. CASE t \notin 0 .. Billion - 1 /\ t \notin 1 - Billion .. -1
    <3>1. t \notin 1 - Million .. Million - 1 /\ t \notin 1 - Billion .. 0 BY <1>2, <2>3, SMT
    <3> QED BY <2>3, <3>1 DEF ReadsAs
  <2> QED BY <2>1, <2>2, <2>3
<1>4. Written(t) = t \/ Written(t) = SixDigits(t) BY Zenon DEF Written
<1> QED BY <1>1, <1>3, <1>4, Zenon

LEMMA FallbackIsTrue ==
  ASSUME NEW p, NEW r, Told(r, p)
  PROVE  LineIsTrue(FallbackLine(r), p)
<1> DEFINE l == FallbackLine(r)
<1>1. r.part = p BY DEF Told
<1>2. CASE r.status = "exact" /\ r.aggregate # None
  <2>1. l.says = "aggregate" /\ l.value = SixDigits(r.aggregate.value) BY <1>2 DEF FallbackLine
  <2>2. Established(p) /\ Known(p) = Meant(p) /\ Known(p) # {} /\ r.aggregate.value = Truth(p, "aggregate")
    BY <1>2 DEF Told
  <2>3. ReadsAs(l.value, Truth(p, "aggregate")) BY <2>1, <2>2, WrittenReadsAs
  <2> HIDE DEF l
  <2>4. LineIsTrue(l, p) BY <2>1, <2>2, <2>3 DEF LineIsTrue
  <2> QED BY <2>4 DEF l
<1>3. CASE r.status = "exact" /\ r.aggregate = None /\ p.op = "relationship"
  <2>1. l.says = "endpoints" /\ l.value = Ones(Cardinality(r.endpoints)) BY <1>1, <1>3 DEF FallbackLine
  <2>2. Established(p) /\ r.endpoints = Connected(p) BY <1>3 DEF Told
  <2>3. Truth(p, "endpoints") = Ones(Cardinality(Connected(p))) BY DEF Truth
  <2> QED BY <2>1, <2>2, <2>3 DEF LineIsTrue
<1>4. CASE r.status = "exact" /\ r.aggregate = None /\ p.op # "relationship"
  <2>1. l.says = "total" /\ l.value = Ones(r.total) BY <1>1, <1>4 DEF FallbackLine
  <2>2. Established(p) /\ Ones(r.total) = Truth(p, "total")
    <3>1. r.total = Cardinality(Meant(p)) BY <1>4 DEF Told, Asked
    <3> QED BY <1>4, <3>1 DEF Told, Truth
  <2> QED BY <2>1, <2>2 DEF LineIsTrue
<1>5. CASE r.status = "zero"
  <2>1. l.says = "none_found" BY <1>5 DEF FallbackLine
  <2>2. Established(p) /\ Asked(p) = {} BY <1>5 DEF Told
  <2> QED BY <2>1, <2>2 DEF LineIsTrue
<1>6. CASE r.status = "unavailable"
  <2>1. l.says = "not_established" BY <1>6 DEF FallbackLine
  <2>2. ~Established(p) \/ (p.op \in {"aggregate", "extremum"} /\ (p.output # "measured" \/ Known(p) = {}))
    BY <1>6 DEF Told
  <2> QED BY <2>1, <2>2 DEF LineIsTrue
<1>7. CASE r.status = "partial"
  <2>1. l.says = "partly" BY <1>7 DEF FallbackLine
  <2>2. p.op \in {"aggregate", "extremum", "description", "comparison"} BY <1>7 DEF Told
  <2> QED BY <2>1, <2>2 DEF LineIsTrue
<1> QED BY <1>2, <1>3, <1>4, <1>5, <1>6, <1>7 DEF Told

\* A fact of the packet about a part is true; the count of a relationship's
\* endpoints only where the relationship was established.
LEMMA FactIsTrue ==
  ASSUME NEW p, NEW r, Told(r, p), NEW f \in FactsOf(r)
  PROVE  /\ f.part = p.id /\ f.kind \in {"total", "aggregate", "endpoints"}
         /\ f.kind = "endpoints" => p.op = "relationship"
         /\ ~(f.kind = "endpoints" /\ r.status = "unavailable") =>
              Established(p) /\ f.value = Truth(p, f.kind)
         /\ f.kind = "aggregate" => Known(p) # {} /\ f.unit = p.unit
         /\ f.kind = "endpoints" /\ r.status = "unavailable" => f.value = 0
<1>1. r.part = p BY DEF Told
<1>2. \/ f = [part |-> p.id, kind |-> "total", value |-> Ones(r.total), unit |-> None] /\ r.total # None /\ p.op # "relationship"
      \/ f = [part |-> p.id, kind |-> "aggregate", value |-> r.aggregate.value, unit |-> p.unit] /\ r.aggregate # None
      \/ f = [part |-> p.id, kind |-> "endpoints", value |-> Ones(Cardinality(r.endpoints)), unit |-> None] /\ p.op = "relationship"
  BY <1>1 DEF FactsOf
<1>3. CASE f = [part |-> p.id, kind |-> "total", value |-> Ones(r.total), unit |-> None] /\ r.total # None /\ p.op # "relationship"
  BY <1>3 DEF Told
<1>4. CASE f = [part |-> p.id, kind |-> "aggregate", value |-> r.aggregate.value, unit |-> p.unit] /\ r.aggregate # None
  BY <1>4 DEF Told
<1>5. CASE f = [part |-> p.id, kind |-> "endpoints", value |-> Ones(Cardinality(r.endpoints)), unit |-> None] /\ p.op = "relationship"
  <2>1. f.part = p.id /\ f.kind = "endpoints" /\ f.value = Ones(Cardinality(r.endpoints)) BY <1>5
  <2>2. Truth(p, "endpoints") = Ones(Cardinality(Connected(p))) BY DEF Truth
  <2>3. r.status # "unavailable" => Established(p) /\ r.endpoints = Connected(p) BY <1>5 DEF Told
  <2>4. r.status = "unavailable" => f.value = 0
    <3>1. One * 0 = 0 BY OneIsPositive
    <3>2. r.status = "unavailable" => Cardinality(r.endpoints) = 0 BY <1>5, FS_EmptySet DEF Told
    <3> QED BY <2>1, <3>1, <3>2 DEF Ones
  <2> QED BY <1>5, <2>1, <2>2, <2>3, <2>4
<1> QED BY <1>2, <1>3, <1>4, <1>5
\* answer_validation.py: whatever the plan, the objects, their relationships and
\* the draft are, a number that reaches the user as a claim about a part, or as
\* the backend's own line about it, is the number the model's objects give, a
\* measure in such a line to the digits that are written.
THEOREM DeliveredNumbersAreTrue == Spec => []DeliveredIsTrue
<1>1. IInv => DeliveredIsTrue
  <2> SUFFICES ASSUME IInv, said # None PROVE DeliveredIsTrue
    BY DEF DeliveredIsTrue
  <2>1. Executed /\ stage # "validated" BY DEF IInv, SaidOfResults
  <2>2. /\ \A i \in DOMAIN plan : results[i].part = plan[i] /\ (Plain(plan[i]) => Told(results[i], plan[i]))
        /\ \A i, j \in DOMAIN plan : plan[i].id = plan[j].id => i = j
        /\ DOMAIN results = DOMAIN plan
    <3>1. DOMAIN results = DOMAIN plan BY <2>1 DEF Executed
    <3> QED BY <2>1, <3>1, PlanIsValid
  <2>3. CASE said.by = "backend"
    <3>1. \A i \in DOMAIN plan : said.lines[i] = FallbackLine(results[i]) BY <2>3 DEF IInv, SaidOfResults
    <3>2. ASSUME NEW i \in DOMAIN plan, Plain(plan[i]) PROVE LineIsTrue(said.lines[i], plan[i])
      <4>1. LineIsTrue(FallbackLine(results[i]), plan[i]) BY <2>2, <3>2, FallbackIsTrue
      <4> QED BY <3>1, <4>1
    <3> QED BY <2>3, <3>2 DEF DeliveredIsTrue
  <2>4. CASE said.by # "backend"
    <3> DEFINE d == said.draft
               c == said.draft.claim
    <3>1. Validated(d, results) BY <2>4 DEF IInv, SaidOfResults
    <3>2. ASSUME c # None, NEW i \in DOMAIN plan, plan[i].id = c.part, Plain(plan[i]),
                 c.kind = "endpoints" => c.part \in d.listed /\ c.value # None /\ d.legible
          PROVE  /\ Established(plan[i])
                 /\ c.kind = "aggregate" => Known(plan[i]) # {}
                 /\ c.value # None => c.value = Truth(plan[i], c.kind)
                 /\ c.value = None => \E v \in d.spelled : ReadsAs(v, Truth(plan[i], c.kind))
                 /\ c.kind = "aggregate" /\ None \notin {c.unit, plan[i].unit} => c.unit = plan[i].unit
      <4> DEFINE p == plan[i]
                 r == results[i]
      <4>1. PICK f \in Facts(results) : f.part = c.part /\ f.kind = c.kind /\ Faithful(c, d, f)
        BY <3>1, <3>2 DEF Validated, ClaimHolds
      <4>2. PICK j \in DOMAIN results : f \in FactsOf(results[j]) BY DEF Facts
      <4>3. f.part = results[j].part.id BY <4>2 DEF FactsOf
      <4>4. j = i BY <2>2, <3>2, <4>1, <4>2, <4>3
      <4>5. Told(r, p) /\ f \in FactsOf(r) BY <2>2, <3>2, <4>2, <4>4
      <4>6. /\ ~(f.kind = "endpoints" /\ r.status = "unavailable") => Established(p) /\ f.value = Truth(p, f.kind)
            /\ f.kind = "aggregate" => Known(p) # {} /\ f.unit = p.unit
            /\ f.kind = "endpoints" /\ r.status = "unavailable" => f.value = 0
        BY <4>5, FactIsTrue
      <4>7. /\ IF c.value = None THEN Written(f.value) \in d.spelled ELSE c.value = f.value
            /\ f.unit # None /\ c.unit # None => c.unit = f.unit
        BY <4>1 DEF Faithful
      \* A count of nothing for a relationship that was not established was rejected.
      <4>8. ~(f.kind = "endpoints" /\ r.status = "unavailable")
        <5> SUFFICES ASSUME f.kind = "endpoints", r.status = "unavailable" PROVE FALSE
          OBVIOUS
        <5>1. c.part \in d.listed /\ c.value = 0 /\ d.legible BY <3>2, <4>1, <4>6, <4>7
        <5>2. c.part \in Parts(results)
          <6>1. c.part = results[i].part.id /\ i \in DOMAIN results BY <2>2, <3>2
          <6> QED BY <6>1 DEF Parts
        <5>3. ResultOf(results, c.part) = r
          <6> DEFINE k == CHOOSE x \in DOMAIN results : results[x].part.id = c.part
          <6>1. k \in DOMAIN results /\ results[k].part.id = c.part BY <2>2, <3>2
          <6> HIDE DEF k
          <6>2. k = i BY <2>2, <3>2, <6>1
          <6>3. ResultOf(results, c.part) = results[k] BY DEF ResultOf, k
          <6> QED BY <6>2, <6>3
        <5>4. ~(c.part = c.part /\ c.value = 0)
          <6>1. \A id \in d.listed \cap Parts(results) :
                  ResultOf(results, id).status = "unavailable" /\ d.claim # None => ~(d.claim.part = id /\ d.claim.value = 0)
            BY <3>1, <5>1 DEF Validated, StatusPreserved
          <6> QED BY <3>2, <5>1, <5>2, <5>3, <6>1
        <5> QED BY <5>1, <5>4
      <4>9. Established(p) /\ f.value = Truth(p, c.kind) BY <4>1, <4>6, <4>8
      <4>10. c.kind = "aggregate" => Known(p) # {} /\ f.unit = p.unit BY <4>1, <4>6
      <4>11. ReadsAs(Written(f.value), f.value) BY WrittenReadsAs
      <4> QED BY <4>7, <4>9, <4>10, <4>11
    <3> QED BY <2>4, <3>2 DEF DeliveredIsTrue
  <2> QED BY <2>3, <2>4
<1> QED BY InvariantHolds, <1>1, PTL
----------------------------------------------------------------------------
(***************************************************************************)
(* What is shown.                                                          *)
(***************************************************************************)
\* A set has a greatest member: the one with the fewest above it.
LEMMA GreatestObject ==
  ASSUME NEW S, S \subseteq Objects, S # {}
  PROVE  \E x \in S : \A y \in S : y <= x
<1> DEFINE Above(x) == {y \in S : y > x}
           T == {Cardinality(Above(x)) : x \in S}
<1>1. ASSUME NEW x \in S PROVE Above(x) \subseteq S /\ Cardinality(Above(x)) \in Nat
  <2>1. Above(x) \subseteq S OBVIOUS
  <2> QED BY <2>1, LessIsFewer
<1>2. T \subseteq Nat /\ T # {} BY <1>1
<1>3. PICK n \in T : \A m \in T : n <= m
  <2> HIDE DEF T
  <2> QED BY <1>2, Least
<1>4. PICK x \in S : n = Cardinality(Above(x)) OBVIOUS
<1>5. ASSUME NEW z \in S, ~(z <= x) PROVE FALSE
  <2>1. x \in Int /\ z \in Int /\ S \subseteq Int BY ObjectsAreFinite
  <2>2. Above(z) \subseteq Above(x) /\ z \in Above(x) /\ z \notin Above(z)
    <3>1. z > x /\ ~(z > z) BY <1>5, <2>1
    <3>2. \A y \in S : y \in Int BY <2>1
    <3>3. \A y \in S : y > z => y > x BY <2>1, <3>1, <3>2
    <3> QED BY <3>1, <3>3
  <2>3. Above(x) \subseteq S OBVIOUS
  <2>4. Above(x) \subseteq Objects BY <2>3
  <2>5. Cardinality(Above(z)) \in T OBVIOUS
  <2> HIDE DEF Above, T
  <2>6. Cardinality(Above(z)) <= Cardinality(Above(x)) /\ Cardinality(Above(z)) # Cardinality(Above(x))
    BY <2>2, <2>4, LessIsFewer
  <2>7. Cardinality(Above(x)) <= Cardinality(Above(z)) BY <1>3, <1>4, <2>5
  <2>8. Cardinality(Above(x)) \in Nat /\ Cardinality(Above(z)) \in Nat BY <1>1
  <2> QED BY <2>6, <2>7, <2>8
<1> QED BY <1>5

\* A bound keeps members only, more of them when it is higher, and not all of
\* them when there are more than it allows.
LEMMA FirstIsSome ==
  ASSUME NEW S, S \subseteq Objects, NEW n \in Nat
  PROVE  /\ FirstOf(S, n) \subseteq S
         /\ \A m \in Nat : m <= n => FirstOf(S, m) \subseteq FirstOf(S, n)
         /\ Cardinality(S) > n <=> FirstOf(S, n) # S
<1>1. FirstOf(S, n) \subseteq S BY DEF FirstOf
<1>2. ASSUME NEW o \in S PROVE {x \in S : x < o} \subseteq S /\ Cardinality({x \in S : x < o}) \in Nat
  <2>1. {x \in S : x < o} \subseteq S OBVIOUS
  <2> QED BY <2>1, LessIsFewer
<1>3. ASSUME NEW m \in Nat, m <= n PROVE FirstOf(S, m) \subseteq FirstOf(S, n)
  <2>1. ASSUME NEW o \in S, Cardinality({x \in S : x < o}) < m PROVE Cardinality({x \in S : x < o}) < n
    BY <1>2, <1>3, <2>1
  <2> QED BY <2>1 DEF FirstOf
<1>4. IsFiniteSet(S) /\ Cardinality(S) \in Nat BY ObjectsAreFinite
<1>5. ASSUME Cardinality(S) > n PROVE FirstOf(S, n) # S
  <2>1. S # {} BY <1>4, <1>5, FS_EmptySet
  <2>2. PICK g \in S : \A y \in S : y <= g BY <2>1, GreatestObject
  <2> DEFINE B == {x \in S : x < g}
  <2>3. S \subseteq Int BY ObjectsAreFinite
  <2>4. B = S \ {g}
    <3>1. \A y \in S : y \in Int BY <2>3
    <3>2. \A y \in S : y < g <=> y # g BY <2>2, <3>1
    <3> QED BY <3>2
  <2>5. Cardinality(B) = Cardinality(S) - 1 BY <1>4, <2>4, FS_RemoveElement
  <2>6. ~(Cardinality(B) < n) BY <1>4, <1>5, <2>5
  <2>7. g \notin FirstOf(S, n) BY <2>6 DEF FirstOf
  <2> QED BY <2>7
<1>6. ASSUME ~(Cardinality(S) > n) PROVE FirstOf(S, n) = S
  <2>1. Cardinality(S) <= n BY <1>4, <1>6
  <2> QED BY <2>1, FirstIsAll
<1> QED BY <1>1, <1>3, <1>5, <1>6

LEMMA CountIsOfTheSet ==
  ASSUME NEW S, NEW Of, NEW o \in S
  PROVE  Count(Buckets(S, Of), Of[o]) = Cardinality({x \in S : Of[x] = Of[o]})
<1> DEFINE b == CHOOSE x \in Buckets(S, Of) : x.key = Of[o]
           e == [key |-> Of[o], count |-> Cardinality({x \in S : Of[x] = Of[o]})]
<1>1. e \in Buckets(S, Of) /\ e.key = Of[o] BY DEF Buckets
<1>2. b \in Buckets(S, Of) /\ b.key = Of[o] BY <1>1
<1> HIDE DEF b, e
<1>3. b.count = Cardinality({x \in S : Of[x] = b.key})
  <2>1. PICK k : b = [key |-> k, count |-> Cardinality({x \in S : Of[x] = k})] BY <1>2 DEF Buckets
  <2> QED BY <2>1
<1>4. Count(Buckets(S, Of), Of[o]) = b.count BY <1>1 DEF Count, b
<1> QED BY <1>2, <1>3, <1>4

LEMMA SelectedIsOne ==
  ASSUME DOMAIN results \subseteq Nat, SelectVisual(results) # None
  PROVE  \E i \in DOMAIN results : SelectVisual(results) = results[i] /\ HasVisualResult(results[i])
<1> DEFINE V == Visual(results)
           explicit == {i \in V : results[i].part.id = PrimaryVisual(results)}
           from == IF explicit # {} THEN explicit ELSE V
<1>1. V # {} /\ SelectVisual(results) = results[Min(from)] BY DEF SelectVisual
<1>2. V \subseteq DOMAIN results /\ \A i \in V : HasVisualResult(results[i]) BY DEF Visual
<1>3. from \subseteq V /\ from # {} /\ from \subseteq Nat BY <1>1, <1>2
<1> HIDE DEF V, from
<1>4. \E x \in from : \A y \in from : x <= y BY <1>3, Least
<1>5. Min(from) \in from BY <1>4 DEF Min
<1> QED BY <1>1, <1>2, <1>3, <1>5

\* The groups of a highlight: disjoint, of what is lit, with the counts of the
\* whole they were cut from.
GroupsFit(groups, ids, S) ==
  /\ \A g \in groups :
       /\ g.ids # {} /\ g.ids \subseteq ids
       /\ g.count = Cardinality({o \in S : ClassOf[o] = g.key})
       /\ g.truncated = (g.count # Cardinality(g.ids))
  /\ \A g, h \in groups : g # h => g.ids \cap h.ids = {}

LEMMA GroupsAreOfTheWhole ==
  ASSUME NEW S, S \subseteq Objects, NEW l, l.ids \subseteq S, l.counts = Buckets(S, ClassOf),
         NEW r, r.breakdown = {} \/ r.breakdown = Buckets(S, ClassOf)
  PROVE  GroupsFit(Groups(r, l), l.ids, S)
<1> DEFINE exact == IF r.breakdown # {} THEN r.breakdown ELSE l.counts
           G(c) == Group(c, {o \in l.ids : ClassOf[o] = c}, exact)
<1>1. exact = Buckets(S, ClassOf) OBVIOUS
<1>2. \A g \in Groups(r, l) : \E o \in l.ids : g = G(ClassOf[o]) BY DEF Groups
<1> HIDE DEF exact
<1>3. ASSUME NEW g \in Groups(r, l), NEW o \in l.ids, g = G(ClassOf[o])
      PROVE  /\ g.key = ClassOf[o] /\ g.ids = {x \in l.ids : ClassOf[x] = ClassOf[o]}
             /\ g.count = Cardinality({x \in S : ClassOf[x] = g.key})
             /\ g.truncated = (g.count # Cardinality(g.ids))
  <2> DEFINE key == ClassOf[o]
             ids == {x \in l.ids : ClassOf[x] = ClassOf[o]}
             all == {x \in S : ClassOf[x] = ClassOf[o]}
  <2>1. /\ g.key = key /\ g.ids = ids /\ g.count = Count(exact, key)
        /\ g.truncated = (Count(exact, key) # None /\ Count(exact, key) > Cardinality(ids))
    BY <1>3 DEF Group
  <2>2. Count(exact, key) = Cardinality(all) BY <1>1, CountIsOfTheSet
  <2>3. ids \subseteq all /\ all \subseteq Objects OBVIOUS
  <2> HIDE DEF ids, all
  <2>4. Cardinality(ids) \in Nat /\ Cardinality(all) \in Nat /\ Cardinality(ids) <= Cardinality(all)
    BY <2>3, LessIsFewer, ObjectsAreFinite
  <2>5. Cardinality(all) # None BY <2>4, ObjectsAreIds
  <2>6. g.truncated = (Cardinality(all) > Cardinality(ids)) BY <2>1, <2>2, <2>5
  <2>7. (Cardinality(all) > Cardinality(ids)) = (Cardinality(all) # Cardinality(ids)) BY <2>4
  <2> QED BY <2>1, <2>2, <2>6, <2>7 DEF ids, all
<1> HIDE DEF G
<1>4. ASSUME NEW g \in Groups(r, l)
      PROVE  /\ g.ids # {} /\ g.ids \subseteq l.ids
             /\ g.count = Cardinality({o \in S : ClassOf[o] = g.key})
             /\ g.truncated = (g.count # Cardinality(g.ids))
  <2>1. PICK o \in l.ids : g = G(ClassOf[o]) BY <1>2
  <2>2. o \in {x \in l.ids : ClassOf[x] = ClassOf[o]} OBVIOUS
  <2> QED BY <1>3, <2>1, <2>2
<1>5. ASSUME NEW g \in Groups(r, l), NEW h \in Groups(r, l), g # h
      PROVE  g.ids \cap h.ids = {}
  <2>1. PICK o \in l.ids : g = G(ClassOf[o]) BY <1>2
  <2>2. PICK p \in l.ids : h = G(ClassOf[p]) BY <1>2
  <2>3. ClassOf[o] # ClassOf[p] BY <1>5, <2>1, <2>2
  <2>4. g.ids = {x \in l.ids : ClassOf[x] = ClassOf[o]} /\ h.ids = {x \in l.ids : ClassOf[x] = ClassOf[p]}
    BY <1>3, <2>1, <2>2
  <2> QED BY <2>3, <2>4
<1> QED BY <1>4, <1>5 DEF GroupsFit
LEMMA NearIsOfObjects ==
  ASSUME NEW S, S \subseteq Objects, NEW d \in Nat
  PROVE  Near(S, d) \subseteq Objects
<1> DEFINE g == CHOOSE x : NearUpTo(x, d, S)
<1>1. NearUpTo(g, d, S) BY NearExists
<1>2. Near(S, d) = g[d] BY DEF Near, NearUpTo
<1> HIDE DEF g
<1>3. g = [n \in 0 .. d |-> IF n = 0 THEN S ELSE g[n - 1] \cup Touching(g[n - 1])] BY <1>1 DEF NearUpTo
<1> DEFINE G == {n \in 0 .. d : g[n] \subseteq Objects}
<1>4. 0 \in G BY <1>3
<1>5. ASSUME NEW n \in 1 .. d, n - 1 \in G PROVE n \in G
  <2>1. n \in 0 .. d /\ n # 0 OBVIOUS
  <2>2. g[n] = g[n - 1] \cup Touching(g[n - 1]) BY <1>3, <2>1
  <2>3. Touching(g[n - 1]) \subseteq Objects BY RowsAreOfObjects DEF Touching, LinkRows
  <2> QED BY <1>5, <2>1, <2>2, <2>3
<1>6. G \subseteq 0 .. d /\ d \in 0 .. d OBVIOUS
<1> HIDE DEF G
<1>7. d \in G BY <1>4, <1>5, <1>6, UpTo
<1> QED BY <1>2, <1>7 DEF G

LEMMA AskedIsOfObjects ==
  ASSUME NEW p, ValidPart(p), Plain(p)
  PROVE  Asked(p) \subseteq Objects
<1>1. CASE p.op = "relationship"
  <2>1. Starts(p) \subseteq Objects BY <1>1, StartsAreSeeds
  <2>2. p.depth \in Nat BY DEF ValidPart
  <2>3. Connected(p) \subseteq Objects BY <2>1, <2>2, NearIsOfObjects DEF Connected
  <2> QED BY <1>1, <2>3 DEF Asked
<1>2. CASE p.op # "relationship" BY <1>2, MatchedIsMeant DEF Asked
<1> QED BY <1>1, <1>2

LEMMA RowsAndGroups ==
  ASSUME NEW r, NEW l, NEW c \in Presentations(r, l)
  PROVE  /\ \/ c.rows = {} \/ c.rows = FirstOf(l.ids, MaxRows)
            \/ r.part.op = "relationship" /\ c.rows = FirstOf(r.endpoints, MaxRows)
         /\ c.groups = {} \/ c.groups = Groups(r, l)
<1> DEFINE plain == [kind |-> None, rows |-> {}, bars |-> {}, graph |-> None, groups |-> {}]
           graph == Graph(r, l.ids)
<1>1. CASE r.part.op \in {"count", "list"}
  <2>1. c = [plain EXCEPT !.kind = "result_table", !.rows = FirstOf(l.ids, MaxRows), !.groups = Groups(r, l)]
    BY <1>1 DEF Presentations
  <2> QED BY <2>1
<1>2. CASE r.part.op = "group_distribution"
  <2>1. \E b : c = [plain EXCEPT !.kind = IF Cardinality(b) > 1 THEN "bar_chart" ELSE "group_table", !.bars = b]
    BY <1>2 DEF Presentations
  <2> QED BY <2>1
<1>3. CASE r.part.op = "relationship"
  <2>1. \/ c = [plain EXCEPT !.kind = "relationship_graph", !.graph = graph]
        \/ c = [plain EXCEPT !.kind = "relationship_table", !.rows = FirstOf(r.endpoints, MaxRows), !.groups = Groups(r, l)]
    BY <1>3 DEF Presentations
  <2> HIDE DEF graph
  <2> QED BY <1>3, <2>1
<1>4. CASE r.part.op \notin {"count", "list", "group_distribution", "relationship"}
  <2>1. c = plain BY <1>4 DEF Presentations
  <2> QED BY <2>1
<1> QED BY <1>1, <1>2, <1>3, <1>4

\* The part a card is about, its result, and what was chosen to present it.
CardOf(r, l, c) ==
  [part |-> r.part.id, status |-> r.status, exact |-> r.total, shown |-> Cardinality(l.ids),
   total |-> l.total, truncated |-> l.truncated, aggregate |-> r.aggregate,
   kind |-> c.kind, rows |-> c.rows, bars |-> c.bars, graph |-> c.graph, groups |-> c.groups]
Presents(p, r, c) ==
  /\ PlanOf(card.part) = p /\ ValidPart(p) /\ Told(r, p) /\ r \in Results(p)
  /\ r # None /\ r.status \in {"exact", "partial"} /\ r.total # 0
  /\ lit = Hydrate(r) /\ lit.ids # {} /\ c \in Presentations(r, lit) /\ card = CardOf(r, lit, c) /\ c.kind # None

LEMMA CardIsOfOnePart ==
  ASSUME IInv, card # None, Plain(PlanOf(card.part))
  PROVE  \E p, r, c : Presents(p, r, c)
<1> DEFINE r == SelectVisual(results)
<1>1. Executed /\ stage # "validated" /\ lit = Hydrate(r) /\ card \in Cards(r, lit)
  BY DEF IInv, ShownOfResults
<1>2. r # None /\ lit.ids # {} BY <1>1 DEF Cards
<1>3. PICK c \in Presentations(r, lit) : card = IF c.kind = None THEN None ELSE CardOf(r, lit, c)
  BY <1>1, <1>2 DEF Cards, CardOf
<1>4. card = CardOf(r, lit, c) /\ c.kind # None BY <1>3
<1>5. card.part = r.part.id BY <1>4 DEF CardOf
<1>6. DOMAIN results = DOMAIN plan /\ DOMAIN plan \subseteq Nat
  BY <1>1, PlanIsValid DEF Executed
<1>7. PICK i \in DOMAIN plan : r = results[i] /\ HasVisualResult(results[i]) BY <1>2, <1>6, SelectedIsOne
<1> DEFINE p == plan[i]
<1>8. r.part = p /\ ValidPart(p) /\ (Plain(p) => Told(r, p)) BY <1>1, <1>7, PlanIsValid
<1>9. r \in Results(p) BY <1>1, <1>7 DEF Executed
<1>10. PlanOf(card.part) = p
  <2> DEFINE k == CHOOSE x \in DOMAIN plan : plan[x].id = card.part
  <2>1. k \in DOMAIN plan /\ plan[k].id = card.part BY <1>5, <1>8
  <2> HIDE DEF k
  <2>2. k = i BY <1>1, <1>5, <1>8, <2>1, PlanIsValid
  <2>3. PlanOf(card.part) = plan[k] BY DEF PlanOf, k
  <2> QED BY <2>2, <2>3
<1>11. Told(r, p) BY <1>8, <1>10
<1>12. r.status \in {"exact", "partial"} /\ r.total # 0 BY <1>7 DEF HasVisualResult
<1>13. c \in Presentations(r, lit) OBVIOUS
<1> HIDE DEF r, p
<1>14. Presents(p, r, c) BY <1>1, <1>2, <1>4, <1>8, <1>9, <1>10, <1>11, <1>12, <1>13 DEF Presents
<1> QED BY <1>14

\* viewer.py, presentation.py: for any plan and any bounds the card describes the
\* highlighted part and no other, its rows and groups stay within the highlight,
\* and its totals are those of the whole result.
THEOREM CardDescribesHighlight == Spec => []CardShowsHighlight
<1>1. IInv => CardShowsHighlight
  <2> SUFFICES ASSUME IInv, card # None, Plain(PlanOf(card.part))
               PROVE  LET p == PlanOf(card.part)
                          whole == Asked(p)
                      IN /\ lit.ids # {} /\ lit.ids \subseteq whole
                         /\ card.total = Cardinality(whole) /\ card.exact = card.total
                         /\ card.truncated = (lit.ids # whole) /\ card.shown = Cardinality(lit.ids)
                         /\ card.rows \subseteq lit.ids
                         /\ \A g \in card.groups :
                              /\ g.ids # {} /\ g.ids \subseteq lit.ids
                              /\ g.count = Cardinality({o \in whole : ClassOf[o] = g.key})
                              /\ g.truncated = (g.count # Cardinality(g.ids))
                         /\ \A g, h \in card.groups : g # h => g.ids \cap h.ids = {}
    BY DEF CardShowsHighlight
  <2>1. PICK p, r, c : Presents(p, r, c) BY CardIsOfOnePart
  <2> DEFINE S == Asked(p)
  <2>2. /\ lit = Hydrate(r) /\ lit.ids # {} /\ c \in Presentations(r, lit) /\ card = CardOf(r, lit, c)
        /\ Told(r, p) /\ ValidPart(p) /\ r # None /\ r.status \in {"exact", "partial"}
    BY <2>1 DEF Presents
  <2>3. /\ card.part = r.part.id /\ card.exact = r.total /\ card.shown = Cardinality(lit.ids) /\ card.total = lit.total
        /\ card.truncated = lit.truncated /\ card.rows = c.rows /\ card.groups = c.groups
    BY <2>2 DEF CardOf
  <2>4. r.part = p BY <2>2 DEF Told
  <2>5. PlanOf(card.part) = p /\ Plain(p) BY <2>1 DEF Presents
  <2>6. lit = Capped(S)
    <3>1. CASE p.op = "relationship"
      <4>1. lit = Capped(r.endpoints) BY <2>2, <2>4, <3>1 DEF Hydrate
      <4>2. r.endpoints = Connected(p) BY <2>2, <3>1 DEF Told
      <4> QED BY <2>2, <3>1, <4>1, <4>2 DEF Asked, ValidPart
    <3>2. CASE p.op # "relationship"
      <4>1. lit = IF p.classes = {} THEN NoHighlight ELSE Capped(Matched(p)) BY <2>2, <2>4, <3>2 DEF Hydrate
      <4>2. p.classes # {} BY <2>2, <4>1 DEF NoHighlight
      <4>3. Matched(p) = S BY <2>2, <3>2, MatchedIsMeant DEF Asked
      <4> QED BY <2>2, <4>1, <4>2, <4>3 DEF ValidPart
    <3> QED BY <3>1, <3>2
  <2>7. S \subseteq Objects BY <2>2, <2>5, AskedIsOfObjects
  <2>8. r.total = Cardinality(S) BY <2>2, <2>6 DEF Told
  <2>9. r.breakdown = {} \/ r.breakdown = Buckets(S, ClassOf) BY <2>2 DEF Told, Asked
  <2>10. p.op = "relationship" => r.endpoints = S BY <2>2 DEF Told, Asked
  <2> HIDE DEF S
  <2>11. /\ lit.ids = FirstOf(S, MaxIdentities) /\ lit.total = Cardinality(S)
         /\ lit.truncated = (Cardinality(S) > MaxIdentities) /\ lit.counts = Buckets(S, ClassOf)
    BY <2>6 DEF Capped
  <2>12. MaxIdentities \in Nat /\ MaxRows \in Nat /\ MaxRows <= MaxIdentities BY BoundsAreCounts
  <2>13. lit.ids \subseteq S /\ lit.truncated = (lit.ids # S) BY <2>7, <2>11, <2>12, FirstIsSome
  <2>14. card.rows \subseteq lit.ids
    <3>1. \/ c.rows = {} \/ c.rows = FirstOf(lit.ids, MaxRows)
          \/ r.part.op = "relationship" /\ c.rows = FirstOf(r.endpoints, MaxRows)
      BY <2>2, RowsAndGroups
    <3>2. FirstOf(lit.ids, MaxRows) \subseteq lit.ids BY DEF FirstOf
    <3>3. FirstOf(S, MaxRows) \subseteq lit.ids BY <2>7, <2>11, <2>12, FirstIsSome
    <3> QED BY <2>3, <2>4, <2>10, <3>1, <3>2, <3>3
  <2>15. card.groups = {} \/ card.groups = Groups(r, lit) BY <2>2, <2>3, RowsAndGroups
  <2>16. /\ \A g \in card.groups :
              /\ g.ids # {} /\ g.ids \subseteq lit.ids
              /\ g.count = Cardinality({o \in S : ClassOf[o] = g.key})
              /\ g.truncated = (g.count # Cardinality(g.ids))
         /\ \A g, h \in card.groups : g # h => g.ids \cap h.ids = {}
    <3>1. CASE card.groups = {} BY <3>1
    <3>2. CASE card.groups = Groups(r, lit)
      <4>1. GroupsFit(Groups(r, lit), lit.ids, S) BY <2>7, <2>9, <2>11, <2>13, GroupsAreOfTheWhole
      <4> QED BY <3>2, <4>1 DEF GroupsFit
    <3> QED BY <2>15, <3>1, <3>2
  <2>17. Asked(PlanOf(card.part)) = S BY <2>5 DEF S
  <2>18. card.total = Cardinality(S) /\ card.exact = card.total /\ card.truncated = (lit.ids # S)
    BY <2>3, <2>8, <2>11, <2>13
  <2> QED BY <2>2, <2>3, <2>13, <2>14, <2>16, <2>17, <2>18
<1> QED BY InvariantHolds, <1>1, PTL
----------------------------------------------------------------------------
(***************************************************************************)
(* What a diagram adds up to.                                              *)
(***************************************************************************)
LEMMA OneForOne ==
  ASSUME NEW S, NEW T, IsFiniteSet(S), NEW f \in [S -> T],
         \A x, y \in S : f[x] = f[y] => x = y, \A t \in T : \E x \in S : f[x] = t
  PROVE  IsFiniteSet(T) /\ Cardinality(T) = Cardinality(S)
<1>1. f \in Surjection(S, T) BY DEF Surjection
<1>2. f \in Injection(S, T) BY DEF Injection, IsInjective
<1>3. f \in Bijection(S, T) BY <1>1, <1>2 DEF Bijection
<1>4. ExistsBijection(S, T) BY <1>3 DEF ExistsBijection
<1> QED BY <1>4, FS_Bijection

\* Objects counted by what they fall under add up to all of them.
LEMMA SumIsTheWhole ==
  ASSUME NEW C, IsFiniteSet(C), NEW end, NEW E, IsFiniteSet(E),
         \A e \in E : e.count = Cardinality({c \in C : end[c] = e.ends}),
         \A e, g \in E : e.ends = g.ends => e = g,
         \A c \in C : \E e \in E : e.ends = end[c]
  PROVE  MapThenSumSet(LAMBDA e : e.count, E) = Cardinality(C)
<1> DEFINE Under(T) == {c \in C : \E e \in T : e.ends = end[c]}
           one(T) == CHOOSE x \in T : TRUE
           Right(f) == f = [T \in SUBSET E |-> IF T = {} THEN 0 ELSE one(T).count + f[T \ {one(T)}]]
           sum == CHOOSE f : Right(f)
           n(T) == Cardinality(Under(T))
           count == [T \in SUBSET E |-> n(T)]
<1>1. ASSUME NEW T \in SUBSET E, T # {}
      PROVE  one(T) \in T /\ n(T) = one(T).count + n(T \ {one(T)})
  <2> DEFINE x == one(T)
             U == Under(T \ {x})
             V == {c \in C : end[c] = x.ends}
  <2>1. x \in T BY <1>1
  <2> HIDE DEF x
  <2>2. Under(T) = U \cup V /\ U \cap V = {} BY <2>1
  <2>3. U \subseteq C /\ V \subseteq C OBVIOUS
  <2>4. x.count = Cardinality(V) BY <2>1
  <2> HIDE DEF U, V, Under
  <2>5. IsFiniteSet(U) /\ IsFiniteSet(V) BY <2>3, FS_Subset
  <2>6. Cardinality(U) \in Nat /\ Cardinality(V) \in Nat BY <2>5, FS_CardinalityType
  <2>7. Cardinality(U \cup V) = Cardinality(U) + Cardinality(V) - Cardinality(U \cap V) BY <2>5, FS_Union
  <2>8. Cardinality(U \cap V) = 0 BY <2>2, FS_EmptySet
  <2>9. n(T) = Cardinality(U) + Cardinality(V) BY <2>2, <2>6, <2>7, <2>8
  <2>10. n(T \ {x}) = Cardinality(U) BY DEF U
  <2> QED BY <2>1, <2>4, <2>6, <2>9, <2>10 DEF x
<1>2. n({}) = 0 BY FS_EmptySet
<1> HIDE DEF n
<1>3. Right(count)
  <2> DEFINE rhs == [T \in SUBSET E |-> IF T = {} THEN 0 ELSE one(T).count + count[T \ {one(T)}]]
  <2>1. ASSUME NEW T \in SUBSET E PROVE n(T) = IF T = {} THEN 0 ELSE one(T).count + count[T \ {one(T)}]
    <3>1. CASE T = {} BY <1>2, <3>1
    <3>2. CASE T # {}
      <4>1. n(T) = one(T).count + n(T \ {one(T)}) BY <1>1, <3>2
      <4>2. count[T \ {one(T)}] = n(T \ {one(T)}) OBVIOUS
      <4> HIDE DEF count, one
      <4> QED BY <3>2, <4>1, <4>2
    <3> QED BY <3>1, <3>2
  <2> HIDE DEF one, count
  <2>2. count = rhs BY <2>1 DEF count
  <2> QED BY <2>2 DEF one
<1>4. Right(sum)
  <2> HIDE DEF Right, count
  <2> QED BY <1>3
<1>5. MapThenSumSet(LAMBDA e : e.count, E) = sum[E] BY DEF MapThenSumSet, MapThenFoldSet
<1> HIDE DEF sum, count
<1>6. \A T \in SUBSET E : sum[T] = IF T = {} THEN 0 ELSE one(T).count + sum[T \ {one(T)}]
  <2> HIDE DEF one
  <2> QED BY <1>4 DEF one
<1> HIDE DEF one
<1> DEFINE N == Cardinality(E)
           G == {k \in 0 .. N : \A T \in SUBSET E : Cardinality(T) = k => sum[T] = n(T)}
<1>7. N \in Nat BY FS_CardinalityType
<1>8. 0 \in G
  <2>1. ASSUME NEW T \in SUBSET E, Cardinality(T) = 0 PROVE sum[T] = n(T)
    <3>1. IsFiniteSet(T) BY FS_Subset
    <3>2. T = {} BY <2>1, <3>1, FS_EmptySet
    <3> QED BY <1>2, <1>6, <3>2
  <2> QED BY <1>7, <2>1
<1>9. ASSUME NEW k \in 1 .. N, k - 1 \in G PROVE k \in G
  <2>1. ASSUME NEW T \in SUBSET E, Cardinality(T) = k PROVE sum[T] = n(T)
    <3> DEFINE x == one(T)
    <3>1. IsFiniteSet(T) BY FS_Subset
    <3>2. T # {}
      <4>1. k # 0 BY <1>7
      <4> QED BY <2>1, <4>1, FS_EmptySet
    <3>3. x \in T /\ n(T) = x.count + n(T \ {x}) BY <1>1, <3>2
    <3>4. sum[T] = x.count + sum[T \ {x}] BY <1>6, <3>2
    <3>5. Cardinality(T \ {x}) = k - 1 BY <2>1, <3>1, <3>3, FS_RemoveElement
    <3>6. T \ {x} \in SUBSET E OBVIOUS
    <3>7. sum[T \ {x}] = n(T \ {x}) BY <1>9, <3>5, <3>6
    <3> QED BY <3>3, <3>4, <3>7
  <2>2. k \in 0 .. N OBVIOUS
  <2> QED BY <2>1, <2>2
<1>10. G \subseteq 0 .. N /\ N \in 0 .. N BY <1>7
<1> HIDE DEF G, N
<1>11. N \in G BY <1>7, <1>8, <1>9, <1>10, UpTo
<1>12. sum[E] = n(E) BY <1>11 DEF G, N
<1>13. Under(E) = C OBVIOUS
<1> QED BY <1>5, <1>12, <1>13 DEF n
\* What the traversal of a part met, and the objects its answer claims.
Claimed(p) == Starts(p) \cup Connected(p)
MetOf(p) == IF p.depth = 0 THEN {} ELSE Met(Near(Starts(p), p.depth - 1))

LEMMA HopsOfResult ==
  ASSUME NEW p, ValidPart(p), Plain(p), p.op = "relationship", NEW r \in Results(p), r.status \in {"exact", "partial"}
  PROVE  /\ r.part = p /\ r.seeds = Starts(p) /\ r.endpoints = Connected(p) /\ r.cut \in BOOLEAN
         /\ ~r.cut => r.hops = {h \in MetOf(p) : {h.from.of, h.to.of} \subseteq Claimed(p)}
<1> DEFINE seeds == Seeds(p)
           walk == Walk(seeds, p.depth)
           endpoints == {o \in walk.visited \ seeds : p.reaches # {} => ClassOf[o] \in p.reaches}
           kept == Retained(walk.hops, seeds \cup endpoints)
<1>1. r = Relationship(p) BY DEF Results, ValidPart
<1>2. r = IF p.relation # "recorded" \/ seeds = {} THEN NoResult(p)
          ELSE IF endpoints = {} THEN [NoResult(p) EXCEPT !.status = "zero", !.total = 0]
          ELSE [NoResult(p) EXCEPT !.status = "exact", !.total = Cardinality(endpoints),
                  !.endpoints = endpoints, !.examples = FirstOf(endpoints, 3),
                  !.seeds = seeds, !.hops = kept.hops, !.cut = kept.cut]
  BY <1>1 DEF Relationship
<1>3. seeds = Starts(p) /\ walk.visited = Near(Starts(p), p.depth) /\ walk.hops = MetOf(p)
  BY StartsAreSeeds DEF MetOf
<1>4. endpoints = Connected(p) BY <1>3 DEF Connected
<1>5. kept.cut \in BOOLEAN /\ (~kept.cut => kept.hops = {h \in MetOf(p) : {h.from.of, h.to.of} \subseteq Claimed(p)})
  BY <1>3, <1>4 DEF Retained, Claimed
<1> HIDE DEF walk, endpoints, kept, seeds
<1>6. r = [NoResult(p) EXCEPT !.status = "exact", !.total = Cardinality(endpoints),
             !.endpoints = endpoints, !.examples = FirstOf(endpoints, 3),
             !.seeds = seeds, !.hops = kept.hops, !.cut = kept.cut]
  BY <1>2 DEF NoResult
<1>7. r.part = p /\ r.seeds = seeds /\ r.endpoints = endpoints /\ r.cut = kept.cut /\ r.hops = kept.hops
  BY <1>6 DEF NoResult
<1> QED BY <1>3, <1>4, <1>5, <1>7

\* The nodes and edges of a diagram of the connections C, and what its edges count.
KeysOf(C, seeds) == {NodeKey(s, seeds) : s \in Sides(C)}
EndsOf(C, seeds) == {EdgeKey(c, seeds) : c \in C}
NodesOf(C, seeds, shown) == {Node(C, k, seeds, shown) : k \in KeysOf(C, seeds)}
EdgesOf(C, seeds) == {Edge(C, e, seeds) : e \in EndsOf(C, seeds)}
Counted(edges) == MapThenSumSet(LAMBDA e : e.count, edges)
LinksOf(H) == {Key(Connection(h)) : h \in H}

LEMMA DrawnGraph ==
  ASSUME NEW r, NEW shown, r.cut \in BOOLEAN, Graph(r, shown).why = None
  PROVE  LET C == Connections(r.hops) IN
         /\ ~r.cut /\ r.hops # {} /\ r.endpoints \subseteq {s.of : s \in Sides(C)}
         /\ ~(Cardinality(KeysOf(C, r.seeds)) < MinNodes) /\ ~(Cardinality(KeysOf(C, r.seeds)) > MaxNodes)
         /\ ~(Cardinality(EndsOf(C, r.seeds)) > MaxEdges)
         /\ Graph(r, shown).nodes = NodesOf(C, r.seeds, shown) /\ Graph(r, shown).edges = EdgesOf(C, r.seeds)
<1> DEFINE C == Connections(r.hops)
           keys == KeysOf(C, r.seeds)
           ends == EndsOf(C, r.seeds)
           none(why) == [nodes |-> {}, edges |-> {}, why |-> why]
           unusable == r.hops = {} \/ r.seeds = {} \/ \E h \in r.hops : ~Usable(h)
           linked == r.endpoints \subseteq {s.of : s \in Sides(C)}
           few == Cardinality(keys) < MinNodes
           many == Cardinality(keys) > MaxNodes \/ Cardinality(ends) > MaxEdges
           nodes == NodesOf(C, r.seeds, shown)
           edges == EdgesOf(C, r.seeds)
           g == Graph(r, shown)
<1>1. r.cut => g = none("too_large") BY DEF Graph
<1>2. ~r.cut /\ unusable => g = none("incomplete") BY DEF Graph
<1>3. ~r.cut /\ ~unusable =>
        g = IF ~linked THEN none("incomplete") ELSE IF few THEN none("too_few") ELSE IF many THEN none("too_large")
            ELSE [nodes |-> nodes, edges |-> edges, why |-> None]
  BY DEF Graph, KeysOf, EndsOf, NodesOf, EdgesOf
<1>4. g.why = None OBVIOUS
<1> HIDE DEF unusable, linked, few, many, nodes, edges, g
<1>5. ~r.cut /\ ~unusable /\ linked /\ ~few /\ ~many /\ g.nodes = nodes /\ g.edges = edges
  BY <1>1, <1>2, <1>3, <1>4, NoneIsNoReason
<1> QED BY <1>5 DEF unusable, linked, few, many, nodes, edges, g

LEMMA PresentedGraph ==
  ASSUME NEW r, NEW l, NEW c \in Presentations(r, l), c.kind = "relationship_graph", c.kind # None
  PROVE  r.part.op = "relationship" /\ Graph(r, l.ids).why = None /\ c.graph = Graph(r, l.ids)
<1> DEFINE plain == [kind |-> None, rows |-> {}, bars |-> {}, graph |-> None, groups |-> {}]
           graph == Graph(r, l.ids)
<1>1. CASE r.part.op \in {"count", "list"}
  <2>1. c = [plain EXCEPT !.kind = "result_table", !.rows = FirstOf(l.ids, MaxRows), !.groups = Groups(r, l)]
    BY <1>1 DEF Presentations
  <2>2. c.kind = "result_table" BY <2>1
  <2> QED BY <2>2
<1>2. CASE r.part.op = "group_distribution"
  <2>1. PICK b : c = [plain EXCEPT !.kind = IF Cardinality(b) > 1 THEN "bar_chart" ELSE "group_table", !.bars = b]
    BY <1>2 DEF Presentations
  <2>2. c.kind = IF Cardinality(b) > 1 THEN "bar_chart" ELSE "group_table" BY <2>1
  <2> QED BY <2>2
<1>3. CASE r.part.op = "relationship"
  <2>1. c = IF graph.why = None THEN [plain EXCEPT !.kind = "relationship_graph", !.graph = graph]
            ELSE [plain EXCEPT !.kind = "relationship_table", !.rows = FirstOf(r.endpoints, MaxRows), !.groups = Groups(r, l)]
    BY <1>3 DEF Presentations
  <2> HIDE DEF graph
  <2>2. CASE graph.why = None
    <3>1. c.graph = graph BY <2>1, <2>2
    <3> QED BY <1>3, <2>2, <3>1 DEF graph
  <2>3. CASE graph.why # None
    <3>1. c.kind = "relationship_table" BY <2>1, <2>3
    <3> QED BY <3>1
  <2> QED BY <2>2, <2>3
<1>4. CASE r.part.op \notin {"count", "list", "group_distribution", "relationship"}
  <2>1. c = plain BY <1>4 DEF Presentations
  <2> QED BY <2>1
<1> QED BY <1>1, <1>2, <1>3, <1>4

\* Connections are hops told apart by their key.
LEMMA ConnectionsAreCounted ==
  ASSUME NEW H, \A h \in H : h.from \in MemberRows /\ h.to \in MemberRows
  PROVE  /\ \A c \in Connections(H) : /\ c.source \in MemberRows /\ c.target \in MemberRows
                                      /\ \E h \in H : {c.source, c.target} = {h.from, h.to}
         /\ IsFiniteSet(Connections(H)) /\ Sides(Connections(H)) \subseteq MemberRows
         /\ Cardinality(Connections(H)) = Cardinality(LinksOf(H))
<1> DEFINE all == {Connection(h) : h \in H}
           K == {Key(c) : c \in all}
           C == Connections(H)
           P == MemberRows \X MemberRows
<1>1. C = {CHOOSE c \in all : Key(c) = k : k \in K} BY DEF Connections
<1>2. \A h \in H : /\ Connection(h) = [source |-> Connection(h).source, target |-> Connection(h).target]
                   /\ Connection(h).source \in MemberRows /\ Connection(h).target \in MemberRows
                   /\ {Connection(h).source, Connection(h).target} = {h.from, h.to}
  BY DEF Connection
<1>3. \A k \in K : (CHOOSE c \in all : Key(c) = k) \in all /\ Key(CHOOSE c \in all : Key(c) = k) = k OBVIOUS
<1>4. \A c \in C : c \in all /\ c = CHOOSE x \in all : Key(x) = Key(c) BY <1>1, <1>3
<1>5. \A k \in K : \E c \in C : Key(c) = k BY <1>1, <1>3
<1>6. K = LinksOf(H) BY DEF LinksOf
<1>7. \A c \in all : /\ c = [source |-> c.source, target |-> c.target] /\ c.source \in MemberRows /\ c.target \in MemberRows
                     /\ \E h \in H : {c.source, c.target} = {h.from, h.to}
  BY <1>2
<1> HIDE DEF all, C
<1>8. IsFiniteSet(P) BY RowsAreStored, FS_Product
<1>9. IsFiniteSet(C)
  <2> DEFINE f == [c \in C |-> <<c.source, c.target>>]
  <2>1. f \in [C -> P] BY <1>4, <1>7
  <2>2. ASSUME NEW x \in C, NEW y \in C, f[x] = f[y] PROVE x = y
    <3>1. x.source = y.source /\ x.target = y.target BY <2>2
    <3>2. x = [source |-> x.source, target |-> x.target] /\ y = [source |-> y.source, target |-> y.target] BY <1>4, <1>7
    <3> QED BY <3>1, <3>2
  <2> HIDE DEF f, P
  <2>3. f \in Injection(C, P) BY <2>1, <2>2 DEF Injection, IsInjective
  <2> QED BY <1>8, <2>3, FS_Injection
<1>10. Cardinality(K) = Cardinality(C)
  <2> DEFINE f == [c \in C |-> Key(c)]
  <2>1. \A c \in C : Key(c) \in K BY <1>4
  <2> HIDE DEF K
  <2>2. f \in [C -> K] BY <2>1
  <2>3. ASSUME NEW x \in C, NEW y \in C, f[x] = f[y] PROVE x = y
    <3>1. Key(x) = Key(y) BY <2>3
    <3> QED BY <1>4, <3>1
  <2>4. \A k \in K : \E c \in C : f[c] = k BY <1>5
  <2> HIDE DEF f
  <2> QED BY <1>9, <2>2, <2>3, <2>4, OneForOne
<1>11. Sides(C) \subseteq MemberRows BY <1>4, <1>7 DEF Sides
<1> QED BY <1>4, <1>6, <1>7, <1>9, <1>10, <1>11 DEF C
LEMMA NodesAndEdges ==
  ASSUME NEW C, IsFiniteSet(C), Sides(C) \subseteq MemberRows, NEW seeds, NEW shown
  PROVE  /\ Cardinality(NodesOf(C, seeds, shown)) = Cardinality(KeysOf(C, seeds)) /\ Cardinality(KeysOf(C, seeds)) \in Nat
         /\ Cardinality(EdgesOf(C, seeds)) = Cardinality(EndsOf(C, seeds)) /\ Cardinality(EndsOf(C, seeds)) \in Nat
         /\ Counted(EdgesOf(C, seeds)) = Cardinality(C)
<1> DEFINE keys == {NodeKey(s, seeds) : s \in Sides(C)}
           ends == {EdgeKey(c, seeds) : c \in C}
           nodes == {Node(C, k, seeds, shown) : k \in keys}
           edges == {Edge(C, e, seeds) : e \in ends}
<1>1. IsFiniteSet(keys)
  <2> DEFINE f == [s \in Sides(C) |-> NodeKey(s, seeds)]
  <2>1. IsFiniteSet(Sides(C)) BY RowsAreStored, FS_Subset
  <2>2. f \in Surjection(Sides(C), keys) BY DEF Surjection
  <2> HIDE DEF f, keys
  <2> QED BY <2>1, <2>2, FS_Surjection
<1>2. IsFiniteSet(ends)
  <2> DEFINE f == [c \in C |-> EdgeKey(c, seeds)]
  <2>1. f \in Surjection(C, ends) BY DEF Surjection
  <2> HIDE DEF f, ends
  <2> QED BY <2>1, FS_Surjection
<1>3. Cardinality(nodes) = Cardinality(keys)
  <2> DEFINE f == [k \in keys |-> Node(C, k, seeds, shown)]
  <2> HIDE DEF keys
  <2>1. f \in [keys -> nodes] /\ \A n \in nodes : \E k \in keys : f[k] = n OBVIOUS
  <2>2. \A k \in keys : f[k].key = k BY DEF Node
  <2> HIDE DEF f, nodes
  <2>3. \A j, k \in keys : f[j] = f[k] => j = k BY <2>2
  <2> QED BY <1>1, <2>1, <2>3, OneForOne
<1>4. IsFiniteSet(edges) /\ Cardinality(edges) = Cardinality(ends)
  <2> DEFINE f == [k \in ends |-> Edge(C, k, seeds)]
  <2> HIDE DEF ends
  <2>1. f \in [ends -> edges] /\ \A n \in edges : \E k \in ends : f[k] = n OBVIOUS
  <2>2. \A k \in ends : f[k].ends = k BY DEF Edge
  <2> HIDE DEF f, edges
  <2>3. \A j, k \in ends : f[j] = f[k] => j = k BY <2>2
  <2> QED BY <1>2, <2>1, <2>3, OneForOne
<1>5. MapThenSumSet(LAMBDA e : e.count, edges) = Cardinality(C)
  <2> DEFINE end == [c \in C |-> EdgeKey(c, seeds)]
  <2>1. ASSUME NEW e \in edges
        PROVE  e = [ends |-> e.ends, count |-> Cardinality({c \in C : EdgeKey(c, seeds) = e.ends})]
    <3>1. PICK k \in ends : e = [ends |-> k, count |-> Cardinality({c \in C : EdgeKey(c, seeds) = k})] BY DEF Edge
    <3>2. e.ends = k BY <3>1
    <3> QED BY <3>1, <3>2
  <2>2. ASSUME NEW e \in edges PROVE e.count = Cardinality({c \in C : end[c] = e.ends})
    <3>1. {c \in C : end[c] = e.ends} = {c \in C : EdgeKey(c, seeds) = e.ends} OBVIOUS
    <3>2. e.count = Cardinality({c \in C : EdgeKey(c, seeds) = e.ends})
      <4> HIDE DEF edges
      <4> QED BY <2>1
    <3> QED BY <3>1, <3>2
  <2>3. ASSUME NEW e \in edges, NEW g \in edges, e.ends = g.ends PROVE e = g
    <3> HIDE DEF edges
    <3> QED BY <2>1, <2>3
  <2>4. ASSUME NEW c \in C PROVE \E e \in edges : e.ends = end[c]
    <3>1. Edge(C, EdgeKey(c, seeds), seeds) \in edges OBVIOUS
    <3>2. Edge(C, EdgeKey(c, seeds), seeds).ends = EdgeKey(c, seeds) BY DEF Edge
    <3>3. end[c] = EdgeKey(c, seeds) OBVIOUS
    <3> QED BY <3>1, <3>2, <3>3
  <2> HIDE DEF end, edges
  <2> QED BY <1>4, <2>2, <2>3, <2>4, SumIsTheWhole
<1>6. Cardinality(keys) \in Nat /\ Cardinality(ends) \in Nat BY <1>1, <1>2, FS_CardinalityType
<1>7. keys = KeysOf(C, seeds) /\ ends = EndsOf(C, seeds) BY DEF KeysOf, EndsOf
<1>8. nodes = NodesOf(C, seeds, shown) /\ edges = EdgesOf(C, seeds) BY DEF NodesOf, EdgesOf, KeysOf, EndsOf
<1>9. Counted(edges) = Cardinality(C) BY <1>5 DEF Counted
<1> HIDE DEF keys, ends, nodes, edges
<1> QED BY <1>3, <1>4, <1>6, <1>7, <1>8, <1>9

\* The stored connections that touch where the traversal was before its last
\* step, between objects the answer claims.
MetRows(p) ==
  {l \in LinkRows : /\ l[1].role \in Relating /\ l[1].of \in Claimed(p) /\ l[2].of \in Claimed(p)
                    /\ {l[1].of, l[2].of} \cap Near(Starts(p), p.depth - 1) # {}}

StoredLinks(p) == {<<l[1].rel, l[1].of, l[2].of>> : l \in MetRows(p)}

LEMMA HopsAreMetRows ==
  ASSUME NEW p, p.depth # 0, Claimed(p) \subseteq Objects,
         NEW H, H = {h \in MetOf(p) : {h.from.of, h.to.of} \subseteq Claimed(p)}
  PROVE  /\ \A h \in H : h.from \in MemberRows /\ h.to \in MemberRows
         /\ LinksOf(H) = StoredLinks(p)
<1> DEFINE X == Near(Starts(p), p.depth - 1)
<1>1. MetOf(p) = Met(X) BY DEF MetOf
<1> HIDE DEF X
<1>2. ASSUME NEW h \in H
      PROVE  /\ h = Hop(h.from, h.to) /\ h.from \in MemberRows /\ h.to \in MemberRows /\ h.from.of \in X
             /\ Opposite(h.from, h.to) /\ h.from.rel = h.to.rel /\ h.from # h.to
             /\ h.from.of \in Claimed(p) /\ h.to.of \in Claimed(p)
  BY <1>1, InMet
<1>3. ASSUME NEW m \in MemberRows, NEW n \in MemberRows, m.rel = n.rel, m # n, Opposite(m, n), m.role \in Relating,
             m.of \in Claimed(p), n.of \in Claimed(p), m.of \in X \/ n.of \in X
      PROVE  <<m, n>> \in MetRows(p)
  <2> DEFINE l == <<m, n>>
  <2>1. None \notin {m.of, n.of} BY <1>3, ObjectsAreIds
  <2>2. l[1] = m /\ l[2] = n /\ l \in MemberRows \X MemberRows OBVIOUS
  <2> HIDE DEF l
  <2>3. l \in LinkRows BY <1>3, <2>1, <2>2 DEF LinkRows
  <2>4. {l[1].of, l[2].of} \cap X # {} BY <1>3, <2>2
  <2>5. l \in MetRows(p) BY <1>3, <2>2, <2>3, <2>4 DEF MetRows, X
  <2> QED BY <2>5 DEF l
<1>4. ASSUME NEW h \in H
      PROVE  \E l \in MetRows(p) : Key(Connection(h)) = <<l[1].rel, l[1].of, l[2].of>>
  <2>1. CASE h.from.role \in Relating
    <3>1. <<h.from, h.to>> \in MetRows(p) BY <1>2, <1>3, <2>1
    <3>2. Key(Connection(h)) = <<h.from.rel, h.from.of, h.to.of>> BY <2>1 DEF Key, Connection
    <3> DEFINE l == <<h.from, h.to>>
    <3>3. l[1] = h.from /\ l[2] = h.to OBVIOUS
    <3> HIDE DEF l
    <3> QED BY <3>1, <3>2, <3>3 DEF l
  <2>2. CASE h.from.role \notin Relating
    <3>1. Opposite(h.to, h.from) /\ h.to.role \in Relating BY <1>2, <2>2 DEF Opposite
    <3>2. <<h.to, h.from>> \in MetRows(p) BY <1>2, <1>3, <3>1
    <3>3. Key(Connection(h)) = <<h.to.rel, h.to.of, h.from.of>> BY <2>2 DEF Key, Connection
    <3> DEFINE l == <<h.to, h.from>>
    <3>4. l[1] = h.to /\ l[2] = h.from OBVIOUS
    <3> HIDE DEF l
    <3> QED BY <3>2, <3>3, <3>4 DEF l
  <2> QED BY <2>1, <2>2
<1>5. ASSUME NEW l \in MetRows(p)
      PROVE  \E h \in H : Key(Connection(h)) = <<l[1].rel, l[1].of, l[2].of>>
  <2> DEFINE m == l[1]
             n == l[2]
  <2>1. /\ m \in MemberRows /\ n \in MemberRows /\ m.rel = n.rel /\ m # n /\ Opposite(m, n)
        /\ m.role \in Relating /\ m.of \in Claimed(p) /\ n.of \in Claimed(p) /\ (m.of \in X \/ n.of \in X)
    BY DEF MetRows, LinkRows, X
  <2>2. n.role \in Related /\ n.role \notin Relating BY <2>1, RowsAreStored DEF Opposite
  <2> HIDE DEF m, n
  <2>3. CASE m.of \in X
    <3> DEFINE h == Hop(m, n)
    <3>1. h.from = m /\ h.to = n BY DEF Hop
    <3>2. h \in Met(X) BY <2>1, <2>3, InMet
    <3> HIDE DEF h
    <3>3. h \in H BY <1>1, <2>1, <3>1, <3>2
    <3>4. Key(Connection(h)) = <<m.rel, m.of, n.of>> BY <2>1, <3>1 DEF Key, Connection
    <3> QED BY <3>3, <3>4 DEF m, n
  <2>4. CASE n.of \in X
    <3> DEFINE h == Hop(n, m)
    <3>1. h.from = n /\ h.to = m BY DEF Hop
    <3>2. Opposite(n, m) BY <2>1 DEF Opposite
    <3>3. h \in Met(X) BY <2>1, <2>4, <3>2, InMet
    <3> HIDE DEF h
    <3>4. h \in H BY <1>1, <2>1, <3>1, <3>3
    <3>5. Key(Connection(h)) = <<m.rel, m.of, n.of>> BY <2>2, <3>1 DEF Key, Connection
    <3> QED BY <3>4, <3>5 DEF m, n
  <2> QED BY <2>1, <2>3, <2>4
<1>6. LinksOf(H) = StoredLinks(p) BY <1>4, <1>5 DEF LinksOf, StoredLinks
<1> QED BY <1>2, <1>6

LEMMA NodeKeepsItsObjects ==
  ASSUME NEW C, NEW k, NEW seeds, NEW shown, EntitiesOf(C, k, seeds) \subseteq Objects
  PROVE  LET n == Node(C, k, seeds, shown) IN
         /\ n.ids \subseteq EntitiesOf(C, k, seeds) /\ (~n.truncated => n.ids = EntitiesOf(C, k, seeds))
         /\ n.seed = (k = SeedKey) /\ (n.selectable => n.ids \subseteq shown)
<1> DEFINE T == EntitiesOf(C, k, seeds)
           n == Node(C, k, seeds, shown)
<1>1. n = [key |-> k, seed |-> k = SeedKey, count |-> Cardinality(T), ids |-> FirstOf(T, MaxNodeIds),
           truncated |-> Cardinality(T) > Cardinality(FirstOf(T, MaxNodeIds)),
           selectable |-> /\ k # SeedKey /\ FirstOf(T, MaxNodeIds) # {} /\ FirstOf(T, MaxNodeIds) \subseteq shown]
  BY DEF Node
<1> HIDE DEF T, n
<1>2. /\ n.ids = FirstOf(T, MaxNodeIds) /\ n.truncated = (Cardinality(T) > Cardinality(n.ids))
      /\ n.seed = (k = SeedKey) /\ (n.selectable => n.ids \subseteq shown)
  BY <1>1
<1>3. MaxNodeIds \in Nat BY BoundsAreNumbers
<1>4. T \subseteq Objects BY DEF T
<1>5. n.ids \subseteq T BY <1>2, <1>3, <1>4, FirstIsSome
<1>6. ASSUME ~n.truncated PROVE n.ids = T
  <2>1. Cardinality(n.ids) \in Nat /\ Cardinality(n.ids) <= Cardinality(T) /\ (Cardinality(n.ids) = Cardinality(T) => n.ids = T)
    BY <1>4, <1>5, LessIsFewer
  <2>2. Cardinality(T) \in Nat BY <1>4, ObjectsAreFinite
  <2>3. ~(Cardinality(T) > Cardinality(n.ids)) BY <1>2, <1>6
  <2> QED BY <2>1, <2>2, <2>3
<1> QED BY <1>2, <1>5, <1>6 DEF T, n

\* topology.py: a diagram of any size shows every object the answer claims, each
\* stored connection the traversal met once, however often it was found, and its
\* nodes select only what is highlighted; it stays within its bounds.
THEOREM DiagramShowsAll == Spec => []DiagramIsComplete
<1>1. IInv => DiagramIsComplete
  <2> SUFFICES ASSUME IInv, card # None, card.kind = "relationship_graph", Plain(PlanOf(card.part))
               PROVE  LET p == PlanOf(card.part)
                          nodes == card.graph.nodes
                      IN /\ Connected(p) \subseteq UNION {n.ids : n \in nodes} \/ \E n \in nodes : n.truncated
                         /\ \A n \in nodes : ~n.seed => n.ids \subseteq Connected(p)
                         /\ Counted(card.graph.edges) = Cardinality(StoredLinks(p))
                         /\ \A n \in nodes : n.selectable => n.ids \subseteq lit.ids
                         /\ Cardinality(nodes) \in MinNodes .. MaxNodes /\ Cardinality(card.graph.edges) <= MaxEdges
    BY DEF DiagramIsComplete, MetRows, Claimed, Counted, StoredLinks
  <2>1. PICK p, r, c : Presents(p, r, c) BY CardIsOfOnePart
  <2>2. /\ c \in Presentations(r, lit) /\ card = CardOf(r, lit, c) /\ c.kind # None /\ Told(r, p) /\ ValidPart(p)
        /\ r \in Results(p) /\ r.status \in {"exact", "partial"} /\ PlanOf(card.part) = p
    BY <2>1 DEF Presents
  <2>3. card.kind = c.kind /\ card.graph = c.graph /\ r.part = p BY <2>2 DEF CardOf, Told
  <2>4. p.op = "relationship" /\ Graph(r, lit.ids).why = None /\ c.graph = Graph(r, lit.ids)
    BY <2>2, <2>3, PresentedGraph
  <2>5. Plain(p) BY <2>2
  <2>6. /\ r.seeds = Starts(p) /\ r.endpoints = Connected(p) /\ r.cut \in BOOLEAN
        /\ ~r.cut => r.hops = {h \in MetOf(p) : {h.from.of, h.to.of} \subseteq Claimed(p)}
    BY <2>2, <2>4, <2>5, HopsOfResult
  <2> DEFINE H == r.hops
             C == Connections(H)
             seeds == r.seeds
             keys == KeysOf(C, seeds)
             ends == EndsOf(C, seeds)
             nodes == card.graph.nodes
             edges == card.graph.edges
  <2>7. /\ ~r.cut /\ H # {} /\ r.endpoints \subseteq {s.of : s \in Sides(C)}
        /\ ~(Cardinality(keys) < MinNodes) /\ ~(Cardinality(keys) > MaxNodes) /\ ~(Cardinality(ends) > MaxEdges)
        /\ nodes = NodesOf(C, seeds, lit.ids) /\ edges = EdgesOf(C, seeds)
    BY <2>3, <2>4, <2>6, DrawnGraph
  <2>8. H = {h \in MetOf(p) : {h.from.of, h.to.of} \subseteq Claimed(p)} BY <2>6, <2>7
  <2>9. p.depth # 0 BY <2>7, <2>8 DEF MetOf
  <2>10. Claimed(p) \subseteq Objects
    <3>1. Asked(p) = Connected(p) BY <2>4 DEF Asked
    <3>2. Asked(p) \subseteq Objects BY <2>2, <2>5, AskedIsOfObjects
    <3>3. Starts(p) \subseteq Objects BY <2>2, <2>4, <2>5, StartsAreSeeds
    <3> QED BY <3>1, <3>2, <3>3 DEF Claimed
  <2> HIDE DEF H
  <2>11. /\ \A h \in H : h.from \in MemberRows /\ h.to \in MemberRows
         /\ LinksOf(H) = StoredLinks(p)
    BY <2>8, <2>9, <2>10, HopsAreMetRows
  <2>12. /\ \A x \in C : \E h \in H : {x.source, x.target} = {h.from, h.to}
         /\ IsFiniteSet(C) /\ Sides(C) \subseteq MemberRows
         /\ Cardinality(C) = Cardinality(LinksOf(H))
    BY <2>11, ConnectionsAreCounted
  <2> HIDE DEF C, keys, ends, nodes, edges, seeds
  <2>13. /\ Cardinality(nodes) = Cardinality(keys) /\ Cardinality(keys) \in Nat
         /\ Cardinality(edges) = Cardinality(ends) /\ Cardinality(ends) \in Nat
         /\ Counted(edges) = Cardinality(C)
    BY <2>7, <2>12, NodesAndEdges DEF keys, ends
  \* The objects of a node are claimed; those of another than the seeds', endpoints.
  <2>14. ASSUME NEW k
         PROVE  /\ EntitiesOf(C, k, seeds) \subseteq Claimed(p)
                /\ k # SeedKey => EntitiesOf(C, k, seeds) \subseteq Connected(p)
    <3>1. ASSUME NEW s \in Sides(C) PROVE s.of \in Claimed(p)
      <4>1. PICK x \in C : s \in {x.source, x.target} BY DEF Sides
      <4>2. PICK h \in H : {x.source, x.target} = {h.from, h.to} BY <2>12
      <4>3. s = h.from \/ s = h.to BY <4>1, <4>2
      <4> QED BY <2>8, <4>3
    <3>2. ASSUME NEW s \in Sides(C), NodeKey(s, seeds) # SeedKey PROVE s.of \notin Starts(p)
      BY <2>6, <3>2 DEF NodeKey, seeds
    <3> QED BY <3>1, <3>2 DEF EntitiesOf, Claimed
  <2>15. ASSUME NEW n \in nodes
         PROVE  /\ ~n.seed => n.ids \subseteq Connected(p)
                /\ n.selectable => n.ids \subseteq lit.ids
    <3>1. PICK k \in keys : n = Node(C, k, seeds, lit.ids) BY <2>7 DEF NodesOf, keys
    <3>2. EntitiesOf(C, k, seeds) \subseteq Objects BY <2>10, <2>14
    <3>3. n.ids \subseteq EntitiesOf(C, k, seeds) /\ n.seed = (k = SeedKey) /\ (n.selectable => n.ids \subseteq lit.ids)
      BY <3>1, <3>2, NodeKeepsItsObjects
    <3> QED BY <2>14, <3>3
  <2>16. Connected(p) \subseteq UNION {n.ids : n \in nodes} \/ \E n \in nodes : n.truncated
    <3> SUFFICES ASSUME \A n \in nodes : ~n.truncated, NEW o \in Connected(p)
                 PROVE  \E n \in nodes : o \in n.ids
      OBVIOUS
    <3>1. PICK s \in Sides(C) : s.of = o BY <2>6, <2>7
    <3> DEFINE k == NodeKey(s, seeds)
               n == Node(C, k, seeds, lit.ids)
    <3>2. k \in keys BY DEF keys, KeysOf
    <3>3. o \in EntitiesOf(C, k, seeds) BY <3>1 DEF EntitiesOf
    <3> HIDE DEF k
    <3>4. n \in nodes BY <2>7, <3>2 DEF NodesOf, keys
    <3>5. EntitiesOf(C, k, seeds) \subseteq Objects BY <2>10, <2>14
    <3>6. ~n.truncated => n.ids = EntitiesOf(C, k, seeds) BY <3>5, NodeKeepsItsObjects
    <3> HIDE DEF n
    <3> QED BY <3>3, <3>4, <3>6
  <2>17. Cardinality(nodes) \in MinNodes .. MaxNodes /\ Cardinality(edges) <= MaxEdges
    BY <2>7, <2>13, BoundsAreNumbers
  <2>18. Counted(edges) = Cardinality(StoredLinks(p))
    BY <2>11, <2>12, <2>13
  <2> QED BY <2>2, <2>15, <2>16, <2>17, <2>18 DEF nodes, edges
<1> QED BY InvariantHolds, <1>1, PTL
=============================================================================
