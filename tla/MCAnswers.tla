------------------------------ MODULE MCAnswers ------------------------------
(* Seven objects of three classes, the relationships between them, every     *)
(* part of a small family alone and some of them in pairs, and drafts that   *)
(* claim right and wrong numbers.                                            *)
EXTENDS Answers

Everything == 1 .. 7
MCClassOf == [o \in Everything |-> IF o <= 2 THEN 101 ELSE IF o <= 5 THEN 102 ELSE 103]
MCValue == [o \in Everything |-> CASE o = 1 -> 3000 [] o \in {3, 4} -> 2000 [] o = 5 -> 1234567 [] OTHER -> None]
MCKeyOf == [o \in Everything |-> CASE o \in {1, 2} -> 201 [] o = 3 -> 202 [] o = 4 -> 203 [] OTHER -> None]

\* Relationship n: what it relates and to what; the fourth names an end that
\* was not stored.
Ends == <<[one |-> 1, many |-> {3, 4}], [one |-> 2, many |-> {3, 6}], [one |-> 6, many |-> {1, 7}], [one |-> 7, many |-> {None, 5}]>>
Row(n, o, side) == [row |-> <<n, o>>, rel |-> n, of |-> o, role |-> side, class |-> IF o = None THEN None ELSE MCClassOf[o]]
MCMembers == UNION {{Row(n, Ends[n].one, "relating")} \cup {Row(n, o, "related") : o \in Ends[n].many} : n \in DOMAIN Ends}

Part(id, op) ==
  [id |-> id, op |-> op, where |-> Everything, classes |-> {101}, scope |-> None, unresolved |-> FALSE,
   output |-> "none", unit |-> None, words |-> {}, ranking |-> FALSE, relation |-> "recorded", depth |-> 1,
   reaches |-> {}, primary |-> FALSE]
Counts(id) == {[Part(id, op) EXCEPT !.classes = s, !.scope = k] :
                 op \in {"count", "list"}, s \in {{101}, {101, 102}, {101, 102, 103}, {}}, k \in {None, {1, 3}, {}}}
              \cup {[Part(id, "count") EXCEPT !.unresolved = TRUE]}
Sums(id) == {[Part(id, op) EXCEPT !.classes = s, !.where = w, !.output = o, !.unit = 301] :
               op \in {"aggregate", "extremum"}, s \in {{101}, {101, 102}}, w \in {Everything, {2}, {1, 3}, {1, 5}}, o \in {"measured", "mixed"}}
Groupings(id) == {[Part(id, "group_distribution") EXCEPT !.classes = s, !.output = o] :
                    s \in {{101}, {101, 102}, {102}}, o \in {"none", "text"}}
Described(id) == {[Part(id, "description") EXCEPT !.ranking = r, !.classes = s] : r \in BOOLEAN, s \in {{101}, {103}}}
Links(id) == {[Part(id, "relationship") EXCEPT !.classes = s, !.depth = d, !.reaches = e, !.scope = k] :
                s \in {{101}, {103}, {101, 102}, {}}, d \in {1, 2}, e \in {{}, {102}, {102, 103}}, k \in {None, {2}, {5}}}
             \cup {[Part(id, "relationship") EXCEPT !.relation = "none"]}
Family(id) == Counts(id) \cup Sums(id) \cup Groupings(id) \cup Described(id) \cup Links(id)
Short(id) == {[Part(id, "count") EXCEPT !.classes = {101, 102}], [Part(id, "count") EXCEPT !.unresolved = TRUE],
              [Part(id, "aggregate") EXCEPT !.output = "measured"], [Part(id, "relationship") EXCEPT !.classes = {103}]}
MCPlans == {<<p>> : p \in Family(1)}
           \cup {<<p, [q EXCEPT !.primary = b]>> : p \in Short(1), q \in Short(2), b \in BOOLEAN}

Claim(part, kind, value) == [part |-> part, kind |-> kind, value |-> value, unit |-> None, name |-> None]
\* A text with a number has its digits; 12 has those of 1 and 2 as well.
Digits(n) == IF n = 12000 THEN {12000, 1000, 2000} ELSE {n}
Draft(listed, claim, numbers) ==
  [listed |-> listed, claim |-> claim, numbers |-> numbers, spelled |-> UNION {Digits(n) : n \in numbers},
   regrets |-> FALSE, complete |-> FALSE, legible |-> TRUE]
Claims == {Claim(i, k, 1000 * v) : i \in {1, 2}, k \in {"total", "aggregate", "endpoints"}, v \in 0 .. 5}
MCDrafts ==
  {Draft(s, c, {}) : s \in {{1}, {1, 2}, {}}, c \in Claims}
  \cup {Draft({1}, Claim(1, "aggregate", v), {}) : v \in {1237567, 1237570}}
  \cup {Draft({1}, Claim(1, k, None), {n}) : k \in {"total", "aggregate"}, n \in {0, 2000, 3000, 12000, 1237567, 1237570}}
  \cup {[Draft({1}, c, {}) EXCEPT !.claim.name = n] : c \in {Claim(1, "total", 2000), Claim(1, "total", 5000)}, n \in {102, 202, 999}}
  \cup {Draft({1}, [Claim(1, "aggregate", 3000) EXCEPT !.unit = u], {}) : u \in {301, 302}}
  \cup {[Draft({1}, None, {}) EXCEPT !.regrets = s, !.complete = t, !.legible = l] : s, t, l \in BOOLEAN}
  \cup {[Draft({1}, Claim(1, "endpoints", 0), {}) EXCEPT !.legible = FALSE], Draft({9}, None, {})}
=============================================================================
