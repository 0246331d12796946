---------------------------- MODULE UnitRegistry ----------------------------
(***************************************************************************)
(* measures.py and measurement.py: the units of one IFC file.  A unit is   *)
(* described once and referred to by a key; a value is in the unit of its  *)
(* own override, or else in the file's default for its measure.            *)
(***************************************************************************)
EXTENDS Naturals, FiniteSets, Sequences

CONSTANTS MeasureOrder,  \* SUPPORTED_MEASURE_TYPES
          None
Measures == {MeasureOrder[i] : i \in DOMAIN MeasureOrder}
ASSUME MeasuresInOrder ==
  Len(MeasureOrder) \in Nat /\ DOMAIN MeasureOrder = 1 .. Len(MeasureOrder) /\ None \notin Measures

\* A unit of the file: kind ("si", "conversion", "context", "money"), the
\* measure its UnitType is for, its name and (conversion units) its factor.
\* prefixed: an SI unit whose prefix and name are in the symbol tables.
Resolvable(u) == u.kind = "conversion" \/ (u.kind = "si" /\ u.prefixed)

\* _unit_definition: None for what cannot be a unit of a value.
Definition(u) ==
  IF u = None \/ u.kind = "money" THEN None
  ELSE [kind |-> u.kind, type |-> u.type, name |-> u.name, resolved |-> Resolvable(u),
        factor |-> IF u.kind = "conversion" THEN u.factor ELSE None]

\* _definition_slug: two definitions may share it, the symbol leaves the factor out.
Slug(d) == <<d.type, IF d.kind = "si" /\ ~d.resolved THEN None ELSE d.name>>

\* _register_definition: the first key of the slug that is free or already d's.
Fits(reg, k, d) == k \in DOMAIN reg => reg[k] = d
\* Seeded bug: one definition per slug, the last one wins.
KeyOfSlug(reg, d) == <<Slug(d), 1>>
KeyOf(reg, d) ==
  LET Tries == 1 .. Cardinality(DOMAIN reg) + 1
  IN <<Slug(d), CHOOSE n \in Tries : /\ Fits(reg, <<Slug(d), n>>, d)
                                     /\ \A m \in 1 .. n - 1 : ~Fits(reg, <<Slug(d), m>>, d)>>

Register(reg, u) ==
  LET d == Definition(u)
  IN IF d = None THEN [reg |-> reg, key |-> None]
     ELSE LET k == KeyOf(reg, d)
          IN [reg |-> [x \in DOMAIN reg \cup {k} |-> IF x = k THEN d ELSE reg[x]], key |-> k]

\* build_unit_registry: the first unit of each type in IfcProject.UnitsInContext.
Declared(units, m) ==
  IF \E i \in DOMAIN units : units[i].type = m
  THEN units[CHOOSE i \in DOMAIN units : units[i].type = m /\ \A j \in 1 .. i - 1 : units[j].type # m]
  ELSE None

\* One unit after the other; one that is registered again keeps its key.
Empty == [x \in {} |-> None]
RegisterAll(reg, units) ==
  LET after[n \in 0 .. Len(units)] == IF n = 0 THEN reg ELSE Register(after[n - 1], units[n]).reg
  IN after[Len(units)]

DefaultsOf(units) ==
  LET reg == RegisterAll(Empty, [i \in DOMAIN MeasureOrder |-> Declared(units, MeasureOrder[i])])
  IN [reg |-> reg, defaults |-> [m \in Measures |-> Register(reg, Declared(units, m)).key]]

\* UnitRegistryView.symbol
Symbol(reg, k) == IF k # None /\ k \in DOMAIN reg /\ reg[k].resolved THEN reg[k].name ELSE None

-----------------------------------------------------------------------------
\* build_measure_facts: rows is a bag of observed (measure, override), one for
\* every object that carries the field.
Effective(r, defaults) == IF r.override # None THEN r.override ELSE defaults[r.measure]

\* Seeded bug: objects that give the field no measure are not counted.
MeasureFactsTypedOnly(rows, reg, defaults) ==
  LET typed == {r \in rows : r.measure # None}
      keys  == {Effective(r, defaults) : r \in typed}
      known == Cardinality(keys) = 1 /\ \A k \in keys : Symbol(reg, k) # None
  IN [measured |-> typed # {}, state |-> IF typed = {} THEN None ELSE IF known THEN "uniform" ELSE "unknown",
      symbol |-> IF known THEN Symbol(reg, CHOOSE k \in keys : TRUE) ELSE None, safe |-> known]
MeasureFacts(rows, reg, defaults) ==
  LET typed == {r \in rows : r.measure # None}
      types == {r.measure : r \in typed}
      keys  == {Effective(r, defaults) : r \in typed}
      state == IF Cardinality(types) > 1 \/ typed # rows THEN "unknown"
               ELSE IF Cardinality(keys) > 1 THEN "mixed"
               ELSE IF \E k \in keys : Symbol(reg, k) = None THEN "unknown" ELSE "uniform"
  IN IF typed = {} THEN [measured |-> FALSE, state |-> None, symbol |-> None, safe |-> FALSE]
     ELSE [measured |-> TRUE, state |-> state,
           symbol |-> IF state = "uniform" THEN Symbol(reg, CHOOSE k \in keys : TRUE) ELSE None,
           safe |-> state = "uniform"]
=============================================================================
