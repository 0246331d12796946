----------------------------- MODULE MCManifest -----------------------------
(* Small files: one or two objects, one field seen through two units, and   *)
(* a few whole shapes of containers.                                        *)
EXTENDS SemanticManifest

Unit(k, t, n, p, f) == [kind |-> k, type |-> t, name |-> n, prefixed |-> p, factor |-> f]
Metre == Unit("si", "length", "metre", TRUE, None)
Odd   == Unit("si", "length", "oddmetre", FALSE, None)
Foot  == Unit("conversion", "length", "foot", TRUE, "0.3048")
Survey == Unit("conversion", "length", "foot", TRUE, "0.304801")
Money == Unit("money", None, "euro", TRUE, None)

MCOrder == <<"length", "area">>
ProjectUnits == {<<>>, <<Metre>>, <<Money, Foot>>, <<Odd>>}

Item(k, f, v, m, u) == [path |-> <<k, "set", f>>, value |-> v, measure |-> m, unit |-> u]
Object(items) == [class |-> "wall", items |-> items, failed |-> {}, materials |-> {"wood"},
                  references |-> {}, storey |-> FALSE]
Rels == {[class |-> "voids", members |-> {[role |-> "opening"]}], [class |-> "fills", members |-> {}]}
File(units, objects) == [units |-> units, objects |-> objects, rels |-> Rels]

Plain == {Item("property", "f", "a", None, None)}
Values(k) == {Item(k, "f", "number", m, u) : m \in Measures, u \in {None, Metre, Foot, Survey}}
OneItem == Plain \cup Values("property")

\* One field of two objects; one field written by the type and by the object.
Compared == {File(us, <<Object(<<a>>), Object(<<b>>)>>) : us \in ProjectUnits, a \in OneItem, b \in OneItem}
Layered  == {File(us, <<Object(<<a, b>>)>>) : us \in ProjectUnits, a \in OneItem, b \in OneItem}
Collided == {File(<<Metre>>, <<Object(<<a>>), Object(<<b>>)>>) : a \in OneItem, b \in Values("quantity")}

\* Containers without a schema, failed extractions, attributes that are noise.
Loose(kind) == [i \in 1 .. 3 |-> Object(<<[Item(kind, "f", "a", None, None) EXCEPT !.path[3] = i]>>)]
Named == [path |-> <<"attribute", "wall", "name">>, value |-> "noise", measure |-> None, unit |-> None]
Sized == [path |-> <<"measurement", "wall", "height">>, value |-> "number", measure |-> "length", unit |-> None]
Failing == [Object(<<Named, Sized, Item("property", "f", "a", None, None)>>) EXCEPT
              !.failed = {"property"}, !.storey = TRUE,
              !.references = {[code |-> "c1", description |-> "noise"]}]
Shapes == {File(<<Metre>>, Loose(k)) : k \in {"property", "quantity"}}
          \cup {File(us, <<Failing, Object(<<Named>>)>>) : us \in ProjectUnits}
          \cup {File(us, <<>>) : us \in ProjectUnits}

MCFiles == Compared \cup Layered \cup Collided \cup Shapes
MCPrevious == {[content |-> [containers |-> {}, sections |-> {}, fields |-> {FieldRecord(<<>>, <<"property", "set", "f">>, 1, 1,
   [measured |-> TRUE, state |-> "uniform", symbol |-> "metre", safe |-> TRUE])}], schema |-> 1]}
=============================================================================
