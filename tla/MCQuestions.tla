---------------------------- MODULE MCQuestions ----------------------------
(* Every question of up to three phrases of a small lexicon and some longer *)
(* ones, about one model; and every small set of storeys.                   *)
EXTENDS QuestionAnalysis

Phrase(spans, stems, word, content) ==
  [spans |-> spans, stems |-> stems, word |-> word, content |-> content, marker |-> "name" \in stems]
Content(stem) == Phrase({}, {stem}, TRUE, TRUE)
The == Phrase({}, {}, TRUE, FALSE)
Wall == Content("wall")
Fire == Content("fire")
Rating == Content("rating")
Name == Content("name")
Not == Phrase({"negation"}, {}, TRUE, FALSE)
Number == Phrase({"numeric_bound"}, {}, FALSE, FALSE)
Millimetres == Phrase({"numeric_bound", "unit"}, {}, TRUE, FALSE)
Quoted == Phrase({"quoted_value"}, {"wood"}, TRUE, TRUE)
Model == Phrase({"scope_reference"}, {"model"}, TRUE, TRUE)
Level == Phrase({"floor_reference", "scope_reference"}, {"level"}, TRUE, TRUE)
Those == Phrase({"previous_result_reference"}, {}, TRUE, FALSE)

Short == UNION {[1 .. n -> {The, Wall, Fire, Rating, Number, Quoted, Level, Model}] : n \in 0 .. 3}
Long == {<<Fire, Wall, The, Fire, Rating>>, <<Wall, Number, Rating, Not, Wall>>,
         <<Fire, The, Rating, The, Wall, Name>>, <<Those, Millimetres, Fire, Rating, Fire>>,
         <<Content("common"), The, Wall, The, Fire, Wall>>}

MCOntology ==
  [c \in {"IfcObject", "IfcProduct", "IfcElement", "IfcWall", "IfcWallStandardCase", "IfcSpace",
          "IfcTypeObject", "IfcWallType"} |->
     CASE c = "IfcObject" -> {}
       [] c = "IfcProduct" -> {"IfcObject"}
       [] c = "IfcElement" -> {"IfcProduct", "IfcObject"}
       [] c = "IfcWall" -> {"IfcElement", "IfcProduct", "IfcObject"}
       [] c = "IfcWallStandardCase" -> {"IfcWall", "IfcElement", "IfcProduct", "IfcObject"}
       [] c = "IfcSpace" -> {"IfcSpatialStructureElement", "IfcProduct", "IfcObject"}
       [] c = "IfcTypeObject" -> {}
       [] c = "IfcWallType" -> {"IfcTypeObject"}]
MCDescribes == ("IfcWallType" :> "IfcWall")

Concept(id, kind, name, values, class) ==
  [id |-> id, kind |-> kind, name |-> name, values |-> values, searchable |-> FALSE,
   addressable |-> kind # "material", class |-> class]
Class(id, name, class) == Concept(id, "class", name, <<>>, class)
Whole == {Class(1, {"wall"}, "IfcWall"), Class(2, {"wall", "case", "standard"}, "IfcWallStandardCase"),
          Class(3, {"space"}, "IfcSpace"), Class(4, {"vendor"}, "IfcVendor"), Class(5, {"type", "wall"}, "IfcWallType"),
          Concept(6, "property", {"fire", "rating"}, <<{"f"}>>, "IfcWall"),
          Concept(7, "property", {"common"}, <<{"fire"}, {"wood"}>>, "IfcWall"),
          Concept(8, "material", {"fire", "wall"}, <<>>, "IfcWall")}
MCSimilarity == [id \in 1 .. 8 |-> IF id \in {3, 6} THEN 30 ELSE IF id = 7 THEN 40 ELSE 0]

Ask(phrases, storeys, manifest, previous) ==
  [phrases |-> phrases, floorWords |-> \E i \in DOMAIN phrases : phrases[i] = Level,
   previous |-> previous, selected |-> previous, storeys |-> storeys, manifest |-> manifest]
Rows(E) == {[id |-> e, elevation |-> e] : e \in E}
MCRequests ==
  {Ask(q, Rows({0, 30}), Whole, Those \in ToSet(q)) : q \in Short \cup Long}
  \cup {Ask(<<Level, Wall>>, Rows(E), {Class(1, {"wall"}, "IfcWall")}, FALSE) :
          E \in SUBSET {None, -30, -1, 0, 2, 30, 36, 60}}
=============================================================================
