------------------------------ MODULE MCFields ------------------------------
(* Six objects of four classes, committed in one to three batches; a value   *)
(* in several spellings, one that is blank, one too long to be shown, one    *)
(* null, and a field with more distinct values than are read.                *)
EXTENDS FieldQueries

\* The values, in alphabetic order.
Blank == 0
PaddedRating == 1     \* " EI 30"
Twelve == 2
TwoHundred == 3
TwoHundredMm == 4     \* "200 mm"
Brick == 5            \* "Brick"
Rating == 6           \* "EI 30"
DashedRating == 7     \* "EI-30"
Yes == 8
LowerBrick == 9       \* "brick"
Bricks == 10          \* "bricks"
Room == 11
True == 12
TypeId == 13
Long == 14
LongCut == 15
Concrete == 16        \* in Cyrillic letters, which no reading but lower() keeps
LowerConcrete == 17

Read(v) == [lower |-> v, folded |-> v, stem |-> v, base |-> v, truth |-> None, number |-> None,
            magnitude |-> None, unit |-> None, noise |-> FALSE, short |-> TRUE, within |-> {v}, begins |-> {v},
            shown |-> v, plain |-> v]
NumberRead(v, n) == [Read(v) EXCEPT !.number = n, !.magnitude = n, !.noise = TRUE]
RatingRead(v) == [Read(v) EXCEPT !.folded = Rating, !.stem = Rating]
BrickRead(v) == [Read(v) EXCEPT !.stem = LowerBrick]
CyrillicRead(v) == [Read(v) EXCEPT !.lower = LowerConcrete, !.folded = None, !.stem = None]
MCReads ==
  (Blank :> [Read(Blank) EXCEPT !.folded = None, !.shown = None, !.noise = TRUE, !.short = FALSE])
  @@ (PaddedRating :> [RatingRead(PaddedRating) EXCEPT !.shown = Rating, !.plain = Rating])
  @@ (Twelve :> NumberRead(Twelve, 12)) @@ (TwoHundred :> NumberRead(TwoHundred, 200))
  @@ (TwoHundredMm :> [Read(TwoHundredMm) EXCEPT !.magnitude = 200, !.unit = "mm"])
  @@ (Brick :> [BrickRead(Brick) EXCEPT !.lower = LowerBrick, !.folded = LowerBrick, !.plain = LowerBrick])
  @@ (Rating :> [RatingRead(Rating) EXCEPT !.within = {PaddedRating, Rating}])
  @@ (DashedRating :> RatingRead(DashedRating))
  @@ (Yes :> [Read(Yes) EXCEPT !.truth = TRUE])
  @@ (LowerBrick :> [BrickRead(LowerBrick) EXCEPT !.within = {LowerBrick, Bricks}, !.begins = {LowerBrick, Bricks}])
  @@ (Bricks :> BrickRead(Bricks))
  @@ (Room :> Read(Room))
  @@ (True :> [Read(True) EXCEPT !.truth = TRUE])
  @@ (TypeId :> [Read(TypeId) EXCEPT !.noise = TRUE])
  @@ (Long :> [Read(Long) EXCEPT !.noise = TRUE, !.short = FALSE, !.shown = LongCut])
  @@ (Concrete :> [CyrillicRead(Concrete) EXCEPT !.plain = LowerConcrete]) @@ (LowerConcrete :> CyrillicRead(LowerConcrete))
  @@ (LongCut :> [Read(LongCut) EXCEPT !.noise = TRUE, !.short = FALSE])

\* The fields, in order of kind, set and name.
Field(kind, set, name, fact) == [kind |-> kind, set |-> set, name |-> name, fact |-> fact]
MCFieldTable ==
  <<Field("attribute", {}, {"name"}, "name_stem"), Field("attribute", {}, {"object", "type"}, "object_type"),
    Field("property", {"common"}, {"fire", "rating"}, "property_value"),
    Field("property", {"common"}, {"reference"}, "property_value"),
    Field("quantity", {"base"}, {"width"}, "none"), Field("quantity", {"other"}, {"width"}, "none"),
    Field("type_fact", {}, {"type", "name"}, "type_name"), Field("type_fact", {}, {"global", "id"}, "none"),
    Field("material", {}, {}, "material"), Field("measurement", {}, {"height"}, "none")>>
Object(id, class, leaf) == [id |-> id, class |-> class, leaf |-> leaf]
Wall == Object(1, "IfcWall", (2 :> Brick) @@ (3 :> Rating) @@ (5 :> TwoHundred) @@ (4 :> PaddedRating))
Other == Object(2, "IfcWall", (2 :> LowerBrick) @@ (3 :> DashedRating) @@ (5 :> Twelve) @@ (4 :> Rating))
Again == Object(2, "IfcWall", (2 :> Room) @@ (3 :> Rating) @@ (5 :> Null) @@ (6 :> Twelve) @@ (7 :> Brick))
Standard == Object(3, "IfcWallStandardCase", (1 :> Room) @@ (2 :> Bricks) @@ (3 :> Blank) @@ (4 :> Long) @@ (7 :> LowerBrick))
Space == Object(4, "IfcSpace", (2 :> Room) @@ (3 :> Null) @@ (7 :> Room) @@ (8 :> TypeId) @@ (9 :> LowerBrick) @@ (10 :> Twelve))
Typed == Object(5, "IfcWall", (3 :> Yes) @@ (8 :> TypeId))
Type == Object(6, "IfcWallType", (1 :> Brick))
Pillar == Object(1, "IfcWall", 2 :> Concrete)
Post == Object(2, "IfcWall", 2 :> LowerConcrete)
MCWorlds == {<<{Pillar, Post}>>, <<{Wall, Other}, {Standard, Space}, {Again, Type}>>, <<{Wall}, {Other, Standard}>>,
             <<{Other, Space, Typed}, {Wall, Again, Type}>>}
MCGlobalIds == (TypeId :> 6)

\* What the manifest knows of the fields; the width of the second set is in two units.
Concept(k, type, classes) ==
  [key |-> k, type |-> type, classes |-> classes, measure |-> None, state |-> None, unit |-> None]
Measure(k, classes, state, unit) ==
  [key |-> k, type |-> "number", classes |-> classes, measure |-> "length", state |-> state, unit |-> unit]
Walls == {"IfcWall", "IfcWallStandardCase"}
MCConcepts ==
  {Concept(2, "text", {"IfcWall"}), Concept(2, "text", {"IfcSpace"}), Concept(3, "text", Walls), Concept(4, "text", Walls),
   Measure(5, {"IfcWall"}, "uniform", "mm"), Measure(6, {"IfcWall"}, "mixed", None),
   Measure(10, {"IfcSpace"}, "uniform", "mm"), Concept(9, "text", {"IfcSpace"})}
MCUserWords == {<<>>, <<Brick>>, <<LowerBrick>>, <<Bricks, Room>>, <<Rating>>, <<DashedRating>>, <<True>>,
                <<LowerConcrete>>, <<TwoHundredMm>>, <<Twelve, TwoHundred>>}

MCAlphabet == <<"IfcSpace", "IfcWall", "IfcWallStandardCase", "IfcWallType">>
=============================================================================
