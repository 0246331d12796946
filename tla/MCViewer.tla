------------------------------ MODULE MCViewer ------------------------------
(* A wall, a roof slab and two objects that may be hidden, three floors of    *)
(* which the middle one may be unresolved, with and without the size policy. *)
EXTENDS ViewerScene, TLC

CONSTANTS wall, roof, shade, chair
MCObjects == {wall, roof, shade, chair}
E(category, predefined, declared) ==
  [category |-> category, predefined |-> predefined, declared |-> declared, boxed |-> TRUE]
MCElement == (wall :> E("wall", "none", <<>>)) @@ (roof :> E("slab", "ROOF", <<>>))
             @@ (shade :> E("conditional", "none", <<"text", "true">>)) @@ (chair :> E("other", "none", <<>>))
MCModes == {"fine", "fast"}
MCAngle == [m \in MCModes |-> IF m = "fine" THEN 25 ELSE 55]
MCDistances == {"near", "far"}
MCBelow == [m \in MCModes |-> [x \in MCDistances |->
             IF x = "near" THEN {} ELSE IF m = "fine" THEN {chair} ELSE MCObjects]]
MCAbove == [m \in MCModes |-> [x \in MCDistances |-> IF x = "near" THEN MCObjects ELSE {}]]
MCAnswers == {{wall}, {wall, shade}}
MCPicks == {{}, {shade}, {wall, chair}}

MCFloors == <<{"ground"}, {"first", "mezzanine"}, {"top"}>>
Heights(first) == ("ground" :> 0) @@ ("first" :> first) @@ ("mezzanine" :> 32) @@ ("top" :> 40)
Building(first, lowest, policy) ==
  [floors |-> MCFloors, height |-> Heights(first), lowest |-> lowest, policy |-> policy]
MCBuildings == {Building(30, -5, TRUE), Building(None, 3, FALSE)}
Interchangeable == Permutations(Tasks)
=============================================================================
