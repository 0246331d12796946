---------------------------- MODULE SchemaRoles ----------------------------
(***************************************************************************)
(* semantic/roles.py and binding/closure.py: what a class is in the IFC    *)
(* schema, and which stored classes a request for it means.                *)
(***************************************************************************)
EXTENDS Integers, Sequences, FiniteSets, SequencesExt, FiniteSetsExt

CONSTANTS Ontology,  \* each described class with the set of its ancestors
          Describes  \* the occurrence class a type's name is derived from
ASSUME OntologyIsClosed == \A c \in DOMAIN Ontology : c \notin Ontology[c]

\* _ROLE_MARKERS: the first marker in a class's lineage decides its role.
RoleMarkers == <<<<"IfcTypeObject", "type_definition">>, <<"IfcPropertyDefinition", "property_definition">>,
                 <<"IfcRelationship", "relationship">>, <<"IfcSpatialStructureElement", "spatial_structure">>,
                 <<"IfcElement", "occurrence">>, <<"IfcProduct", "occurrence">>,
                 <<"IfcObject", "non_product_object">>, <<"IfcObjectDefinition", "non_product_object">>>>
ResultKinds == {"occurrence", "spatial_structure", "non_product_object"}

\* An unknown class has no role: it is never an occurrence.
SchemaRole(class) ==
  IF class \notin DOMAIN Ontology THEN "unknown"
  ELSE LET found == SelectSeq(RoleMarkers, LAMBDA m : m[1] \in Ontology[class] \cup {class})
       IN IF found = <<>> THEN "other" ELSE found[1][2]

Descendants(class) == {d \in DOMAIN Ontology : class \in Ontology[d]}
\* RoleIndex.closure: the class and its descendants of the same role, present.
FamilyClosure(class, present) ==
  IF class \notin DOMAIN Ontology THEN {}
  ELSE {c \in Descendants(class) \cup {class} : SchemaRole(c) = SchemaRole(class)} \cap present

\* occurrence_for_type: None unless the derived name is an occurrence.
OccurrenceForType(class) ==
  {o \in {Describes[c] : c \in DOMAIN Describes \cap {class}} :
     SchemaRole(class) = "type_definition" /\ SchemaRole(o) = "occurrence"}

\* A subject candidate; a present class the schema does not describe is itself.
Subject(class, present) ==
  [class |-> class, role |-> SchemaRole(class), result |-> SchemaRole(class) \in ResultKinds,
   present |-> class \in present,
   family |-> IF FamilyClosure(class, present) = {} THEN {class} \cap present
              ELSE FamilyClosure(class, present)]

Unresolved == [resolved |-> FALSE, classes |-> {}, role |-> "unknown", absent |-> FALSE]
\* Seeded bug: the roles of the unions are not compared with the primary's.
ResolveClosureOfPrimary(slate, primary, unions) ==
  LET selected == {s \in slate : s.class \in unions \cup {primary}}
      roles == {s.role : s \in {s \in slate : s.class = primary}}
  IN IF (\E c \in unions \cup {primary} : \A s \in slate : s.class # c)
        \/ (\E s \in selected : ~s.result) \/ Cardinality(roles) > 1
     THEN Unresolved
     ELSE [resolved |-> TRUE, classes |-> UNION {s.family : s \in selected},
           role |-> CHOOSE r \in roles : TRUE, absent |-> \A s \in selected : s.family = {}]

\* resolve_closure: every chosen subject is on the slate, a result, of one role.
ResolveClosure(slate, primary, unions) ==
  LET selected == {s \in slate : s.class \in unions \cup {primary}}
      roles == {s.role : s \in selected}
  IN IF (\E c \in unions \cup {primary} : \A s \in slate : s.class # c)
        \/ (\E s \in selected : ~s.result) \/ Cardinality(roles) > 1
     THEN Unresolved
     ELSE [resolved |-> TRUE, classes |-> UNION {s.family : s \in selected},
           role |-> CHOOSE r \in roles : TRUE, absent |-> \A s \in selected : s.family = {}]
=============================================================================
