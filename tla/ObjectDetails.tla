---------------------------- MODULE ObjectDetails ----------------------------
(***************************************************************************)
(* viewer/details.py, the matching queries of sql/entities.py and the      *)
(* component endpoints of api/routes/models.py: what the panel shows of an *)
(* object and which objects its buttons highlight.  Type and family are    *)
(* facts stored with the object, or they are not available.                *)
(***************************************************************************)
EXTENDS StoredFields

CONSTANTS TypeName, TypeGlobalId,  \* the fields ("type", "name") and ("type", "global_id")
          FamilyNames,             \* FAMILY_PROPERTY_NAMES: the property names that carry a family
          Allowed,                 \* PROPERTY_ALLOWLIST and QUANTITY_ALLOWLIST
          MaxValues,               \* MAX_PROPERTY_VALUES, MAX_QUANTITY_VALUES
          MaxMatches,              \* max_viewer_match_ids
          GlobalIdOf               \* field values that are a GlobalId |-> the object's id

\* safe_str of a stored value: stripped, cut at MAX_STRING_LEN, None if blank.
Shown(o, k) == IF Text(o, k) = Null THEN None ELSE Reads[Text(o, k)].shown

\* find_type: a name or a GlobalId, stored.
HasType(o) == Shown(o, TypeName) # None \/ Shown(o, TypeGlobalId) # None
FindType(o) == IF HasType(o) THEN [name |-> Shown(o, TypeName), globalId |-> Shown(o, TypeGlobalId)] ELSE None

\* find_family: the first family property, in order of set and name, with a value.
FindFamily(o) ==
  LET given == {k \in DOMAIN Fields : /\ Fields[k].kind = "property" /\ Fields[k].name \in FamilyNames
                                      /\ Shown(o, k) # None}
  IN IF given = {} THEN None
     ELSE LET first == Min(given) IN [key |-> first, value |-> Shown(o, first)]

\* select_properties, select_quantities: the allowlisted ones with a value, in order.
Select(o, kind) ==
  Take(Ordered({k \in DOMAIN Fields : Fields[k].kind = kind /\ Fields[k].name \in Allowed /\ Shown(o, k) # None}, <),
       MaxValues)

\* _require_entity: an object of this model or 404, whatever other models hold.
RequireEntity(store, id) == {o \in store : o.id = id}

\* entity_details.
Details(store, o) ==
  LET type == FindType(o)
      typed == {p \in store : HasType(o) /\ type.globalId # None /\ p.id = GlobalIdOf[type.globalId]}
  IN [id |-> o.id, class |-> o.class, properties |-> Select(o, "property"), quantities |-> Select(o, "quantity"),
      type |-> type, typeClass |-> IF typed = {} THEN None ELSE (CHOOSE p \in typed : TRUE).class,
      family |-> FindFamily(o), sameType |-> HasType(o), sameFamily |-> FindFamily(o) # None]

\* match_by_type_name, match_by_family: lower(btrim()) on both sides.
\* Seeded bug: the stored text is compared as it is.
SameTextAsStored(o, k, shown) == Text(o, k) = shown

SameText(o, k, shown) == Text(o, k) # Null /\ Reads[Text(o, k)].plain = Reads[shown].plain

\* The objects of a group: the type's GlobalId is preferred to its name.
Group(store, o, scope) ==
  LET type == FindType(o)
      family == FindFamily(o)
  IN IF scope = "instance" THEN {o}
     ELSE IF scope = "type" /\ HasType(o)
     THEN {p \in store : IF type.globalId # None THEN Text(p, TypeGlobalId) = type.globalId
                         ELSE SameText(p, TypeName, type.name)}
     ELSE IF scope = "family" /\ family # None THEN {p \in store : SameText(p, family.key, family.value)}
     ELSE {}

\* highlight_group: unavailable without the fact; the exact total and the first matches.
HighlightGroup(store, o, scope) ==
  LET available == \/ scope = "instance"
                   \/ scope = "type" /\ HasType(o)
                   \/ scope = "family" /\ FindFamily(o) # None
      matched == Group(store, o, scope)
  IN [id |-> o.id, scope |-> scope, available |-> available,
      ids |-> Identities(matched, MaxMatches), classes |-> ClassCounts(matched)]

\* normalize_global_ids, resolve_entities: each id asked once, in the order asked.
FirstOf(asked, i) == asked[i] # None /\ \A j \in 1 .. i - 1 : asked[j] # asked[i]
Normalized(asked) ==
  LET kept == SelectSeq([i \in DOMAIN asked |-> i], LAMBDA i : FirstOf(asked, i))
  IN [n \in DOMAIN kept |-> asked[kept[n]]]
ResolveEntities(store, asked) ==
  LET known == {o.id : o \in store}
      ids == Normalized(asked)
  IN [resolved |-> SelectSeq(ids, LAMBDA i : i \in known), unresolved |-> SelectSeq(ids, LAMBDA i : i \notin known)]
=============================================================================
