------------------------- MODULE RelationshipGraph -------------------------
(***************************************************************************)
(* From the member rows of recorded relationships to the diagram of an     *)
(* answer: traversal.py walks them from the seeds, graph_exec.py retains   *)
(* the hops between the objects the answer claims, topology.py groups them *)
(* or says why no diagram qualifies.  One traversal follows one class.     *)
(*                                                                         *)
(* A member row is [row, rel, of, role, class]: `of` is the entity it      *)
(* links to, None when the file names an end that was not stored.          *)
(***************************************************************************)
EXTENDS Ordering, TLC

CONSTANTS
  MemberRows,
  Relating, Related,             \* the registry's role names for the class
  MaxHops,                       \* MAX_TOPOLOGY_HOPS
  MinNodes, MaxNodes, MaxEdges,  \* MIN_GRAPH_NODES, MAX_GRAPH_NODES, MAX_GRAPH_EDGES
  MaxNodeIds                     \* MAX_NODE_GLOBAL_IDS

\* registry.py names the two sides of a class apart; no reason is the absent one.
ASSUME RowsAreStored == IsFiniteSet(MemberRows) /\ Relating \cap Related = {}
ASSUME BoundsAreNumbers == {MinNodes, MaxNodes, MaxEdges, MaxNodeIds} \subseteq Nat
ASSUME NoneIsNoReason == None \notin {"incomplete", "too_few", "too_large"}

\* The first n of a set, by id.
FirstOf(S, n) == {o \in S : Cardinality({x \in S : x < o}) < n}

\* traverse, _expand: every pair of rows of one relationship, from the frontier
\* along the roles and against them, once for every depth.
Expand(frontier, from, to) ==
  {h \in [from : {m \in MemberRows : m.of \in frontier /\ m.role \in from},
          to : {m \in MemberRows : m.role \in to}] : h.from.rel = h.to.rel /\ h.from # h.to}

\* From the frontier to what was not visited yet.
Advance(w) ==
  LET hops == Expand(w.frontier, Relating, Related) \cup Expand(w.frontier, Related, Relating)
      next == {h.to.of : h \in hops} \ (w.visited \cup {None})
  IN [visited |-> w.visited \cup next, frontier |-> next, hops |-> w.hops \cup hops]
Walk(seeds, depth) ==
  LET walk[d \in 0 .. depth] == IF d = 0 THEN [visited |-> seeds, frontier |-> seeds, hops |-> {}]
                                ELSE Advance(walk[d - 1])
  IN walk[depth]

\* _retain_topology: too many hops are none, never a sample.
Retained(hops, claimed) ==
  IF Cardinality(hops) > MaxHops THEN [cut |-> TRUE, hops |-> {}]
  ELSE [cut |-> FALSE, hops |-> {h \in hops : {h.from.of, h.to.of} \subseteq claimed}]

-----------------------------------------------------------------------------
(* Grouping.                                                                *)

\* _normalize: the arrow runs from the relating to the related side, whichever
\* way the traversal went; a row without a class makes the result incomplete.
Usable(h) == h.from.class # None /\ h.to.class # None
Connection(h) == IF h.from.role \in Relating THEN [source |-> h.from, target |-> h.to]
                 ELSE [source |-> h.to, target |-> h.from]
Key(c) == <<c.source.rel, c.source.of, c.target.of>>
\* Seeded bug: a connection is told apart by the way it was found.
ConnectionsPerHop(hops) == {[found |-> h] @@ Connection(h) : h \in hops}
Connections(hops) ==
  LET all == {Connection(h) : h \in hops}
  IN {CHOOSE c \in all : Key(c) = k : k \in {Key(c) : c \in all}}

SeedKey == {}
NodeKey(side, seeds) == IF side.of \in seeds THEN SeedKey ELSE {<<side.class, side.role>>}
EdgeKey(c, seeds) == <<NodeKey(c.source, seeds), NodeKey(c.target, seeds), c.source.role, c.target.role>>
Sides(connections) == UNION {{c.source, c.target} : c \in connections}
EntitiesOf(connections, key, seeds) == {s.of : s \in {x \in Sides(connections) : NodeKey(x, seeds) = key}}

\* _public_nodes: a node may select what the viewer highlights.  Which ids a large
\* node keeps is the order they were found in; here the lowest.
Node(connections, key, seeds, highlighted) ==
  LET entities == EntitiesOf(connections, key, seeds)
      ids      == FirstOf(entities, MaxNodeIds)
  IN [key |-> key, seed |-> key = SeedKey, count |-> Cardinality(entities), ids |-> ids,
      truncated |-> Cardinality(entities) > Cardinality(ids),
      selectable |-> key # SeedKey /\ ids # {} /\ ids \subseteq highlighted]

Edge(connections, key, seeds) ==
  [ends |-> key, count |-> Cardinality({c \in connections : EdgeKey(c, seeds) = key})]

\* build_relationship_graph: the diagram, or the reason there is none.  r is the
\* part's result, highlighted what the viewer received.
Graph(r, highlighted) ==
  LET connections == Connections(r.hops)
      keys == {NodeKey(s, r.seeds) : s \in Sides(connections)}
      ends == {EdgeKey(c, r.seeds) : c \in connections}
      none(why) == [nodes |-> {}, edges |-> {}, why |-> why]
  IN CASE r.cut -> none("too_large")
       [] ~r.cut /\ (r.hops = {} \/ r.seeds = {} \/ \E h \in r.hops : ~Usable(h)) -> none("incomplete")
       [] OTHER ->
            IF ~(r.endpoints \subseteq {s.of : s \in Sides(connections)}) THEN none("incomplete")
            ELSE IF Cardinality(keys) < MinNodes THEN none("too_few")
            ELSE IF Cardinality(keys) > MaxNodes \/ Cardinality(ends) > MaxEdges THEN none("too_large")
            ELSE [nodes |-> {Node(connections, k, r.seeds, highlighted) : k \in keys},
                  edges |-> {Edge(connections, e, r.seeds) : e \in ends}, why |-> None]
=============================================================================
