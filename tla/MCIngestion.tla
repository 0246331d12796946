---------------------------- MODULE MCIngestion ----------------------------
\* One object and two relationships, one of which connects it; a bounded
\* number of imports, over all stops and restarts.
EXTENDS Ingestion, TLC

CONSTANTS e1, r1, r2,
          MaxImports      \* how many imports may be started

MCEnts == {e1}
MCRels == {r1, r2}
MCEnds == (r1 :> {e1}) @@ (r2 :> {})

VARIABLE toStart

MCInit == \E n \in 2..MaxImports : Init /\ toStart = n
MCNext == \/ Start /\ toStart > 0 /\ toStart' = toStart - 1
          \/ (Step \/ Stop) /\ UNCHANGED toStart
MCSpec == MCInit /\ [][MCNext]_<<vars, toStart>> /\ WF_vars(Step)
=============================================================================
