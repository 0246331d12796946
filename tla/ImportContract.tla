--------------------------- MODULE ImportContract ---------------------------
(***************************************************************************)
(* What an import of one IFC file promises, whatever order it works in:    *)
(* nothing once stored is lost, the search index and the manifest are only *)
(* ever copies of what was stored, and an import concludes "clean" only    *)
(* when all three are the image of the file under the version of the       *)
(* extraction code that ran.  Ingestion implements it.                     *)
(***************************************************************************)
CONSTANTS Items,      \* the objects and relationships of the file
          Versions,   \* versions of the extraction code
          Image,      \* Image[v][x]: what version v stores for the item x
          None

VARIABLES stored,     \* the rows of the database, by item
          indexed,    \* the search documents, by item: what each was written from
          published,  \* the manifest: a copy of stored, or None
          goal,       \* the version of the running (or last) import
          verdict     \* "open" until the import concludes

cvars == <<stored, indexed, published, goal, verdict>>

Nothing == [x \in Items |-> None]

CInit == /\ stored = Nothing /\ indexed = Nothing /\ published = None
         /\ goal \in Versions /\ verdict = "none"

\* A new import begins; the previous verdict is about the past.
Begin == /\ verdict # "open"
         /\ verdict' = "open" /\ goal' \in Versions
         /\ UNCHANGED <<stored, indexed, published>>

\* Rows are written, never removed.
Store == /\ verdict = "open"
         /\ \A x \in Items : stored[x] # None => stored'[x] # None
         /\ DOMAIN stored' = Items
         /\ UNCHANGED <<indexed, published, goal, verdict>>

\* Documents are written from the rows as they are.
Index == /\ verdict = "open"
         /\ \E S \in SUBSET {x \in Items : stored[x] # None} :
               indexed' = [x \in Items |-> IF x \in S THEN stored[x] ELSE indexed[x]]
         /\ UNCHANGED <<stored, published, goal, verdict>>

Publish == /\ verdict = "open"
           /\ published' = stored
           /\ UNCHANGED <<stored, indexed, goal, verdict>>

Whole == /\ stored = Image[goal]
         /\ indexed = stored
         /\ published = stored

Conclude == /\ verdict = "open"
            /\ verdict' \in {"none", "partial"} \cup (IF Whole THEN {"clean"} ELSE {})
            /\ UNCHANGED <<stored, indexed, published, goal>>

CNext == Begin \/ Store \/ Index \/ Publish \/ Conclude

CSpec == CInit /\ [][CNext]_cvars
=============================================================================
