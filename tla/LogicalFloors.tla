--------------------------- MODULE LogicalFloors ---------------------------
(***************************************************************************)
(* semantic/spatial.py: the logical floors of a model.  A storey is a      *)
(* record [id, elevation]; elevations are integers of the model's length   *)
(* unit, so the noise bound of build_bands is below every positive gap.    *)
(***************************************************************************)
EXTENDS Integers, Sequences, FiniteSets, SequencesExt, Ordering

\* load_storeys: a storey without an elevation is left out.
Storeys(rows) == {r \in rows : r.elevation # None}
Levels(storeys) == Ordered({s.elevation : s \in storeys}, <)
Span(storeys) == IF storeys = {} THEN 0 ELSE LET l == Levels(storeys) IN l[Len(l)] - l[1]

Gaps(storeys) == LET l == Levels(storeys) IN {l[i] - l[i - 1] : i \in 2 .. Len(l)}
\* Seeded bug: a new band starts at every gap.
OpensEveryGap(storeys, gap) == gap > 0

\* BAND_GAP_FRACTION: a band starts where the gap exceeds 0.3 of the widest one.
Opens(storeys, gap) == \A g \in Gaps(storeys) : 10 * gap > 3 * g

\* build_bands: the elevations at which a band starts, in ascending order.
Bases(storeys) ==
  LET opening(l) == {l[1]} \cup {l[i] : i \in {j \in 2 .. Len(l) : Opens(storeys, l[j] - l[j - 1])}}
  IN IF storeys = {} THEN <<>> ELSE Ordered(opening(Levels(storeys)), <)
Bands(storeys) ==
  LET b == Bases(storeys)
  IN [i \in DOMAIN b |->
        {s \in storeys : b[i] <= s.elevation /\ (i = Len(b) \/ s.elevation < b[i + 1])}]
Lowest(band)  == CHOOSE e \in {s.elevation : s \in band} : \A s \in band : e <= s.elevation
Highest(band) == CHOOSE e \in {s.elevation : s \in band} : \A s \in band : e >= s.elevation

\* build_storey_model: ordinal 1 is the first band that contains the level 0
\* within 0.01 of the model's height, or the lowest band; band indices count from 0.
AtLevelZero(storeys, band) ==
  100 * Lowest(band) - Span(storeys) <= 0 /\ 0 <= 100 * Highest(band) + Span(storeys)
ZeroBands(storeys) == LET b == Bands(storeys) IN {i \in DOMAIN b : AtLevelZero(storeys, b[i])}
FirstBand(indices) == IF indices = {} THEN 0 ELSE (CHOOSE i \in indices : \A j \in indices : i <= j) - 1
ReferenceIndex(storeys) == IF storeys = {} THEN None ELSE FirstBand(ZeroBands(storeys))

\* band_label: floor n from the reference band upwards, lower level n below it.
BandLabel(index, reference) ==
  LET offset == index - reference
  IN IF offset >= 0 THEN <<"floor", offset + 1>> ELSE <<"lower level", -offset>>

\* model_floors: the contract of the viewer's floor buttons.
FloorContract(storeys) ==
  LET bands == Bands(storeys)
      reference == ReferenceIndex(storeys)
  IN [i \in DOMAIN bands |->
        [index |-> i - 1, label |-> BandLabel(i - 1, reference), isReference |-> i - 1 = reference,
         storeys |-> bands[i], min |-> Lowest(bands[i]), max |-> Highest(bands[i])]]

\* _load_spatial: the scopes the binder is offered for floor language, each with
\* the storeys of a band, numbered from the lowest band.
OfferedFloors(storeys) ==
  LET bands == Bands(storeys)
  IN {[index |-> i - 1, label |-> <<"floor", i>>, storeys |-> bands[i]] : i \in DOMAIN bands}
=============================================================================
