----------------------------- MODULE Stitching -----------------------------
(***************************************************************************)
(* What the tools of the back end do to a design: the anchors between each *)
(* pair of slots are placed, each slot is routed with its anchors in a     *)
(* design of its own, and the designs are merged again, first the slots of *)
(* each SLR and then the SLRs, in the arbitrary order of Files.walk.       *)
(*                                                                         *)
(* Each slot has a copy of its anchors and a tool that chooses their BELs  *)
(* on its own, and merging drops without a word what does not fit.  That   *)
(* all cells find their place again is due to the regions of               *)
(* AnchorRegions.                                                          *)
(***************************************************************************)
EXTENDS AnchorRegions, MergeDCP, FiniteSets

CONSTANTS
  Slots,         \* names of the active slots
  Anchors,       \* anchor registers (one for each bit of an IO between slots)
  Probes,        \* bound: the SLICEs that are looked at
  Bels,          \* bound: the BELs of a SLICE that are looked at
  BodyBel,       \* bound: the BEL that cells inside the slots use
  FFsPerSlice,   \* num_FDRE_per_SLICE (16)
  LagunaRegs     \* RX registers for each pair that crosses SLRs

ASSUME SlotsAssumption == Slots \subseteq Grid
ASSUME ProbesAssumption == Probes \subseteq Nat \X Nat
ASSUME BelsAssumption == BodyBel \in Bels
ASSUME NamesAssumption == Anchors \cap Slots = {}

\* hub["AllSlotPairs"]
Neighbors    == {q \in Slots \X Slots : Neighboring(q[1], q[2])}
AllSlotPairs == {{q[1], q[2]} : q \in Neighbors}

IsCrossing(pair) == \A s, t \in pair : s # t => IsPairSLRCrossing(s, t)

\* getSLRCrossingNeighbor
CrossingNeighbors(s) ==
  {t \in Slots : {s, t} \in AllSlotPairs /\ s # t /\ IsPairSLRCrossing(s, t)}

\* Laguna registers are no SLICEs and belong to one pair.
ASSUME LagunaAssumption ==
  \A pair \in {p \in AllSlotPairs : IsCrossing(p)} :
    /\ LagunaRegs[pair] \cap Probes = {}
    /\ \A other \in {p \in AllSlotPairs : IsCrossing(p)} :
         pair # other => LagunaRegs[pair] \cap LagunaRegs[other] = {}

Slrs    == 0..3    \* SLR_NUM
Top     == 4       \* the merging of the SLRs, after those of the slots of SLR 0..3
SlotsOf(run) == IF run = Top THEN Slots ELSE {s \in Slots : Slr(s) = run}

-----------------------------------------------------------------------------
VARIABLES
  ends,    \* [Anchors -> pairs of slots], from the slot that drives it to the reader
  body,    \* [Slots -> Probes]: the SLICE of a cell inside the slot
  ready,   \* pairs with place_anchors.tcl
  stopped, \* pairs whose anchor placement ended with an AssertionError
  loc,     \* places of the anchors of these pairs: a SLICE or a Laguna register
  dcp,     \* designs of the slots that have been routed
  merged,  \* the result so far of each run of MergeDCP that has begun
  thrown   \* runs of MergeDCP that ended with a RuntimeException

vars == <<ends, body, ready, stopped, loc, dcp, merged, thrown>>

AnchorsOf(pair)  == {a \in Anchors : pair = {ends[a][1], ends[a][2]}}
AnchorsAt(s)     == {a \in Anchors : s \in {ends[a][1], ends[a][2]}}

\* The designs have been synthesised, and the cells of the slots placed.
Init ==
  /\ ends \in [Anchors -> Neighbors]
  /\ body \in [Slots -> Probes]
  /\ \A s \in Slots : InPlacementArea(body[s], s)
  /\ ready = {} /\ stopped = {} /\ loc = <<>>
  /\ dcp = <<>> /\ merged = <<>> /\ thrown = {}

(***************************************************************************)
(* runILPWeightMatchingPlacement                                           *)
(***************************************************************************)
\* Each SLICE of the region is a bin.
Bins(s, t) == BufferRegion(s, t) \cap Probes

\* round(n / d), which rounds halves to even numbers
Round(n, d) ==
  LET floor == n \div d
      twice == 2 * (n % d)
  IN  IF twice > d \/ (twice = d /\ floor % 2 = 1) THEN floor + 1 ELSE floor

\* total_usage_percent is anchors / ffs: below 0.4, bins are filled to one half,
\* otherwise to that ratio plus 0.1.
AllowedUsagePerBin(anchors, ffs) ==
  IF 10 * anchors < 4 * ffs
    THEN Round(FFsPerSlice, 2)
    ELSE Round(FFsPerSlice * (10 * anchors + ffs), 10 * ffs)

\* Solutions of the ILP: each anchor in one bin, bins not too full; none if the region
\* is too crowded.
Solutions(anchors, bins) ==
  LET ffs   == Cardinality(bins) * FFsPerSlice
      limit == AllowedUsagePerBin(Cardinality(anchors), ffs)
  IN  {f \in [anchors -> bins] :
         /\ 10 * Cardinality(anchors) < 9 * ffs
         /\ \A bin \in bins : Cardinality({a \in anchors : f[a] = bin}) <= limit}

\* Faulty variant: the places of one pair replace those of the others.
OnlyPlaces(f) == f
WithPlaces(f) == [a \in DOMAIN loc \cup DOMAIN f |-> IF a \in DOMAIN f THEN f[a] ELSE loc[a]]

Waiting(pair) == pair \in AllSlotPairs \ (ready \cup stopped)

\* One solution of the ILP for the anchors of two slots of one SLR.
PlaceInBins(s, t) ==
  LET pair == {s, t}
  IN  /\ Waiting(pair) /\ ~IsCrossing(pair)
      /\ \E f \in Solutions(AnchorsOf(pair), Bins(s, t)) : loc' = WithPlaces(f)
      /\ ready' = ready \cup {pair}
      /\ UNCHANGED <<ends, body, stopped, dcp, merged, thrown>>

\* An assertion of the ILP placement: too crowded, or infeasible.
PlacementFails(s, t) ==
  LET pair == {s, t}
  IN  /\ Waiting(pair) /\ ~IsCrossing(pair)
      /\ Solutions(AnchorsOf(pair), Bins(s, t)) = {}
      /\ stopped' = stopped \cup {pair}
      /\ UNCHANGED <<ends, body, ready, loc, dcp, merged, thrown>>

\* placeLagunaAnchors, of which LagunaPlacement shows that it gives each anchor a
\* register, and thus a super long line, of its own.
PlaceOnLaguna(pair) ==
  /\ Waiting(pair) /\ IsCrossing(pair)
  /\ \E f \in [AnchorsOf(pair) -> LagunaRegs[pair]] :
       /\ \A a, b \in AnchorsOf(pair) : a # b => f[a] # f[b]
       /\ loc' = WithPlaces(f)
  /\ ready' = ready \cup {pair}
  /\ UNCHANGED <<ends, body, stopped, dcp, merged, thrown>>

(***************************************************************************)
(* opt_placement and slot_routing of a slot.  place_anchors.tcl fixes the  *)
(* registers in their SLICEs and leaves the BELs to Vivado, or in their    *)
(* Laguna registers.  phys_opt_design may move cells of the slot within    *)
(* the pblock of the slot.                                                 *)
(***************************************************************************)
Cell(cell, site, bel) == [cell |-> cell, site |-> site, bel |-> bel]

OnLaguna(a) == IsCrossing({ends[a][1], ends[a][2]})

\* What Vivado may make of the anchors of a slot.
PlacedAnchors(s) ==
  LET onSlices == {a \in AnchorsAt(s) : ~OnLaguna(a)}
      onLaguna == AnchorsAt(s) \ onSlices
  IN  {{Cell(a, loc[a], bel[a]) : a \in onSlices} \cup
       {Cell(a, loc[a], loc[a]) : a \in onLaguna} :
         bel \in {f \in [onSlices -> Bels] :
                    \A a, b \in onSlices : a # b /\ loc[a] = loc[b] => f[a] # f[b]}}

Drives(s) == {a \in Anchors : ends[a][1] = s}
Reads(s)  == {a \in Anchors : ends[a][2] = s}

RouteSlot(s) ==
  /\ s \notin DOMAIN dcp
  /\ \A pair \in AllSlotPairs : s \in pair => pair \in ready
  /\ \E site \in {p \in Probes : InRoutingArea(p, s, CrossingNeighbors(s))},
        placed \in PlacedAnchors(s) :
       /\ \A p \in placed : ~(p.site = site /\ p.bel = BodyBel)
       /\ body' = [body EXCEPT ![s] = site]
       /\ dcp' = [t \in DOMAIN dcp \cup {s} |->
                    IF t = s
                      THEN Wrapper(s, Drives(s), Reads(s), placed \cup {Cell(s, site, BodyBel)})
                      ELSE dcp[t]]
  /\ UNCHANGED <<ends, ready, stopped, loc, merged, thrown>>

(***************************************************************************)
(* A run of MergeDCP takes its first input as it is and merges the others  *)
(* into it.                                                                *)
(***************************************************************************)
Included(run) == IF run \in DOMAIN merged THEN merged[run].slots ELSE {}

Merge(run, d) ==
  /\ run \notin thrown
  /\ IF run \in DOMAIN merged /\ ~HaveOpenPins(merged[run], d)
       THEN thrown' = thrown \cup {run} /\ UNCHANGED merged
       ELSE /\ merged' = [r \in DOMAIN merged \cup {run} |->
                            IF r # run THEN merged[r]
                            ELSE IF run \in DOMAIN merged THEN Merged(merged[run], d)
                            ELSE d]
            /\ UNCHANGED thrown
  /\ UNCHANGED <<ends, body, ready, stopped, loc, dcp>>

MergeSlot(run, s) ==
  /\ run \in Slrs /\ s \in SlotsOf(run) \ Included(run)
  /\ SlotsOf(run) \subseteq DOMAIN dcp
  /\ Merge(run, dcp[s])

MergeSlr(run) ==
  /\ \A r \in Slrs : Included(r) = SlotsOf(r)
  /\ run \in Slrs \cap DOMAIN merged
  /\ Included(run) \cap Included(Top) = {}
  /\ Merge(Top, merged[run])

Next ==
  \/ \E s, t \in Slots : PlaceInBins(s, t) \/ PlacementFails(s, t)
  \/ \E pair \in AllSlotPairs : PlaceOnLaguna(pair)
  \/ \E s \in Slots : RouteSlot(s)
  \/ \E run \in Slrs, s \in Slots : MergeSlot(run, s)
  \/ \E run \in Slrs : MergeSlr(run)

Spec == Init /\ [][Next]_vars

-----------------------------------------------------------------------------
(***************************************************************************)
(* The netlist that a design with some of the slots should have.           *)
(***************************************************************************)
Driver(S, a) == IF ends[a][1] \in S THEN <<"out", a>> ELSE <<"port", a>>
Reader(S, a) == IF ends[a][2] \in S THEN <<"in", a>> ELSE <<"port", a>>

Touching(S) == {a \in Anchors : ends[a][1] \in S \/ ends[a][2] \in S}
Open(S)     == {a \in Touching(S) : ~(ends[a][1] \in S /\ ends[a][2] \in S)}

Connected(d) ==
  /\ d.anchors = Touching(d.slots)
  /\ d.ports = Open(d.slots)
  /\ {d.nets[n] : n \in DOMAIN d.nets} =
       {{Driver(d.slots, a), <<"D", a>>} : a \in Touching(d.slots)} \cup
       {{<<"Q", a>>, Reader(d.slots, a)} : a \in Touching(d.slots)}

Designs == {dcp[s] : s \in DOMAIN dcp} \cup {merged[run] : run \in DOMAIN merged}

\* Whatever the order of merging, an anchor joins the two slots if both are in the
\* design, and one of them with a port of the anchor's name otherwise; no port, net or
\* register is left over or lost, and mergeDCP does not throw.
Stitched == thrown = {} /\ \A d \in Designs : Connected(d)

PlacesOf(d, cell) == {p \in d.placed : p.cell = cell}

\* No cell is dropped: each anchor is placed once, where the anchor placement put it;
\* a cell of a slot is dropped only when two SLRs are merged, if phys_opt_design has
\* moved it, or the cell it meets, across the boundary of the SLRs.
CellsKept ==
  \A run \in DOMAIN merged :
    LET d == merged[run]
    IN  /\ \A a \in d.anchors :
             \E p \in d.placed : PlacesOf(d, a) = {p} /\ p.site = loc[a]
        /\ \A s \in d.slots :
             \/ \E p \in d.placed : PlacesOf(d, s) = {p}
             \/ /\ run = Top
                /\ \E t \in CrossingNeighbors(s) :
                     /\ body[s] = body[t]
                     /\ ~InSlot(body[s], s) \/ ~InSlot(body[t], t)

\* Cells are where their nets may be routed: an anchor in the anchor pblock of both of
\* its slots, the cells of a slot in its routing area even as they were placed.
Contained ==
  /\ \A a \in DOMAIN loc : ~OnLaguna(a) =>
       InAnchorPblock(loc[a], ends[a][1]) /\ InAnchorPblock(loc[a], ends[a][2])
  /\ \A s \in Slots : InRoutingArea(body[s], s, CrossingNeighbors(s))

TypeOK ==
  /\ ends \in [Anchors -> Neighbors]
  /\ body \in [Slots -> Probes]
  /\ ready \subseteq AllSlotPairs /\ stopped \subseteq AllSlotPairs
  /\ ready \cap stopped = {}
  /\ DOMAIN loc = UNION {AnchorsOf(pair) : pair \in ready}
  /\ DOMAIN dcp \subseteq Slots /\ \A s \in DOMAIN dcp : dcp[s].slots = {s}
  /\ DOMAIN merged \subseteq Slrs \cup {Top} /\ thrown \subseteq DOMAIN merged
  /\ \A run \in DOMAIN merged : merged[run].slots \subseteq SlotsOf(run)
=============================================================================
