-------------------------- MODULE Stitching_proofs --------------------------
(***************************************************************************)
(* For any set of slots, anchors and SLICEs, and any order of merging: the *)
(* anchors lie where their nets may be routed, the merged netlists join    *)
(* the slots, and no anchor is dropped.                                    *)
(***************************************************************************)
EXTENDS Stitching, TLAPS

(***************************************************************************)
(* Geometry                                                                *)
(***************************************************************************)
LEMMA SlotForm ==
  ASSUME NEW s \in Grid
  PROVE  /\ s = <<s[1], s[2]>> /\ s[1] \in Int /\ s[2] \in Int
         /\ s[1] = 0 \/ s[1] = 1 \/ s[1] = 2 \/ s[1] = 3
         /\ \/ s[2] = 0 \/ s[2] = 1 \/ s[2] = 2 \/ s[2] = 3
            \/ s[2] = 4 \/ s[2] = 5 \/ s[2] = 6 \/ s[2] = 7
BY DEF Grid

LEMMA NeighborsDiffer ==
  ASSUME NEW s \in Grid, NEW t \in Grid, Neighboring(s, t)
  PROVE  s # t /\ Neighboring(t, s)
BY SlotForm DEF Neighboring, Beside, Above

\* The cells that Vivado has placed in a slot can be routed there.
LEMMA PlacementInRouting ==
  ASSUME NEW s \in Grid, NEW p \in Nat \X Nat, NEW crossing, InPlacementArea(p, s)
  PROVE  InRoutingArea(p, s, crossing)
<1>1. InSlot(p, s) /\ p[1] \in Int /\ p[2] \in Int
  BY DEF InPlacementArea
<1>2. ~InVerticalBuffers(p, 0)
  BY <1>1 DEF InPlacementArea, InVerticalBuffers, BoundaryColumns, BufferGap
<1>3. ~InHorizontalBuffers(p, RowWidth)
  <2>1. ASSUME NEW row \in 0..7,
               p[2] \in IF row % 2 = 1
                  THEN (SlotHeight * row)..(SlotHeight * row + RowWidth - 1)
                  ELSE (SlotHeight * (row + 1) - RowWidth)..(SlotHeight * (row + 1) - 1)
        PROVE  FALSE
    <3>1. p[2] \in IF row % 2 = 1
             THEN (SlotHeight * row)..(SlotHeight * row + (RowWidth + BufferGap) - 1)
             ELSE (SlotHeight * (row + 1) - (RowWidth + BufferGap))..(SlotHeight * (row + 1) - 1)
      BY <1>1, <2>1 DEF SlotHeight, RowWidth, BufferGap
    <3> QED
      BY <3>1 DEF InPlacementArea, InHorizontalBuffers
  <2> QED
    BY <2>1 DEF InHorizontalBuffers
<1> QED
  BY <1>1, <1>2, <1>3 DEF InRoutingArea, InNonSlotRegions

\* Of two slots on top of each other in one SLR, the upper one has an odd row.
LEMMA UpperRow ==
  ASSUME NEW s \in Grid, NEW t \in Grid, Neighboring(s, t), ~IsPairSLRCrossing(s, t),
         ~Beside(s, t)
  PROVE  /\ Higher(s[2], t[2]) \in {1, 3, 5, 7}
         /\ s[1] = t[1]
         /\ \/ s[2] = Higher(s[2], t[2]) /\ t[2] = s[2] - 1
            \/ t[2] = Higher(s[2], t[2]) /\ s[2] = t[2] - 1
BY SlotForm DEF Neighboring, Beside, Above, IsPairSLRCrossing, Higher

LEMMA BufferForm ==
  ASSUME NEW s \in Grid, NEW t \in Grid, Neighboring(s, t), ~IsPairSLRCrossing(s, t),
         NEW p \in Nat \X Nat, p \in BufferRegion(s, t)
  PROVE  \/ /\ Beside(s, t) /\ s[2] = t[2]
            /\ \E col \in 0..2 :
                 /\ (s[1] = col /\ t[1] = col + 1) \/ (t[1] = col /\ s[1] = col + 1)
                 /\ p[1] \in BoundaryColumns(col, 0)
            /\ 120 * s[2] + 5 <= p[2] /\ p[2] <= 120 * s[2] + 114
         \/ /\ s[1] = t[1] /\ p[1] \in ColumnsOf(s[1])
            /\ \E row \in {1, 3, 5, 7} :
                 /\ (s[2] = row /\ t[2] = row - 1) \/ (t[2] = row /\ s[2] = row - 1)
                 /\ 120 * row - 5 <= p[2] /\ p[2] <= 120 * row + 4
<1>1. CASE Beside(s, t)
  <2>1. p[1] \in BoundaryColumns(Lower(s[1], t[1]), 0) /\
        p[2] \in (120 * s[2] + 5)..(120 * (s[2] + 1) - 1 - 5)
    BY <1>1 DEF BufferRegion, SlotHeight, RowWidth
  <2>2. \E col \in 0..2 :
          /\ (s[1] = col /\ t[1] = col + 1) \/ (t[1] = col /\ s[1] = col + 1)
          /\ col = Lower(s[1], t[1])
    BY <1>1, SlotForm DEF Beside, Lower
  <2>3. 120 * s[2] + 5 <= p[2] /\ p[2] <= 120 * s[2] + 114
    BY <2>1, SlotForm
  <2> QED
    BY <1>1, <2>1, <2>2, <2>3 DEF Beside
<1>2. CASE ~Beside(s, t)
  <2> DEFINE row == Higher(s[2], t[2])
  <2>1. p[1] \in ColumnsOf(s[1]) /\ p[2] \in (120 * row - 5)..(120 * row + 5 - 1)
    BY <1>2 DEF BufferRegion, SlotHeight, RowWidth
  <2>2. /\ row \in {1, 3, 5, 7} /\ s[1] = t[1]
        /\ (s[2] = row /\ t[2] = row - 1) \/ (t[2] = row /\ s[2] = row - 1)
    BY <1>2, UpperRow
  <2>3. 120 * row - 5 <= p[2] /\ p[2] <= 120 * row + 4
    BY <2>1, <2>2
  <2> QED
    BY <2>1, <2>2, <2>3
<1> QED
  BY <1>1, <1>2

\* An anchor can be placed within the anchor pblock of both of its slots only.
LEMMA BufferInPblock ==
  ASSUME NEW s \in Grid, NEW t \in Grid, Neighboring(s, t), ~IsPairSLRCrossing(s, t),
         NEW p \in Nat \X Nat, p \in BufferRegion(s, t)
  PROVE  InAnchorPblock(p, s) /\ InAnchorPblock(p, t)
<1>1. CASE \E col \in 0..2 :
             /\ (s[1] = col /\ t[1] = col + 1) \/ (t[1] = col /\ s[1] = col + 1)
             /\ s[2] = t[2] /\ p[1] \in BoundaryColumns(col, 0)
             /\ 120 * s[2] + 5 <= p[2] /\ p[2] <= 120 * s[2] + 114
  <2> PICK col \in 0..2 :
             /\ (s[1] = col /\ t[1] = col + 1) \/ (t[1] = col /\ s[1] = col + 1)
             /\ s[2] = t[2] /\ p[1] \in BoundaryColumns(col, 0)
             /\ 120 * s[2] + 5 <= p[2] /\ p[2] <= 120 * s[2] + 114
    BY <1>1
  <2>1. InVerticalSegment(p, col + 1, s[2])
    BY SlotForm DEF InVerticalSegment, RowsOf, SlotHeight
  <2>2. /\ col + 1 = s[1] \/ col + 1 = s[1] + 1
        /\ col + 1 = t[1] \/ col + 1 = t[1] + 1
    BY SlotForm
  <2>3. InVerticalSegment(p, col + 1, t[2])
    BY <2>1
  <2> QED
    BY <2>1, <2>2, <2>3 DEF InAnchorPblock
<1>2. CASE /\ s[1] = t[1] /\ p[1] \in ColumnsOf(s[1])
           /\ \E row \in {1, 3, 5, 7} :
                /\ (s[2] = row /\ t[2] = row - 1) \/ (t[2] = row /\ s[2] = row - 1)
                /\ 120 * row - 5 <= p[2] /\ p[2] <= 120 * row + 4
  <2> PICK row \in {1, 3, 5, 7} :
             /\ (s[2] = row /\ t[2] = row - 1) \/ (t[2] = row /\ s[2] = row - 1)
             /\ 120 * row - 5 <= p[2] /\ p[2] <= 120 * row + 4
    BY <1>2
  <2>1. p[1] \in CASE s[1] = 0 -> 0..58 [] s[1] = 1 -> 56..117
                   [] s[1] = 2 -> 115..177 [] s[1] = 3 -> 175..232
    BY <1>2, SlotForm DEF ColumnsOf, FirstColumn
  <2>2. InHorizontalSegment(p, s[1], row)
    <3>1. row % 2 = 1
      OBVIOUS
    <3>2. p[2] \in (SlotHeight * row - 5)..(SlotHeight * row + 4)
      BY DEF SlotHeight
    <3> QED
      BY <2>1, <3>1, <3>2 DEF InHorizontalSegment
  <2>3. InHorizontalSegment(p, t[1], row)
    BY <1>2, <2>2
  <2>4. /\ row = s[2] \/ row = s[2] + 1
        /\ row = t[2] \/ row = t[2] + 1
    BY SlotForm
  <2> QED
    BY <2>2, <2>3, <2>4 DEF InAnchorPblock
<1> QED
  BY <1>1, <1>2, BufferForm

\* No cell of a slot is routed where anchors are placed.
LEMMA BufferNotRouted ==
  ASSUME NEW s \in Grid, NEW t \in Grid, Neighboring(s, t), ~IsPairSLRCrossing(s, t),
         NEW p \in Nat \X Nat, p \in BufferRegion(s, t)
  PROVE  InNonSlotRegions(p)
<1>1. CASE \E col \in 0..2 : p[1] \in BoundaryColumns(col, 0)
  BY <1>1 DEF InNonSlotRegions, InVerticalBuffers
<1>2. CASE \E row \in {1, 3, 5, 7} : 120 * row - 5 <= p[2] /\ p[2] <= 120 * row + 4
  <2> PICK row \in {1, 3, 5, 7} : 120 * row - 5 <= p[2] /\ p[2] <= 120 * row + 4
    BY <1>2
  <2>1. CASE p[2] < 120 * row
    <3>1. p[2] \in (SlotHeight * ((row - 1) + 1) - RowWidth)..(SlotHeight * ((row - 1) + 1) - 1)
      BY <2>1 DEF SlotHeight, RowWidth
    <3>2. row - 1 \in 0..7 /\ (row - 1) % 2 # 1
      OBVIOUS
    <3> QED
      BY <3>1, <3>2 DEF InNonSlotRegions, InHorizontalBuffers
  <2>2. CASE p[2] >= 120 * row
    <3>1. p[2] \in (SlotHeight * row)..(SlotHeight * row + RowWidth - 1)
      BY <2>2 DEF SlotHeight, RowWidth
    <3>2. row \in 0..7 /\ row % 2 = 1
      OBVIOUS
    <3> QED
      BY <3>1, <3>2 DEF InNonSlotRegions, InHorizontalBuffers
  <2> QED
    BY <2>1, <2>2
<1> QED
  BY <1>1, <1>2, BufferForm

\* The regions of two pairs do not meet.
LEMMA BuffersApart ==
  ASSUME NEW s \in Grid, NEW t \in Grid, Neighboring(s, t), ~IsPairSLRCrossing(s, t),
         NEW u \in Grid, NEW v \in Grid, Neighboring(u, v), ~IsPairSLRCrossing(u, v),
         NEW p \in Nat \X Nat, p \in BufferRegion(s, t), p \in BufferRegion(u, v)
  PROVE  {s, t} = {u, v}
<1> DEFINE Vertical(m, n) ==
      /\ m[2] = n[2]
      /\ \E col \in 0..2 :
           /\ (m[1] = col /\ n[1] = col + 1) \/ (n[1] = col /\ m[1] = col + 1)
           /\ p[1] \in BoundaryColumns(col, 0)
      /\ 120 * m[2] + 5 <= p[2] /\ p[2] <= 120 * m[2] + 114
    Horizontal(m, n) ==
      /\ m[1] = n[1] /\ p[1] \in ColumnsOf(m[1])
      /\ \E row \in {1, 3, 5, 7} :
           /\ (m[2] = row /\ n[2] = row - 1) \/ (n[2] = row /\ m[2] = row - 1)
           /\ 120 * row - 5 <= p[2] /\ p[2] <= 120 * row + 4
<1>1. Vertical(s, t) \/ Horizontal(s, t)
  BY BufferForm DEF Beside
<1>2. Vertical(u, v) \/ Horizontal(u, v)
  BY BufferForm DEF Beside
<1>3. CASE Vertical(s, t) /\ Vertical(u, v)
  <2>1. s[2] = u[2]
    BY <1>3, SlotForm
  <2>2. \A c, d \in 0..2 : p[1] \in BoundaryColumns(c, 0) /\ p[1] \in BoundaryColumns(d, 0) => c = d
    BY DEF BoundaryColumns
  <2>3. (s[1] = u[1] /\ t[1] = v[1]) \/ (s[1] = v[1] /\ t[1] = u[1])
    BY <1>3, <2>2
  <2> QED
    BY <1>3, <2>1, <2>3, SlotForm
<1>4. CASE Horizontal(s, t) /\ Horizontal(u, v)
  <2>1. s[1] = u[1]
    <3>1. \A c, d \in 0..3 : p[1] \in ColumnsOf(c) /\ p[1] \in ColumnsOf(d) => c = d
      BY DEF ColumnsOf, FirstColumn
    <3> QED
      BY <1>4, <3>1, SlotForm
  <2>2. (s[2] = u[2] /\ t[2] = v[2]) \/ (s[2] = v[2] /\ t[2] = u[2])
    BY <1>4
  <2>3. s[1] = t[1] /\ u[1] = v[1]
    BY <1>4
  <2>4. /\ s = <<s[1], s[2]>> /\ t = <<t[1], t[2]>>
        /\ u = <<u[1], u[2]>> /\ v = <<v[1], v[2]>>
    BY SlotForm
  <2>5. (s = u /\ t = v) \/ (s = v /\ t = u)
    BY <2>1, <2>2, <2>3, <2>4
  <2> QED
    BY <2>5
<1>5. \A row \in {1, 3, 5, 7}, m \in 0..7 :
        ~(120 * m + 5 <= p[2] /\ p[2] <= 120 * m + 114 /\
          120 * row - 5 <= p[2] /\ p[2] <= 120 * row + 4)
  OBVIOUS
<1>6. ~(Vertical(s, t) /\ Horizontal(u, v)) /\ ~(Horizontal(s, t) /\ Vertical(u, v))
  BY <1>5, SlotForm
<1> QED
  BY <1>1, <1>2, <1>3, <1>4, <1>5, <1>6

\* Cells of two slots meet only across an SLR boundary, and then one of them has left
\* its slot.
LEMMA CrossingRows ==
  ASSUME NEW s \in Slots, NEW t \in CrossingNeighbors(s)
  PROVE  /\ t \in Grid /\ s[1] = t[1]
         /\ \E row \in {2, 4, 6} : (s[2] = row /\ t[2] = row - 1) \/ (t[2] = row /\ s[2] = row - 1)
<1>1. s \in Grid /\ t \in Grid /\ t \in Slots
  BY SlotsAssumption DEF CrossingNeighbors
<1>2. Neighboring(s, t)
  <2>1. PICK q \in Neighbors : {q[1], q[2]} = {s, t}
    BY DEF CrossingNeighbors, AllSlotPairs
  <2>2. (q[1] = s /\ q[2] = t) \/ (q[1] = t /\ q[2] = s)
    BY <2>1
  <2> QED
    BY <1>1, <2>2, NeighborsDiffer DEF Neighbors
<1> QED
  BY <1>1, <1>2, SlotForm DEF CrossingNeighbors, Neighboring, Beside, Above,
     IsPairSLRCrossing, Higher

LEMMA SlotsApart ==
  ASSUME NEW s \in Grid, NEW t \in Grid, NEW p \in Nat \X Nat, InSlot(p, s), InSlot(p, t)
  PROVE  s = t
<1>1. \A c, d \in 0..3 : p[1] \in ColumnsOf(c) /\ p[1] \in ColumnsOf(d) => c = d
  BY DEF ColumnsOf, FirstColumn
<1>2. s[1] = t[1]
  BY <1>1, SlotForm DEF InSlot
<1>3. \A c, d \in 0..7 : p[2] \in RowsOf(c) /\ p[2] \in RowsOf(d) => c = d
  BY DEF RowsOf, SlotHeight
<1>4. s[2] = t[2]
  BY <1>3, SlotForm DEF InSlot
<1> QED
  BY <1>2, <1>4, SlotForm

LEMMA BodiesMeet ==
  ASSUME NEW s \in Slots, NEW t \in Slots, s # t, NEW p \in Nat \X Nat,
         InRoutingArea(p, s, CrossingNeighbors(s)), InRoutingArea(p, t, CrossingNeighbors(t))
  PROVE  t \in CrossingNeighbors(s) /\ (~InSlot(p, s) \/ ~InSlot(p, t))
<1>1. s \in Grid /\ t \in Grid
  BY SlotsAssumption
<1>2. PICK u \in {s} \cup CrossingNeighbors(s) : InSlot(p, u)
  BY DEF InRoutingArea
<1>3. PICK v \in {t} \cup CrossingNeighbors(t) : InSlot(p, v)
  BY DEF InRoutingArea
<1>4. u \in Grid /\ v \in Grid /\ u \in Slots /\ v \in Slots
  BY <1>1, CrossingRows DEF CrossingNeighbors
<1>5. u = v
  BY <1>2, <1>3, <1>4, SlotsApart
<1>6. t \in CrossingNeighbors(s)
  <2>1. CASE u = s
    <3>1. s \in CrossingNeighbors(t)
      BY <1>5, <2>1
    <3>2. Higher(s[2], t[2]) = Higher(t[2], s[2])
      BY <1>1, SlotForm DEF Higher
    <3>3. {s, t} = {t, s}
      OBVIOUS
    <3> QED
      BY <3>1, <3>2, <3>3 DEF CrossingNeighbors, IsPairSLRCrossing
  <2>2. CASE v = t
    BY <1>5, <2>2
  <2>3. CASE u # s /\ v # t
    <3>1. u \in CrossingNeighbors(s) /\ u \in CrossingNeighbors(t)
      BY <1>5, <2>3
    <3>2. s[1] = t[1] /\ s[2] = t[2]
      <4>1. s[1] = u[1] /\ t[1] = u[1]
        BY <3>1, CrossingRows
      <4>2. \E row \in {2, 4, 6} : (s[2] = row /\ u[2] = row - 1) \/ (u[2] = row /\ s[2] = row - 1)
        BY <3>1, CrossingRows
      <4>3. \E row \in {2, 4, 6} : (t[2] = row /\ u[2] = row - 1) \/ (u[2] = row /\ t[2] = row - 1)
        BY <3>1, CrossingRows
      <4> QED
        BY <4>1, <4>2, <4>3
    <3> QED
      BY <3>2, <1>1, SlotForm
  <2> QED
    BY <2>1, <2>2, <2>3
<1>7. ~InSlot(p, s) \/ ~InSlot(p, t)
  BY <1>1, SlotsApart
<1> QED
  BY <1>6, <1>7

\* The anchors and the cells of the slots are never in the same SLICE.
LEMMA AnchorsApart ==
  ASSUME NEW s \in Grid, NEW t \in Grid, Neighboring(s, t), ~IsPairSLRCrossing(s, t),
         NEW p \in Nat \X Nat, p \in BufferRegion(s, t), NEW u, NEW crossing
  PROVE  ~InRoutingArea(p, u, crossing)
BY BufferNotRouted DEF InRoutingArea

(***************************************************************************)
(* Types                                                                   *)
(***************************************************************************)
LEMMA EndsForm ==
  ASSUME ends \in [Anchors -> Neighbors], NEW a \in Anchors
  PROVE  /\ ends[a][1] \in Slots /\ ends[a][2] \in Slots
         /\ ends[a][1] \in Grid /\ ends[a][2] \in Grid
         /\ Neighboring(ends[a][1], ends[a][2]) /\ ends[a][1] # ends[a][2]
         /\ {ends[a][1], ends[a][2]} \in AllSlotPairs
         /\ a \in AnchorsOf({ends[a][1], ends[a][2]})
<1>1. ends[a] \in Neighbors
  OBVIOUS
<1>2. ends[a][1] \in Slots /\ ends[a][2] \in Slots /\ Neighboring(ends[a][1], ends[a][2])
  BY <1>1 DEF Neighbors
<1>3. ends[a][1] \in Grid /\ ends[a][2] \in Grid
  BY <1>2, SlotsAssumption
<1>4. {ends[a][1], ends[a][2]} \in AllSlotPairs
  BY <1>1 DEF AllSlotPairs
<1> QED
  BY <1>2, <1>3, <1>4, NeighborsDiffer DEF AnchorsOf

LEMMA NewPlaces ==
  ASSUME TypeOK, NEW pair \in AllSlotPairs, Waiting(pair), NEW f, DOMAIN f = AnchorsOf(pair),
         loc' = WithPlaces(f), ready' = ready \cup {pair}, UNCHANGED ends
  PROVE  /\ DOMAIN loc' = UNION {AnchorsOf(p)' : p \in ready'}
         /\ \A a \in DOMAIN loc : loc'[a] = loc[a]
         /\ \A a \in DOMAIN f : loc'[a] = f[a]
         /\ DOMAIN loc \cap DOMAIN f = {}
<1>1. DOMAIN loc' = DOMAIN loc \cup AnchorsOf(pair)
  BY DEF WithPlaces
<1>2. DOMAIN loc = UNION {AnchorsOf(p) : p \in ready}
  BY DEF TypeOK
<1>3. \A p : AnchorsOf(p)' = AnchorsOf(p)
  BY DEF AnchorsOf
<1>4. pair \notin ready
  BY DEF Waiting
<1>5. \A p \in ready : AnchorsOf(p) \cap AnchorsOf(pair) = {}
  BY <1>4 DEF AnchorsOf
<1>6. DOMAIN loc \cap DOMAIN f = {}
  BY <1>2, <1>5
<1> QED
  BY <1>1, <1>2, <1>3, <1>6 DEF WithPlaces

LEMMA SamePlaces ==
  ASSUME TypeOK, UNCHANGED <<ends, ready, loc>>
  PROVE  DOMAIN loc' = UNION {AnchorsOf(p)' : p \in ready'}
<1>1. \A p : AnchorsOf(p)' = AnchorsOf(p)
  BY DEF AnchorsOf
<1> QED
  BY <1>1 DEF TypeOK

LEMMA MergeTypes ==
  ASSUME TypeOK, NEW run \in Slrs \cup {Top}, NEW d, d.slots \subseteq SlotsOf(run),
         Merge(run, d)
  PROVE  TypeOK'
<1>1. UNCHANGED <<ends, body, ready, stopped, loc, dcp>>
  BY DEF Merge
<1>2. CASE thrown' = thrown \cup {run} /\ run \in DOMAIN merged /\ UNCHANGED merged
  BY <1>1, <1>2 DEF TypeOK, AnchorsOf
<1>3. CASE /\ merged' = [r \in DOMAIN merged \cup {run} |->
                           IF r # run THEN merged[r]
                           ELSE IF run \in DOMAIN merged THEN Merged(merged[run], d)
                           ELSE d]
           /\ UNCHANGED thrown
  <2>1. \A r \in DOMAIN merged' : merged'[r].slots \subseteq SlotsOf(r)
    <3>1. Merged(merged[run], d).slots = merged[run].slots \cup d.slots
      BY DEF Merged
    <3> QED
      BY <1>3, <3>1 DEF TypeOK
  <2>2. DOMAIN merged' \subseteq Slrs \cup {Top} /\ thrown' \subseteq DOMAIN merged'
    BY <1>3 DEF TypeOK
  <2> QED
    BY <1>1, <2>1, <2>2 DEF TypeOK, AnchorsOf
<1> QED
  BY <1>2, <1>3 DEF Merge

LEMMA SlotPairs ==
  ASSUME NEW s \in Slots, NEW t \in Slots, {s, t} \in AllSlotPairs
  PROVE  s \in Grid /\ t \in Grid /\ s # t /\ Neighboring(s, t)
         /\ (~IsCrossing({s, t}) <=> ~IsPairSLRCrossing(s, t))
<1>1. s \in Grid /\ t \in Grid
  BY SlotsAssumption
<1>2. PICK q \in Neighbors : {q[1], q[2]} = {s, t}
  BY DEF AllSlotPairs
<1>3. (q[1] = s /\ q[2] = t) \/ (q[1] = t /\ q[2] = s)
  BY <1>2
<1>4. s # t /\ Neighboring(s, t)
  BY <1>1, <1>3, NeighborsDiffer DEF Neighbors
<1>5. IsPairSLRCrossing(s, t) <=> IsPairSLRCrossing(t, s)
  BY <1>1, SlotForm DEF IsPairSLRCrossing, Higher
<1> QED
  BY <1>1, <1>4, <1>5 DEF IsCrossing

LEMMA TypeInit == Init => TypeOK
<1> SUFFICES ASSUME Init PROVE TypeOK
  OBVIOUS
<1>1. DOMAIN loc = {} /\ DOMAIN dcp = {} /\ DOMAIN merged = {}
  BY DEF Init
<1> QED
  BY <1>1 DEF Init, TypeOK

LEMMA TypeNext == TypeOK /\ [Next]_vars => TypeOK'
<1> SUFFICES ASSUME TypeOK, [Next]_vars PROVE TypeOK'
  OBVIOUS
<1>1. ASSUME NEW s \in Slots, NEW t \in Slots, PlaceInBins(s, t)
      PROVE  TypeOK'
  <2>1. PICK f \in Solutions(AnchorsOf({s, t}), Bins(s, t)) : loc' = WithPlaces(f)
    BY <1>1 DEF PlaceInBins
  <2>2. DOMAIN f = AnchorsOf({s, t})
    BY <2>1 DEF Solutions
  <2>3. DOMAIN loc' = UNION {AnchorsOf(p)' : p \in ready'}
    BY <1>1, <2>1, <2>2, NewPlaces DEF PlaceInBins, Waiting
  <2> QED
    BY <1>1, <2>3 DEF PlaceInBins, TypeOK, Waiting
<1>2. ASSUME NEW s \in Slots, NEW t \in Slots, PlacementFails(s, t)
      PROVE  TypeOK'
  BY <1>2, SamePlaces DEF PlacementFails, TypeOK, Waiting
<1>3. ASSUME NEW pair \in AllSlotPairs, PlaceOnLaguna(pair)
      PROVE  TypeOK'
  <2>1. PICK f \in [AnchorsOf(pair) -> LagunaRegs[pair]] : loc' = WithPlaces(f)
    BY <1>3 DEF PlaceOnLaguna
  <2>2. DOMAIN loc' = UNION {AnchorsOf(p)' : p \in ready'}
    BY <1>3, <2>1, NewPlaces DEF PlaceOnLaguna, Waiting
  <2> QED
    BY <1>3, <2>2 DEF PlaceOnLaguna, TypeOK, Waiting
<1>4. ASSUME NEW s \in Slots, RouteSlot(s)
      PROVE  TypeOK'
  <2>1. PICK site \in Probes, placed \in PlacedAnchors(s) :
          /\ body' = [body EXCEPT ![s] = site]
          /\ dcp' = [t \in DOMAIN dcp \cup {s} |->
                       IF t = s
                         THEN Wrapper(s, Drives(s), Reads(s), placed \cup {Cell(s, site, BodyBel)})
                         ELSE dcp[t]]
    BY <1>4 DEF RouteSlot
  <2>2. DOMAIN dcp' \subseteq Slots /\ \A t \in DOMAIN dcp' : dcp'[t].slots = {t}
    BY <2>1 DEF TypeOK, Wrapper
  <2>3. body' \in [Slots -> Probes]
    BY <2>1 DEF TypeOK
  <2> QED
    <3>1. UNCHANGED <<ends, ready, stopped, loc, merged, thrown>>
      BY <1>4 DEF RouteSlot
    <3> QED
      BY <3>1, <2>2, <2>3, SamePlaces DEF TypeOK
<1>5. ASSUME NEW run \in Slrs, NEW s \in Slots, MergeSlot(run, s)
      PROVE  TypeOK'
  <2>1. dcp[s].slots \subseteq SlotsOf(run)
    BY <1>5 DEF MergeSlot, TypeOK
  <2> QED
    BY <1>5, <2>1, MergeTypes DEF MergeSlot
<1>6. ASSUME NEW run \in Slrs, MergeSlr(run)
      PROVE  TypeOK'
  <2>1. merged[run].slots \subseteq SlotsOf(Top)
    BY <1>6 DEF MergeSlr, TypeOK, SlotsOf
  <2> QED
    BY <1>6, <2>1, MergeTypes DEF MergeSlr
<1>7. CASE UNCHANGED vars
  BY <1>7 DEF vars, TypeOK, AnchorsOf
<1> QED
  BY <1>1, <1>2, <1>3, <1>4, <1>5, <1>6, <1>7 DEF Next

\* Only neighbouring slots share anchors, and each run of MergeDCP merges slots of its
\* own SLR only.
THEOREM TypeCorrect == Spec => []TypeOK
BY TypeInit, TypeNext, PTL DEF Spec

(***************************************************************************)
(* Netlists.  Joined is Connected, and each net is named after its anchor  *)
(* and found only once.                                                    *)
(***************************************************************************)
DNet(S, a) == {Driver(S, a), <<"D", a>>}
QNet(S, a) == {<<"Q", a>>, Reader(S, a)}

NetsJoin(nets, S) ==
  /\ \A n \in DOMAIN nets : n[2] \in Touching(S) /\ nets[n] \in {DNet(S, n[2]), QNet(S, n[2])}
  /\ \A a \in Touching(S) : \E n \in DOMAIN nets : n[2] = a /\ nets[n] = DNet(S, a)
  /\ \A a \in Touching(S) : \E n \in DOMAIN nets : n[2] = a /\ nets[n] = QNet(S, a)
  /\ \A n, m \in DOMAIN nets : nets[n] = nets[m] => n = m

Joined(d) ==
  /\ d.anchors = Touching(d.slots) /\ d.ports = Open(d.slots)
  /\ NetsJoin(d.nets, d.slots)

LEMMA Pins ==
  ASSUME NEW S, NEW a, NEW b
  PROVE  /\ <<"D", a>> \in DNet(S, b) <=> a = b
         /\ <<"Q", a>> \in QNet(S, b) <=> a = b
         /\ <<"D", a>> \notin QNet(S, b) /\ <<"Q", a>> \notin DNet(S, b)
         /\ DNet(S, a) # QNet(S, b)
         /\ DNet(S, a) \ {<<"D", a>>} = {Driver(S, a)}
         /\ QNet(S, a) \ {<<"Q", a>>} = {Reader(S, a)}
         /\ DNet(S, a) = DNet(S, b) => a = b
         /\ QNet(S, a) = QNet(S, b) => a = b
<1>1. /\ Driver(S, b) = <<"out", b>> \/ Driver(S, b) = <<"port", b>>
      /\ Reader(S, b) = <<"in", b>> \/ Reader(S, b) = <<"port", b>>
      /\ Driver(S, a) = <<"out", a>> \/ Driver(S, a) = <<"port", a>>
      /\ Reader(S, a) = <<"in", a>> \/ Reader(S, a) = <<"port", a>>
  BY DEF Driver, Reader
<1>2. \A x : <<"D", a>> # <<"out", x>> /\ <<"D", a>> # <<"port", x>> /\ <<"D", a>> # <<"in", x>>
             /\ <<"D", a>> # <<"Q", x>> /\ (<<"D", a>> = <<"D", x>> <=> a = x)
  OBVIOUS
<1>3. \A x : <<"Q", a>> # <<"out", x>> /\ <<"Q", a>> # <<"port", x>> /\ <<"Q", a>> # <<"in", x>>
             /\ <<"Q", a>> # <<"D", x>> /\ (<<"Q", a>> = <<"Q", x>> <=> a = x)
  OBVIOUS
<1>4. /\ <<"D", a>> \in DNet(S, b) <=> a = b
      /\ <<"Q", a>> \in QNet(S, b) <=> a = b
      /\ <<"D", a>> \notin QNet(S, b) /\ <<"Q", a>> \notin DNet(S, b)
  BY <1>1, <1>2, <1>3 DEF DNet, QNet
<1>5. <<"D", a>> \in DNet(S, a) /\ <<"Q", a>> \in QNet(S, a)
  BY DEF DNet, QNet
<1>6. /\ DNet(S, a) \ {<<"D", a>>} = {Driver(S, a)}
      /\ QNet(S, a) \ {<<"Q", a>>} = {Reader(S, a)}
  BY <1>1, <1>2, <1>3 DEF DNet, QNet
<1> QED
  BY <1>4, <1>5, <1>6

\* The nets at the two pins of a register, and what is at their other ends.
LEMMA NetsOfAnchor ==
  ASSUME NEW d, Joined(d), NEW a \in d.anchors
  PROVE  /\ NetOf(d, <<"D", a>>) \in DOMAIN d.nets /\ NetOf(d, <<"D", a>>)[2] = a
         /\ d.nets[NetOf(d, <<"D", a>>)] = DNet(d.slots, a)
         /\ NetOf(d, <<"Q", a>>) \in DOMAIN d.nets /\ NetOf(d, <<"Q", a>>)[2] = a
         /\ d.nets[NetOf(d, <<"Q", a>>)] = QNet(d.slots, a)
         /\ Other(d, <<"D", a>>) = Driver(d.slots, a)
         /\ Other(d, <<"Q", a>>) = Reader(d.slots, a)
<1> DEFINE S == d.slots
<1>1. a \in Touching(S) /\ NetsJoin(d.nets, S)
  BY DEF Joined
<1>2. PICK n \in DOMAIN d.nets : n[2] = a /\ d.nets[n] = DNet(S, a)
  BY <1>1 DEF NetsJoin
<1>3. PICK m \in DOMAIN d.nets : m[2] = a /\ d.nets[m] = QNet(S, a)
  BY <1>1 DEF NetsJoin
<1>4. \A x \in DOMAIN d.nets : <<"D", a>> \in d.nets[x] => x = n
  <2> SUFFICES ASSUME NEW x \in DOMAIN d.nets, <<"D", a>> \in d.nets[x] PROVE x = n
    OBVIOUS
  <2>1. PICK b : b = x[2] /\ d.nets[x] \in {DNet(S, b), QNet(S, b)}
    BY <1>1 DEF NetsJoin
  <2>2. <<"D", a>> \notin QNet(S, b) /\ (<<"D", a>> \in DNet(S, b) <=> a = b)
    BY Pins
  <2>3. d.nets[x] = DNet(S, a)
    BY <2>1, <2>2
  <2> QED
    BY <1>1, <1>2, <2>3 DEF NetsJoin
<1>5. \A x \in DOMAIN d.nets : <<"Q", a>> \in d.nets[x] => x = m
  <2> SUFFICES ASSUME NEW x \in DOMAIN d.nets, <<"Q", a>> \in d.nets[x] PROVE x = m
    OBVIOUS
  <2>1. PICK b : b = x[2] /\ d.nets[x] \in {DNet(S, b), QNet(S, b)}
    BY <1>1 DEF NetsJoin
  <2>2. <<"Q", a>> \notin DNet(S, b) /\ (<<"Q", a>> \in QNet(S, b) <=> a = b)
    BY Pins
  <2>3. d.nets[x] = QNet(S, a)
    BY <2>1, <2>2
  <2> QED
    BY <1>1, <1>3, <2>3 DEF NetsJoin
<1>6. <<"D", a>> \in d.nets[n] /\ <<"Q", a>> \in d.nets[m]
  BY <1>2, <1>3, Pins
<1>7. NetOf(d, <<"D", a>>) = n
  BY <1>4, <1>6 DEF NetOf
<1>8. NetOf(d, <<"Q", a>>) = m
  BY <1>5, <1>6 DEF NetOf
<1>9. Other(d, <<"D", a>>) = Driver(S, a)
  <2> DEFINE rest == DNet(S, a) \ {<<"D", a>>}
  <2>1. rest = {Driver(S, a)}
    BY Pins
  <2>2. d.nets[NetOf(d, <<"D", a>>)] \ {<<"D", a>>} = rest
    BY <1>2, <1>7
  <2> QED
    BY <2>1, <2>2 DEF Other
<1>10. Other(d, <<"Q", a>>) = Reader(S, a)
  <2> DEFINE rest == QNet(S, a) \ {<<"Q", a>>}
  <2>1. rest = {Reader(S, a)}
    BY Pins
  <2>2. d.nets[NetOf(d, <<"Q", a>>)] \ {<<"Q", a>>} = rest
    BY <1>3, <1>8
  <2> QED
    BY <2>1, <2>2 DEF Other
<1> QED
  BY <1>2, <1>3, <1>7, <1>8, <1>9, <1>10

LEMMA JoinedConnected ==
  ASSUME NEW d, Joined(d)
  PROVE  Connected(d)
<1>1. NetsJoin(d.nets, d.slots)
  BY DEF Joined
<1>2. \A n \in DOMAIN d.nets : n[2] \in Touching(d.slots)
        /\ d.nets[n] \in {DNet(d.slots, n[2]), QNet(d.slots, n[2])}
  BY <1>1 DEF NetsJoin
<1>3. \A a \in Touching(d.slots) : /\ \E n \in DOMAIN d.nets : d.nets[n] = DNet(d.slots, a)
                                   /\ \E n \in DOMAIN d.nets : d.nets[n] = QNet(d.slots, a)
  BY <1>1 DEF NetsJoin
<1>4. {d.nets[n] : n \in DOMAIN d.nets} =
        {DNet(d.slots, a) : a \in Touching(d.slots)} \cup {QNet(d.slots, a) : a \in Touching(d.slots)}
  BY <1>2, <1>3
<1> QED
  BY <1>4 DEF Joined, Connected, DNet, QNet

\* An anchor in both designs has one end in each of them.
LEMMA SharedAnchor ==
  ASSUME NEW d0, NEW d1, Joined(d0), Joined(d1), d0.slots \cap d1.slots = {},
         NEW a \in Duplicates(d0, d1)
  PROVE  /\ a \in d0.anchors /\ a \in d1.anchors /\ a \in Anchors
         /\ \/ /\ ends[a][1] \in d0.slots /\ ends[a][2] \in d1.slots
               /\ ends[a][1] \notin d1.slots /\ ends[a][2] \notin d0.slots
               /\ OpenPin(d0, a) = <<"Q", a>>
               /\ Other(d1, OpenPin(d0, a)) = <<"in", a>>
            \/ /\ ends[a][2] \in d0.slots /\ ends[a][1] \in d1.slots
               /\ ends[a][2] \notin d1.slots /\ ends[a][1] \notin d0.slots
               /\ OpenPin(d0, a) = <<"D", a>>
               /\ Other(d1, OpenPin(d0, a)) = <<"out", a>>
         /\ Other(d0, OpenPin(d0, a)) = <<"port", a>>
<1>1. a \in d0.anchors /\ a \in d1.anchors
  BY DEF Duplicates
<1>2. a \in Touching(d0.slots) /\ a \in Touching(d1.slots)
  BY <1>1 DEF Joined
<1>3. /\ Other(d0, <<"D", a>>) = Driver(d0.slots, a) /\ Other(d0, <<"Q", a>>) = Reader(d0.slots, a)
      /\ Other(d1, <<"D", a>>) = Driver(d1.slots, a) /\ Other(d1, <<"Q", a>>) = Reader(d1.slots, a)
  BY <1>1, NetsOfAnchor
<1>4. IsPort(<<"port", a>>) /\ ~IsPort(<<"in", a>>)
  BY DEF IsPort
<1>5. CASE ends[a][1] \in d0.slots
  <2>1. ends[a][2] \in d1.slots /\ ends[a][1] \notin d1.slots /\ ends[a][2] \notin d0.slots
    BY <1>2, <1>5 DEF Touching
  <2>2. Reader(d0.slots, a) = <<"port", a>> /\ Reader(d1.slots, a) = <<"in", a>>
    BY <2>1 DEF Reader
  <2>3. OpenPin(d0, a) = <<"Q", a>>
    BY <1>3, <1>4, <2>2 DEF OpenPin
  <2> QED
    BY <1>1, <1>2, <1>3, <1>5, <2>1, <2>2, <2>3 DEF Touching
<1>6. CASE ends[a][1] \notin d0.slots
  <2>1. ends[a][2] \in d0.slots /\ ends[a][1] \in d1.slots /\ ends[a][2] \notin d1.slots
    BY <1>2, <1>6 DEF Touching
  <2>2. /\ Reader(d0.slots, a) = <<"in", a>> /\ Driver(d0.slots, a) = <<"port", a>>
        /\ Driver(d1.slots, a) = <<"out", a>>
    BY <1>6, <2>1 DEF Reader, Driver
  <2>3. OpenPin(d0, a) = <<"D", a>>
    BY <1>3, <1>4, <2>2 DEF OpenPin
  <2> QED
    BY <1>1, <1>2, <1>3, <1>6, <2>1, <2>2, <2>3 DEF Touching
<1> QED
  BY <1>5, <1>6

LEMMA NoThrow ==
  ASSUME NEW d0, NEW d1, Joined(d0), Joined(d1), d0.slots \cap d1.slots = {}
  PROVE  HaveOpenPins(d0, d1)
<1>1. ASSUME NEW a \in Duplicates(d0, d1)
      PROVE  IsPort(Other(d0, OpenPin(d0, a)))
  <2>1. Other(d0, OpenPin(d0, a)) = <<"port", a>>
    BY SharedAnchor
  <2> QED
    BY <2>1 DEF IsPort
<1> QED
  BY <1>1 DEF HaveOpenPins

\* Net n of a design with slots S is that of the same pin of anchor a in one with R.
SameKind(net, S, new, R, a) ==
  \/ net = DNet(S, a) /\ new = DNet(R, a)
  \/ net = QNet(S, a) /\ new = QNet(R, a)

\* Rewiring makes the nets of design0 those of the merged design, ...
LEMMA RewiredNets ==
  ASSUME NEW d0, NEW d1, Joined(d0), Joined(d1), d0.slots \cap d1.slots = {},
         NEW n \in DOMAIN d0.nets, NEW a, a = n[2]
  PROVE  /\ a \in Touching(d0.slots)
         /\ SameKind(d0.nets[n], d0.slots, Rewired(d0, d1)[n], d0.slots \cup d1.slots, a)
<1> USE DEF SameKind
<1> DEFINE S == d0.slots \cup d1.slots
           here == {b \in Duplicates(d0, d1) : n = NetOf(d0, OpenPin(d0, b))}
<1>1. a \in Touching(d0.slots) /\ d0.nets[n] \in {DNet(d0.slots, a), QNet(d0.slots, a)}
  BY DEF Joined, NetsJoin
<1>2. a \in d0.anchors /\ a \in Anchors
  BY <1>1 DEF Joined, Touching
<1>3. Rewired(d0, d1)[n] =
        (d0.nets[n] \ {Other(d0, OpenPin(d0, b)) : b \in here})
           \cup {Other(d1, OpenPin(d0, b)) : b \in here}
  BY DEF Rewired
<1>4. here \subseteq {a}
  <2> SUFFICES ASSUME NEW b \in here PROVE b = a
    OBVIOUS
  <2>1. b \in d0.anchors /\ OpenPin(d0, b) \in {<<"D", b>>, <<"Q", b>>}
    BY DEF Duplicates, OpenPin
  <2>2. NetOf(d0, <<"D", b>>)[2] = b /\ NetOf(d0, <<"Q", b>>)[2] = b
    BY <2>1, NetsOfAnchor
  <2> QED
    BY <2>1, <2>2
<1>5. CASE a \in here
  <2>1. here = {a} /\ a \in Duplicates(d0, d1) /\ n = NetOf(d0, OpenPin(d0, a))
    BY <1>4, <1>5
  <2>2. Rewired(d0, d1)[n] = (d0.nets[n] \ {<<"port", a>>}) \cup {Other(d1, OpenPin(d0, a))}
    <3>1. Other(d0, OpenPin(d0, a)) = <<"port", a>>
      BY <2>1, SharedAnchor
    <3> QED
      BY <1>3, <2>1, <3>1
  <2>3. CASE /\ ends[a][1] \in d0.slots /\ ends[a][2] \in d1.slots /\ ends[a][2] \notin d0.slots
             /\ OpenPin(d0, a) = <<"Q", a>> /\ Other(d1, OpenPin(d0, a)) = <<"in", a>>
    <3>1. d0.nets[n] = QNet(d0.slots, a)
      <4>1. n = NetOf(d0, <<"Q", a>>)
        BY <2>1, <2>3
      <4>2. d0.nets[NetOf(d0, <<"Q", a>>)] = QNet(d0.slots, a)
        BY <1>2, NetsOfAnchor
      <4> QED
        BY <4>1, <4>2
    <3>2. Reader(d0.slots, a) = <<"port", a>> /\ Reader(S, a) = <<"in", a>>
      BY <2>3 DEF Reader
    <3>3. Rewired(d0, d1)[n] = QNet(S, a)
      BY <2>2, <2>3, <3>1, <3>2 DEF QNet
    <3> QED
      BY <1>1, <3>1, <3>3
  <2>4. CASE /\ ends[a][2] \in d0.slots /\ ends[a][1] \in d1.slots /\ ends[a][1] \notin d0.slots
             /\ OpenPin(d0, a) = <<"D", a>> /\ Other(d1, OpenPin(d0, a)) = <<"out", a>>
    <3>1. d0.nets[n] = DNet(d0.slots, a)
      <4>1. n = NetOf(d0, <<"D", a>>)
        BY <2>1, <2>4
      <4>2. d0.nets[NetOf(d0, <<"D", a>>)] = DNet(d0.slots, a)
        BY <1>2, NetsOfAnchor
      <4> QED
        BY <4>1, <4>2
    <3>2. Driver(d0.slots, a) = <<"port", a>> /\ Driver(S, a) = <<"out", a>>
      BY <2>4 DEF Driver
    <3>3. Rewired(d0, d1)[n] = DNet(S, a)
      BY <2>2, <2>4, <3>1, <3>2 DEF DNet
    <3> QED
      BY <1>1, <3>1, <3>3
  <2> QED
    BY <2>1, <2>3, <2>4, SharedAnchor
<1>6. CASE a \notin here
  <2>1. Rewired(d0, d1)[n] = d0.nets[n]
    <3>1. here = {}
      BY <1>4, <1>6
    <3> QED
      BY <1>3, <3>1
  <2>2. CASE a \notin Duplicates(d0, d1)
    <3>1. a \notin Touching(d1.slots)
      BY <1>2, <2>2 DEF Duplicates, Joined
    <3>2. ends[a][1] \notin d1.slots /\ ends[a][2] \notin d1.slots
      BY <1>2, <3>1 DEF Touching
    <3>3. Driver(S, a) = Driver(d0.slots, a) /\ Reader(S, a) = Reader(d0.slots, a)
      BY <3>2 DEF Driver, Reader
    <3> QED
      BY <1>1, <2>1, <3>3 DEF DNet, QNet
  <2>3. CASE /\ a \in Duplicates(d0, d1)
             /\ ends[a][1] \in d0.slots /\ ends[a][2] \in d1.slots
             /\ OpenPin(d0, a) = <<"Q", a>>
    <3>1. d0.nets[n] # QNet(d0.slots, a)
      <4>1. n # NetOf(d0, <<"Q", a>>)
        BY <1>6, <2>3
      <4>2. d0.nets[NetOf(d0, <<"Q", a>>)] = QNet(d0.slots, a) /\ NetOf(d0, <<"Q", a>>) \in DOMAIN d0.nets
        BY <1>2, NetsOfAnchor
      <4> QED
        BY <4>1, <4>2 DEF Joined, NetsJoin
    <3>2. Driver(S, a) = Driver(d0.slots, a)
      BY <2>3 DEF Driver
    <3> QED
      BY <1>1, <2>1, <3>1, <3>2 DEF DNet
  <2>4. CASE /\ a \in Duplicates(d0, d1)
             /\ ends[a][2] \in d0.slots /\ ends[a][1] \in d1.slots
             /\ OpenPin(d0, a) = <<"D", a>>
    <3>1. d0.nets[n] # DNet(d0.slots, a)
      <4>1. n # NetOf(d0, <<"D", a>>)
        BY <1>6, <2>4
      <4>2. d0.nets[NetOf(d0, <<"D", a>>)] = DNet(d0.slots, a) /\ NetOf(d0, <<"D", a>>) \in DOMAIN d0.nets
        BY <1>2, NetsOfAnchor
      <4> QED
        BY <4>1, <4>2 DEF Joined, NetsJoin
    <3>2. Reader(S, a) = Reader(d0.slots, a)
      BY <2>4 DEF Reader
    <3> QED
      BY <1>1, <2>1, <3>1, <3>2 DEF QNet
  <2> QED
    BY <2>2, <2>3, <2>4, SharedAnchor
<1> QED
  BY <1>5, <1>6 DEF SameKind

\* ... those of design1 that are copied are the ones of its other anchors, ...
LEMMA CopiedNets ==
  ASSUME NEW d0, NEW d1, Joined(d0), Joined(d1), d0.slots \cap d1.slots = {},
         NEW n \in DOMAIN d1.nets, NEW a, a = n[2]
  PROVE  LET S == d0.slots \cup d1.slots
         IN  /\ a \in Touching(d1.slots)
             /\ n \in NetsNotToCopy(d0, d1) \cup DOMAIN d0.nets <=> a \in Touching(d0.slots)
             /\ a \notin Touching(d0.slots) =>
                  \/ d1.nets[n] = DNet(d1.slots, a) /\ d1.nets[n] = DNet(S, a)
                  \/ d1.nets[n] = QNet(d1.slots, a) /\ d1.nets[n] = QNet(S, a)
<1> DEFINE S == d0.slots \cup d1.slots
<1>1. a \in Touching(d1.slots) /\ d1.nets[n] \in {DNet(d1.slots, a), QNet(d1.slots, a)}
  BY DEF Joined, NetsJoin
<1>2. a \in d1.anchors /\ a \in Anchors
  BY <1>1 DEF Joined, Touching
<1>3. ASSUME n \in NetsNotToCopy(d0, d1) PROVE a \in Touching(d0.slots)
  <2>1. PICK pin \in {"D", "Q"}, b \in Duplicates(d0, d1) : n = NetOf(d1, <<pin, b>>)
    BY <1>3 DEF NetsNotToCopy
  <2>2. b \in d0.anchors /\ b \in d1.anchors
    BY DEF Duplicates
  <2>3. NetOf(d1, <<"D", b>>)[2] = b /\ NetOf(d1, <<"Q", b>>)[2] = b
    BY <2>2, NetsOfAnchor
  <2>4. a = b
    BY <2>1, <2>3
  <2> QED
    BY <2>2, <2>4 DEF Joined
<1>4. ASSUME n \in DOMAIN d0.nets PROVE a \in Touching(d0.slots)
  BY <1>4 DEF Joined, NetsJoin
<1>5. ASSUME a \in Touching(d0.slots) PROVE n \in NetsNotToCopy(d0, d1)
  <2>1. a \in Duplicates(d0, d1)
    BY <1>2, <1>5 DEF Duplicates, Joined
  <2>2. /\ d1.nets[NetOf(d1, <<"D", a>>)] = DNet(d1.slots, a) /\ NetOf(d1, <<"D", a>>) \in DOMAIN d1.nets
        /\ d1.nets[NetOf(d1, <<"Q", a>>)] = QNet(d1.slots, a) /\ NetOf(d1, <<"Q", a>>) \in DOMAIN d1.nets
    BY <1>2, NetsOfAnchor
  <2>3. n = NetOf(d1, <<"D", a>>) \/ n = NetOf(d1, <<"Q", a>>)
    BY <1>1, <2>2 DEF Joined, NetsJoin
  <2> QED
    BY <2>1, <2>3 DEF NetsNotToCopy
<1>6. ASSUME a \notin Touching(d0.slots)
      PROVE  DNet(d1.slots, a) = DNet(S, a) /\ QNet(d1.slots, a) = QNet(S, a)
  <2>1. ends[a][1] \notin d0.slots /\ ends[a][2] \notin d0.slots
    BY <1>2, <1>6 DEF Touching
  <2>2. Driver(S, a) = Driver(d1.slots, a) /\ Reader(S, a) = Reader(d1.slots, a)
    BY <2>1 DEF Driver, Reader
  <2> QED
    BY <2>2 DEF DNet, QNet
<1> QED
  BY <1>1, <1>3, <1>4, <1>5, <1>6

\* ... and so the merged design is joined again.
LEMMA MergedJoined ==
  ASSUME NEW d0, NEW d1, Joined(d0), Joined(d1), d0.slots \cap d1.slots = {}
  PROVE  Joined(Merged(d0, d1))
<1> DEFINE S    == d0.slots \cup d1.slots
           m    == Merged(d0, d1)
           nets == MergedNets(d0, d1)
<1>1. /\ m.slots = S /\ m.anchors = d0.anchors \cup d1.anchors
      /\ m.ports = (d0.ports \cup d1.ports) \ PortsNotToCopy(d0, d1) /\ m.nets = nets
  BY DEF Merged
<1>2. m.anchors = Touching(S)
  BY <1>1 DEF Joined, Touching
<1>3. m.ports = Open(S)
  <2>1. PortsNotToCopy(d0, d1) = Duplicates(d0, d1)
    <3>1. \A a \in Duplicates(d0, d1) : Other(d0, OpenPin(d0, a))[2] = a
      <4> SUFFICES ASSUME NEW a \in Duplicates(d0, d1)
                   PROVE  Other(d0, OpenPin(d0, a))[2] = a
        OBVIOUS
      <4>1. Other(d0, OpenPin(d0, a)) = <<"port", a>>
        BY SharedAnchor
      <4> QED
        BY <4>1
    <3> QED
      BY <3>1 DEF PortsNotToCopy
  <2>2. d0.ports = Open(d0.slots) /\ d1.ports = Open(d1.slots)
        /\ Duplicates(d0, d1) = Touching(d0.slots) \cap Touching(d1.slots)
    BY DEF Joined, Duplicates
  <2>3. (Open(d0.slots) \cup Open(d1.slots)) \ (Touching(d0.slots) \cap Touching(d1.slots))
          = Open(S)
    BY DEF Open, Touching
  <2> QED
    BY <1>1, <2>1, <2>2, <2>3
<1>4. /\ DOMAIN nets = DOMAIN d0.nets \cup (DOMAIN d1.nets \ (NetsNotToCopy(d0, d1) \cup DOMAIN d0.nets))
      /\ \A n \in DOMAIN d0.nets : nets[n] = Rewired(d0, d1)[n]
      /\ \A n \in DOMAIN nets \ DOMAIN d0.nets : nets[n] = d1.nets[n]
  BY DEF MergedNets
<1>5. ASSUME NEW n \in DOMAIN d0.nets, NEW a, a = n[2]
      PROVE  /\ a \in Touching(d0.slots) /\ a \in Touching(S)
             /\ \/ d0.nets[n] = DNet(d0.slots, a) /\ nets[n] = DNet(S, a)
                \/ d0.nets[n] = QNet(d0.slots, a) /\ nets[n] = QNet(S, a)
  <2>1. /\ a \in Touching(d0.slots)
        /\ \/ d0.nets[n] = DNet(d0.slots, a) /\ Rewired(d0, d1)[n] = DNet(S, a)
           \/ d0.nets[n] = QNet(d0.slots, a) /\ Rewired(d0, d1)[n] = QNet(S, a)
    
    <3>1. n \in DOMAIN d0.nets /\ a = n[2]
      BY <1>5
    <3>2. a \in Touching(d0.slots)
      BY <3>1, RewiredNets
    <3>3. SameKind(d0.nets[n], d0.slots, Rewired(d0, d1)[n], d0.slots \cup d1.slots, a)
      BY <3>1, RewiredNets
    <3> QED
      BY <3>2, <3>3 DEF SameKind
  <2>2. a \in Touching(S)
    BY <2>1 DEF Touching
  <2> QED
    BY <1>4, <2>1, <2>2
<1>6. ASSUME NEW n \in DOMAIN nets \ DOMAIN d0.nets, NEW a, a = n[2]
      PROVE  /\ a \in Touching(d1.slots) /\ a \in Touching(S)
             /\ a \notin Touching(d0.slots) /\ n \in DOMAIN d1.nets
             /\ \/ d1.nets[n] = DNet(d1.slots, a) /\ nets[n] = DNet(S, a)
                \/ d1.nets[n] = QNet(d1.slots, a) /\ nets[n] = QNet(S, a)
  <2>1. n \in DOMAIN d1.nets /\ n \notin NetsNotToCopy(d0, d1) \cup DOMAIN d0.nets /\ nets[n] = d1.nets[n]
    BY <1>4
  <2>2. /\ a \in Touching(d1.slots) /\ a \notin Touching(d0.slots)
        /\ \/ d1.nets[n] = DNet(d1.slots, a) /\ d1.nets[n] = DNet(S, a)
           \/ d1.nets[n] = QNet(d1.slots, a) /\ d1.nets[n] = QNet(S, a)
    BY <1>6, <2>1, CopiedNets
  <2>3. a \in Touching(S)
    BY <2>2 DEF Touching
  <2> QED
    BY <2>1, <2>2, <2>3
<1>7. ASSUME NEW n \in DOMAIN d1.nets, n[2] \notin Touching(d0.slots)
      PROVE  n \in DOMAIN nets \ DOMAIN d0.nets
  BY <1>4, <1>7, CopiedNets
<1> HIDE DEF S, m, nets
<1>8. \A n \in DOMAIN nets : n[2] \in Touching(S) /\ nets[n] \in {DNet(S, n[2]), QNet(S, n[2])}
  <2> SUFFICES ASSUME NEW n \in DOMAIN nets, NEW a, a = n[2]
               PROVE  a \in Touching(S) /\ nets[n] \in {DNet(S, a), QNet(S, a)}
    OBVIOUS
  <2> QED
    BY <1>5, <1>6
<1>9. ASSUME NEW a \in Touching(S)
      PROVE  /\ \E n \in DOMAIN nets : n[2] = a /\ nets[n] = DNet(S, a)
             /\ \E n \in DOMAIN nets : n[2] = a /\ nets[n] = QNet(S, a)
  <2>1. CASE a \in Touching(d0.slots)
    <3>1. PICK n \in DOMAIN d0.nets : n[2] = a /\ d0.nets[n] = DNet(d0.slots, a)
      BY <2>1 DEF Joined, NetsJoin
    <3>2. PICK k \in DOMAIN d0.nets : k[2] = a /\ d0.nets[k] = QNet(d0.slots, a)
      BY <2>1 DEF Joined, NetsJoin
    <3>3. DNet(d0.slots, a) # QNet(d0.slots, a)
      BY Pins
    <3>4. nets[n] = DNet(S, a) /\ nets[k] = QNet(S, a)
      BY <1>5, <3>1, <3>2, <3>3
    <3> QED
      BY <1>4, <3>1, <3>2, <3>4
  <2>2. CASE a \notin Touching(d0.slots)
    <3>1. a \in Touching(d1.slots)
      BY <2>2 DEF Touching, S
    <3>2. PICK n \in DOMAIN d1.nets : n[2] = a /\ d1.nets[n] = DNet(d1.slots, a)
      BY <3>1 DEF Joined, NetsJoin
    <3>3. PICK k \in DOMAIN d1.nets : k[2] = a /\ d1.nets[k] = QNet(d1.slots, a)
      BY <3>1 DEF Joined, NetsJoin
    <3>4. DNet(d1.slots, a) # QNet(d1.slots, a)
      BY Pins
    <3>5. n \in DOMAIN nets \ DOMAIN d0.nets /\ k \in DOMAIN nets \ DOMAIN d0.nets
      BY <1>7, <2>2, <3>2, <3>3
    <3>6. nets[n] = DNet(S, a) /\ nets[k] = QNet(S, a)
      BY <1>6, <3>2, <3>3, <3>4, <3>5
    <3> QED
      BY <3>2, <3>3, <3>5, <3>6
  <2> QED
    BY <2>1, <2>2
<1>10. ASSUME NEW n \in DOMAIN nets, NEW k \in DOMAIN nets, nets[n] = nets[k]
       PROVE  n = k
  <2>1. PICK a : a = n[2] /\ nets[n] \in {DNet(S, a), QNet(S, a)}
    BY <1>8
  <2>2. PICK b : b = k[2] /\ nets[k] \in {DNet(S, b), QNet(S, b)}
    BY <1>8
  <2>3. /\ DNet(S, a) # QNet(S, b) /\ QNet(S, a) # DNet(S, b)
        /\ DNet(S, a) = DNet(S, b) => a = b
        /\ QNet(S, a) = QNet(S, b) => a = b
    BY Pins
  <2>4. a = b
    BY <1>10, <2>1, <2>2, <2>3
  <2>5. DNet(S, a) # QNet(S, a)
    BY Pins
  <2>6. CASE n \in DOMAIN d0.nets /\ k \in DOMAIN d0.nets
    <3>1. d0.nets[n] = d0.nets[k]
      BY <1>5, <1>10, <2>1, <2>2, <2>4, <2>5, <2>6
    <3> QED
      BY <2>6, <3>1 DEF Joined, NetsJoin
  <2>7. CASE n \notin DOMAIN d0.nets /\ k \notin DOMAIN d0.nets
    <3>1. /\ n \in DOMAIN d1.nets
          /\ \/ d1.nets[n] = DNet(d1.slots, a) /\ nets[n] = DNet(S, a)
             \/ d1.nets[n] = QNet(d1.slots, a) /\ nets[n] = QNet(S, a)
      BY <1>6, <2>1, <2>7
    <3>2. /\ k \in DOMAIN d1.nets
          /\ \/ d1.nets[k] = DNet(d1.slots, a) /\ nets[k] = DNet(S, a)
             \/ d1.nets[k] = QNet(d1.slots, a) /\ nets[k] = QNet(S, a)
      BY <1>6, <2>2, <2>4, <2>7
    <3>3. d1.nets[n] = d1.nets[k]
      BY <1>10, <2>5, <3>1, <3>2
    <3> QED
      BY <3>1, <3>2, <3>3 DEF Joined, NetsJoin
  <2>8. CASE n \in DOMAIN d0.nets /\ k \notin DOMAIN d0.nets
    <3>1. a \in Touching(d0.slots)
      BY <1>5, <2>1, <2>8
    <3>2. b \notin Touching(d0.slots)
      BY <1>6, <2>2, <2>8
    <3> QED
      BY <2>4, <3>1, <3>2
  <2>9. CASE n \notin DOMAIN d0.nets /\ k \in DOMAIN d0.nets
    <3>1. a \notin Touching(d0.slots)
      BY <1>6, <2>1, <2>9
    <3>2. b \in Touching(d0.slots)
      BY <1>5, <2>2, <2>9
    <3> QED
      BY <2>4, <3>1, <3>2
  <2> QED
    BY <2>6, <2>7, <2>8, <2>9
<1>11. NetsJoin(nets, S)
  BY <1>8, <1>9, <1>10 DEF NetsJoin
<1> QED
  BY <1>1, <1>2, <1>3, <1>11 DEF Joined, m

LEMMA WrapperJoined ==
  ASSUME TypeOK, NEW s \in Slots, NEW placed
  PROVE  Joined(Wrapper(s, Drives(s), Reads(s), placed))
<1> DEFINE d    == Wrapper(s, Drives(s), Reads(s), placed)
           nets == WrapperNets(Drives(s), Reads(s))
<1>1. /\ d.slots = {s} /\ d.anchors = Drives(s) \cup Reads(s)
      /\ d.ports = Drives(s) \cup Reads(s) /\ d.nets = nets
  BY DEF Wrapper
<1>2. \A a \in Anchors : ends[a][1] # ends[a][2]
  BY EndsForm DEF TypeOK
<1>3. Drives(s) \cup Reads(s) = Touching({s}) /\ Touching({s}) = Open({s})
  BY <1>2 DEF Drives, Reads, Touching, Open
<1>4. ASSUME NEW a \in Drives(s)
      PROVE  /\ <<"_out", a>> \in DOMAIN nets /\ nets[<<"_out", a>>] = DNet({s}, a)
             /\ <<"port", a>> \in DOMAIN nets /\ nets[<<"port", a>>] = QNet({s}, a)
             /\ a \notin Reads(s)
  <2>1. Driver({s}, a) = <<"out", a>> /\ Reader({s}, a) = <<"port", a>> /\ a \notin Reads(s)
    BY <1>2 DEF Driver, Reader, Drives, Reads
  <2> QED
    BY <2>1 DEF WrapperNets, DNet, QNet
<1>5. ASSUME NEW a \in Reads(s)
      PROVE  /\ <<"_in", a>> \in DOMAIN nets /\ nets[<<"_in", a>>] = QNet({s}, a)
             /\ <<"port", a>> \in DOMAIN nets /\ nets[<<"port", a>>] = DNet({s}, a)
             /\ a \notin Drives(s)
  <2>1. Driver({s}, a) = <<"port", a>> /\ Reader({s}, a) = <<"in", a>> /\ a \notin Drives(s)
    BY <1>2 DEF Driver, Reader, Drives, Reads
  <2> QED
    BY <2>1 DEF WrapperNets, DNet, QNet
<1>6. DOMAIN nets = ({"_out"} \X Drives(s)) \cup ({"port"} \X (Drives(s) \cup Reads(s)))
                      \cup ({"_in"} \X Reads(s))
  BY DEF WrapperNets
<1>7. ASSUME NEW n \in DOMAIN nets
      PROVE  \E a \in Drives(s) \cup Reads(s) :
               /\ n[2] = a
               /\ \/ a \in Drives(s) /\ n = <<"_out", a>>
                  \/ a \in Drives(s) /\ n = <<"port", a>>
                  \/ a \in Reads(s) /\ n = <<"_in", a>>
                  \/ a \in Reads(s) /\ n = <<"port", a>>
  <2>1. CASE n \in {"_out"} \X Drives(s)
    <3>1. n = <<"_out", n[2]>> /\ n[2] \in Drives(s)
      BY <2>1
    <3> QED
      BY <3>1
  <2>2. CASE n \in {"port"} \X (Drives(s) \cup Reads(s))
    <3>1. n = <<"port", n[2]>> /\ n[2] \in Drives(s) \cup Reads(s)
      BY <2>2
    <3> QED
      BY <3>1
  <2>3. CASE n \in {"_in"} \X Reads(s)
    <3>1. n = <<"_in", n[2]>> /\ n[2] \in Reads(s)
      BY <2>3
    <3> QED
      BY <3>1
  <2> QED
    BY <1>6, <2>1, <2>2, <2>3
<1> HIDE DEF nets
<1>8. ASSUME NEW n \in DOMAIN nets
      PROVE  n[2] \in Touching({s}) /\ nets[n] \in {DNet({s}, n[2]), QNet({s}, n[2])}
  <2>1. PICK a \in Drives(s) \cup Reads(s) :
               /\ n[2] = a
               /\ \/ a \in Drives(s) /\ n = <<"_out", a>>
                  \/ a \in Drives(s) /\ n = <<"port", a>>
                  \/ a \in Reads(s) /\ n = <<"_in", a>>
                  \/ a \in Reads(s) /\ n = <<"port", a>>
    BY <1>7
  <2>2. nets[n] \in {DNet({s}, a), QNet({s}, a)}
    BY <1>4, <1>5, <2>1
  <2> QED
    BY <1>3, <2>1, <2>2
<1>9. ASSUME NEW a \in Touching({s})
      PROVE  /\ \E n \in DOMAIN nets : n[2] = a /\ nets[n] = DNet({s}, a)
             /\ \E n \in DOMAIN nets : n[2] = a /\ nets[n] = QNet({s}, a)
  <2>1. CASE a \in Drives(s)
    <3>1. <<"_out", a>>[2] = a /\ <<"port", a>>[2] = a
      OBVIOUS
    <3> QED
      BY <1>4, <2>1, <3>1
  <2>2. CASE a \in Reads(s)
    <3>1. <<"_in", a>>[2] = a /\ <<"port", a>>[2] = a
      OBVIOUS
    <3> QED
      BY <1>5, <2>2, <3>1
  <2> QED
    BY <1>3, <2>1, <2>2
<1>10. ASSUME NEW n \in DOMAIN nets, NEW k \in DOMAIN nets, nets[n] = nets[k]
       PROVE  n = k
  <2>1. PICK a \in Drives(s) \cup Reads(s) :
               \/ a \in Drives(s) /\ n = <<"_out", a>> /\ nets[n] = DNet({s}, a)
               \/ a \in Drives(s) /\ n = <<"port", a>> /\ nets[n] = QNet({s}, a)
               \/ a \in Reads(s) /\ n = <<"_in", a>> /\ nets[n] = QNet({s}, a)
               \/ a \in Reads(s) /\ n = <<"port", a>> /\ nets[n] = DNet({s}, a)
    BY <1>4, <1>5, <1>7
  <2>2. PICK b \in Drives(s) \cup Reads(s) :
               \/ b \in Drives(s) /\ k = <<"_out", b>> /\ nets[k] = DNet({s}, b)
               \/ b \in Drives(s) /\ k = <<"port", b>> /\ nets[k] = QNet({s}, b)
               \/ b \in Reads(s) /\ k = <<"_in", b>> /\ nets[k] = QNet({s}, b)
               \/ b \in Reads(s) /\ k = <<"port", b>> /\ nets[k] = DNet({s}, b)
    BY <1>4, <1>5, <1>7
  <2>3. /\ DNet({s}, a) # QNet({s}, b) /\ QNet({s}, a) # DNet({s}, b)
        /\ DNet({s}, a) = DNet({s}, b) => a = b
        /\ QNet({s}, a) = QNet({s}, b) => a = b
    <3>1. DNet({s}, a) # QNet({s}, b) /\ DNet({s}, b) # QNet({s}, a)
      BY Pins
    <3> QED
      BY <3>1, Pins
  <2>4. a = b
    BY <1>10, <2>1, <2>2, <2>3
  <2>5. (a \in Drives(s) => a \notin Reads(s)) /\ DNet({s}, a) # QNet({s}, a)
    BY <1>4, <2>3, <2>4
  <2> QED
    BY <1>10, <2>1, <2>2, <2>4, <2>5
<1>11. NetsJoin(nets, {s})
  BY <1>8, <1>9, <1>10 DEF NetsJoin
<1> QED
  BY <1>1, <1>3, <1>11 DEF Joined

(***************************************************************************)
(* Places                                                                  *)
(***************************************************************************)
PlacesRight ==
  \A a \in DOMAIN loc :
    IF OnLaguna(a)
      THEN loc[a] \in LagunaRegs[{ends[a][1], ends[a][2]}]
      ELSE loc[a] \in BufferRegion(ends[a][1], ends[a][2]) /\ loc[a] \in Probes

BodiesRouted == \A s \in Slots : InRoutingArea(body[s], s, CrossingNeighbors(s))

Fits(d) ==
  /\ d.slots \subseteq DOMAIN dcp /\ d.anchors \subseteq DOMAIN loc
  /\ \A p \in d.placed : \/ p.cell \in d.anchors /\ p.site = loc[p.cell]
                         \/ p.cell \in d.slots /\ p.site = body[p.cell]
  /\ \A a \in d.anchors : \E p \in d.placed : PlacesOf(d, a) = {p}
  /\ \A s \in d.slots : \/ \E p \in d.placed : PlacesOf(d, s) = {p}
                        \/ \E t \in CrossingNeighbors(s) \cap d.slots : body[s] = body[t]

LEMMA AnchorForm ==
  ASSUME TypeOK, NEW a \in DOMAIN loc
  PROVE  /\ a \in Anchors /\ ends[a][1] \in Slots /\ ends[a][2] \in Slots
         /\ ends[a][1] \in Grid /\ ends[a][2] \in Grid
         /\ Neighboring(ends[a][1], ends[a][2]) /\ {ends[a][1], ends[a][2]} \in AllSlotPairs
         /\ OnLaguna(a) <=> IsPairSLRCrossing(ends[a][1], ends[a][2])
         /\ OnLaguna(a) <=> IsCrossing({ends[a][1], ends[a][2]})
<1>1. a \in Anchors
  BY DEF TypeOK, AnchorsOf
<1>2. /\ ends[a][1] \in Slots /\ ends[a][2] \in Slots
      /\ {ends[a][1], ends[a][2]} \in AllSlotPairs
  BY <1>1, EndsForm DEF TypeOK
<1> QED
  BY <1>1, <1>2, SlotPairs DEF OnLaguna

LEMMA AnchorsMeet ==
  ASSUME TypeOK, PlacesRight, NEW a \in DOMAIN loc, NEW b \in DOMAIN loc, loc[a] = loc[b]
  PROVE  {ends[a][1], ends[a][2]} = {ends[b][1], ends[b][2]}
<1>1. CASE OnLaguna(a) /\ OnLaguna(b)
  <2> DEFINE q == {ends[a][1], ends[a][2]}
             r == {ends[b][1], ends[b][2]}
  <2>1. q \in AllSlotPairs /\ IsCrossing(q) /\ r \in AllSlotPairs /\ IsCrossing(r)
    BY <1>1, AnchorForm
  <2>2. loc[a] \in LagunaRegs[q] \cap LagunaRegs[r]
    BY <1>1 DEF PlacesRight
  <2> HIDE DEF q, r
  <2>3. q = r
    BY <2>1, <2>2, LagunaAssumption
  <2> QED
    BY <2>3 DEF q, r
<1>2. CASE OnLaguna(a) # OnLaguna(b)
  <2>1. ASSUME NEW x \in DOMAIN loc, NEW y \in DOMAIN loc, OnLaguna(x), ~OnLaguna(y),
               loc[x] = loc[y]
        PROVE  FALSE
    <3> DEFINE q == {ends[x][1], ends[x][2]}
    <3>1. q \in AllSlotPairs /\ IsCrossing(q)
      BY <2>1, AnchorForm
    <3>2. loc[x] \in LagunaRegs[q] /\ loc[y] \in Probes
      BY <2>1 DEF PlacesRight
    <3> HIDE DEF q
    <3> QED
      BY <2>1, <3>1, <3>2, LagunaAssumption
  <2>2. (OnLaguna(a) /\ ~OnLaguna(b)) \/ (OnLaguna(b) /\ ~OnLaguna(a))
    BY <1>2 DEF OnLaguna, IsCrossing
  <2> QED
    BY <2>1, <2>2
<1>3. CASE ~OnLaguna(a) /\ ~OnLaguna(b)
  <2>1. /\ loc[a] \in BufferRegion(ends[a][1], ends[a][2])
        /\ loc[a] \in BufferRegion(ends[b][1], ends[b][2])
        /\ loc[a] \in Nat \X Nat
    BY <1>3, ProbesAssumption DEF PlacesRight
  <2>2. /\ ends[a][1] \in Grid /\ ends[a][2] \in Grid
        /\ Neighboring(ends[a][1], ends[a][2]) /\ ~IsPairSLRCrossing(ends[a][1], ends[a][2])
    BY <1>3, AnchorForm
  <2>3. /\ ends[b][1] \in Grid /\ ends[b][2] \in Grid
        /\ Neighboring(ends[b][1], ends[b][2]) /\ ~IsPairSLRCrossing(ends[b][1], ends[b][2])
    BY <1>3, AnchorForm
  <2>4. PICK s \in Grid, t \in Grid : s = ends[a][1] /\ t = ends[a][2]
    BY <2>2
  <2>5. PICK u \in Grid, v \in Grid : u = ends[b][1] /\ v = ends[b][2]
    BY <2>3
  <2>6. PICK p \in Nat \X Nat : p = loc[a]
    BY <2>1
  <2>7. /\ Neighboring(s, t) /\ ~IsPairSLRCrossing(s, t) /\ p \in BufferRegion(s, t)
        /\ Neighboring(u, v) /\ ~IsPairSLRCrossing(u, v) /\ p \in BufferRegion(u, v)
    BY <2>1, <2>2, <2>3, <2>4, <2>5, <2>6
  <2>8. {s, t} = {u, v}
    BY <2>7, BuffersApart
  <2> QED
    BY <2>4, <2>5, <2>8
<1> QED
  BY <1>1, <1>2, <1>3 DEF OnLaguna, IsCrossing

LEMMA AnchorAndBody ==
  ASSUME TypeOK, PlacesRight, BodiesRouted, NEW a \in DOMAIN loc, NEW s \in Slots
  PROVE  loc[a] # body[s]
<1>1. body[s] \in Probes /\ body[s] \in Nat \X Nat
  BY ProbesAssumption DEF TypeOK
<1>2. CASE OnLaguna(a)
  <2> DEFINE q == {ends[a][1], ends[a][2]}
  <2>1. q \in AllSlotPairs /\ IsCrossing(q)
    BY <1>2, AnchorForm
  <2>2. loc[a] \in LagunaRegs[q]
    BY <1>2 DEF PlacesRight
  <2> HIDE DEF q
  <2> QED
    BY <1>1, <2>1, <2>2, LagunaAssumption
<1>3. CASE ~OnLaguna(a)
  <2>1. loc[a] \in BufferRegion(ends[a][1], ends[a][2])
    BY <1>3 DEF PlacesRight
  <2>2. /\ ends[a][1] \in Grid /\ ends[a][2] \in Grid
        /\ Neighboring(ends[a][1], ends[a][2]) /\ ~IsPairSLRCrossing(ends[a][1], ends[a][2])
    BY <1>3, AnchorForm
  <2>3. InRoutingArea(body[s], s, CrossingNeighbors(s))
    BY DEF BodiesRouted
  <2> QED
    BY <1>1, <2>1, <2>2, <2>3, AnchorsApart
<1> QED
  BY <1>2, <1>3

\* No place is lost in merging, but for cells that meet across an SLR boundary.
LEMMA MergedFits ==
  ASSUME TypeOK, PlacesRight, BodiesRouted, NEW d0, NEW d1, Joined(d0), Joined(d1),
         Fits(d0), Fits(d1), d0.slots \cap d1.slots = {}
  PROVE  Fits(Merged(d0, d1))
<1> DEFINE m == Merged(d0, d1)
<1>1. /\ m.slots = d0.slots \cup d1.slots /\ m.anchors = d0.anchors \cup d1.anchors
      /\ m.placed = MergedPlacement(d0, d1)
  BY DEF Merged
<1>2. d0.placed \subseteq m.placed /\ m.placed \subseteq d0.placed \cup d1.placed
  BY <1>1 DEF MergedPlacement
<1>3. \A p \in d1.placed : (~\E q \in d0.placed : q.site = p.site) => p \in m.placed
  BY <1>1 DEF MergedPlacement
<1>4. \A p \in m.placed : p \in d0.placed \/
        ~(\E q \in d0.placed : q.site = p.site) \/ \A q \in d0.placed : q.cell # p.cell
  BY <1>1 DEF MergedPlacement
<1>5. /\ d0.slots \subseteq Slots /\ d1.slots \subseteq Slots
      /\ d0.anchors \subseteq Anchors /\ d1.anchors \subseteq Anchors
  BY DEF Fits, TypeOK, Joined, Touching
<1>6. \A p \in d0.placed : p.cell \in d0.anchors \/ p.cell \in d0.slots
  BY DEF Fits
<1>7. \A p \in d1.placed : p.cell \in d1.anchors \/ p.cell \in d1.slots
  BY DEF Fits
<1> HIDE DEF m
\* Who may be in the place of an anchor that design0 does not have?
<1>8. ASSUME NEW a \in d1.anchors, a \notin d0.anchors, NEW q \in d0.placed
      PROVE  q.site # loc[a]
  <2>1. a \in DOMAIN loc /\ a \in Touching(d1.slots) /\ a \notin Touching(d0.slots)
    BY <1>8 DEF Fits, Joined
  <2>2. CASE q.cell \in d0.anchors /\ q.site = loc[q.cell]
    <3> PICK b : b = q.cell
      OBVIOUS
    <3>1. b \in DOMAIN loc /\ b \in Touching(d0.slots)
      BY <2>2 DEF Fits, Joined
    <3>2. ASSUME loc[b] = loc[a] PROVE FALSE
      <4>1. {ends[b][1], ends[b][2]} = {ends[a][1], ends[a][2]}
        BY <2>1, <3>1, <3>2, AnchorsMeet
      <4>2. ends[b][1] \in d0.slots \/ ends[b][2] \in d0.slots
        BY <3>1 DEF Touching
      <4>3. ends[a][1] \in d0.slots \/ ends[a][2] \in d0.slots
        BY <4>1, <4>2
      <4> QED
        BY <1>5, <2>1, <4>3 DEF Touching
    <3> QED
      BY <2>2, <3>2
  <2>3. CASE q.cell \in d0.slots /\ q.site = body[q.cell]
    BY <1>5, <2>1, <2>3, AnchorAndBody
  <2> QED
    BY <2>2, <2>3 DEF Fits
<1>9. ASSUME NEW a \in m.anchors
      PROVE  \E p \in m.placed : PlacesOf(m, a) = {p}
  <2>1. CASE a \in d0.anchors
    <3>1. PICK p \in d0.placed : PlacesOf(d0, a) = {p}
      BY <2>1 DEF Fits
    <3>2. p.cell = a /\ p.site = loc[a]
      BY <1>5, <2>1, <3>1, NamesAssumption DEF PlacesOf, Fits
    <3>3. ASSUME NEW q \in m.placed, q.cell = a PROVE q = p
      <4>1. CASE q \in d0.placed
        BY <3>1, <3>3, <4>1 DEF PlacesOf
      <4>2. CASE q \in d1.placed /\ q \notin d0.placed
        <5>1. q.site = loc[a]
          BY <1>5, <2>1, <3>3, <4>2, NamesAssumption DEF Fits
        <5> QED
          BY <1>4, <3>2, <3>3, <4>2, <5>1
      <4> QED
        BY <1>2, <4>1, <4>2
    <3>4. p \in m.placed
      BY <1>2
    <3>5. PlacesOf(m, a) = {p}
      BY <3>2, <3>3, <3>4 DEF PlacesOf
    <3> QED
      BY <3>4, <3>5
  <2>2. CASE a \notin d0.anchors
    <3>1. a \in d1.anchors
      BY <1>1, <2>2
    <3>2. PICK p \in d1.placed : PlacesOf(d1, a) = {p}
      BY <3>1 DEF Fits
    <3>3. p.cell = a /\ p.site = loc[a]
      BY <1>5, <3>1, <3>2, NamesAssumption DEF PlacesOf, Fits
    <3>4. p \in m.placed
      BY <1>3, <1>8, <2>2, <3>1, <3>3
    <3>5. ASSUME NEW q \in m.placed, q.cell = a PROVE q = p
      <4>1. q \notin d0.placed
        BY <1>5, <1>6, <2>2, <3>1, <3>5, NamesAssumption
      <4> QED
        BY <1>2, <3>2, <3>5, <4>1 DEF PlacesOf
    <3>6. PlacesOf(m, a) = {p}
      BY <3>3, <3>4, <3>5 DEF PlacesOf
    <3> QED
      BY <3>4, <3>6
  <2> QED
    BY <2>1, <2>2
<1>10. ASSUME NEW s \in m.slots
       PROVE  \/ \E p \in m.placed : PlacesOf(m, s) = {p}
              \/ \E t \in CrossingNeighbors(s) \cap m.slots : body[s] = body[t]
  <2>1. CASE s \in d0.slots /\ \E p \in d0.placed : PlacesOf(d0, s) = {p}
    <3> PICK p \in d0.placed : PlacesOf(d0, s) = {p}
      BY <2>1
    <3>1. p \in m.placed /\ p.cell = s
      BY <1>2 DEF PlacesOf
    <3>2. ASSUME NEW q \in m.placed, q.cell = s PROVE q = p
      <4>1. q \in d0.placed
        BY <1>2, <1>5, <1>7, <2>1, <3>2, NamesAssumption
      <4> QED
        BY <3>2, <4>1 DEF PlacesOf
    <3>3. PlacesOf(m, s) = {p}
      BY <3>1, <3>2 DEF PlacesOf
    <3> QED
      BY <3>1, <3>3
  <2>2. CASE s \in d1.slots /\ \E p \in d1.placed : PlacesOf(d1, s) = {p}
    <3> PICK p \in d1.placed : PlacesOf(d1, s) = {p}
      BY <2>2
    <3>1. p.cell = s
      BY DEF PlacesOf
    <3>2. p.site = body[s]
      BY <1>5, <2>2, <3>1, NamesAssumption DEF Fits
    <3>3. CASE \E q \in d0.placed : q.site = body[s]
      <4> PICK q \in d0.placed : q.site = body[s]
        BY <3>3
      <4>1. CASE q.cell \in d0.anchors /\ q.site = loc[q.cell]
        <5>1. q.cell \in DOMAIN loc
          BY <4>1 DEF Fits
        <5> QED
          BY <1>5, <2>2, <4>1, <5>1, AnchorAndBody
      <4>2. CASE q.cell \in d0.slots /\ q.site = body[q.cell]
        <5> PICK t : t = q.cell
          OBVIOUS
        <5>1. t \in d0.slots /\ t # s /\ body[t] = body[s] /\ t \in Slots /\ s \in Slots
          BY <1>5, <2>2, <4>2
        <5>2. body[s] \in Nat \X Nat
          BY <5>1, ProbesAssumption DEF TypeOK
        <5>3. t \in CrossingNeighbors(s)
          BY <5>1, <5>2, BodiesMeet DEF BodiesRouted
        <5> QED
          BY <1>1, <5>1, <5>3
      <4> QED
        BY <4>1, <4>2 DEF Fits
    <3>4. CASE ~\E q \in d0.placed : q.site = body[s]
      <4>1. p \in m.placed
        BY <1>3, <3>2, <3>4
      <4>2. ASSUME NEW q \in m.placed, q.cell = s PROVE q = p
        <5>1. q \in d1.placed
          BY <1>2, <1>5, <1>6, <2>2, <4>2, NamesAssumption
        <5> QED
          BY <4>2, <5>1 DEF PlacesOf
      <4>3. PlacesOf(m, s) = {p}
        BY <3>1, <4>1, <4>2 DEF PlacesOf
      <4> QED
        BY <4>1, <4>3
    <3> QED
      BY <3>3, <3>4
  <2>3. CASE \E t \in CrossingNeighbors(s) \cap m.slots : body[s] = body[t]
    BY <2>3
  <2> QED
    BY <1>1, <2>1, <2>2, <2>3 DEF Fits
<1>11. \A p \in m.placed : \/ p.cell \in m.anchors /\ p.site = loc[p.cell]
                           \/ p.cell \in m.slots /\ p.site = body[p.cell]
  BY <1>1, <1>2 DEF Fits
<1>12. m.slots \subseteq DOMAIN dcp /\ m.anchors \subseteq DOMAIN loc
  BY <1>1 DEF Fits
<1> QED
  BY <1>9, <1>10, <1>11, <1>12 DEF Fits, m

(***************************************************************************)
(* The invariant                                                           *)
(***************************************************************************)
Good(d) == Joined(d) /\ Fits(d)

IInv ==
  /\ TypeOK /\ PlacesRight /\ BodiesRouted
  /\ thrown = {} /\ \A d \in Designs : Good(d)

LEMMA StillJoined ==
  ASSUME NEW d, Joined(d), UNCHANGED ends
  PROVE  Joined(d)'
BY DEF Joined, NetsJoin, DNet, QNet, Driver, Reader, Touching, Open

\* Places that are in use do not change any more.
LEMMA StillGood ==
  ASSUME NEW d, Good(d), UNCHANGED ends,
         DOMAIN loc \subseteq DOMAIN loc', \A a \in DOMAIN loc : loc'[a] = loc[a],
         DOMAIN dcp \subseteq DOMAIN dcp', \A s \in DOMAIN dcp : body'[s] = body[s]
  PROVE  Good(d)'
<1>1. Joined(d)'
  BY StillJoined DEF Good
<1>2. d.slots \subseteq DOMAIN dcp' /\ d.anchors \subseteq DOMAIN loc'
  BY DEF Good, Fits
<1>3. \A p \in d.placed : \/ p.cell \in d.anchors /\ p.site = loc'[p.cell]
                          \/ p.cell \in d.slots /\ p.site = body'[p.cell]
  BY DEF Good, Fits
<1>4. \A s \in d.slots : \/ \E p \in d.placed : PlacesOf(d, s) = {p}
                         \/ \E t \in CrossingNeighbors(s) \cap d.slots : body'[s] = body'[t]
  BY DEF Good, Fits
<1> QED
  BY <1>1, <1>2, <1>3, <1>4 DEF Good, Fits, PlacesOf

LEMMA InvInit == Init => IInv
<1> SUFFICES ASSUME Init PROVE IInv
  OBVIOUS
<1>1. TypeOK
  BY TypeInit
<1>2. PlacesRight
  BY DEF Init, PlacesRight
<1>3. BodiesRouted
  <2> SUFFICES ASSUME NEW s \in Slots
               PROVE  InRoutingArea(body[s], s, CrossingNeighbors(s))
    BY DEF BodiesRouted
  <2>1. s \in Grid /\ body[s] \in Nat \X Nat /\ InPlacementArea(body[s], s)
    BY <1>1, SlotsAssumption, ProbesAssumption DEF Init, TypeOK
  <2> QED
    BY <2>1, PlacementInRouting
<1>4. Designs = {} /\ thrown = {}
  BY DEF Init, Designs
<1> QED
  BY <1>1, <1>2, <1>3, <1>4 DEF IInv

LEMMA PlacedGood ==
  ASSUME IInv, TypeOK', NEW pair \in AllSlotPairs, Waiting(pair), NEW f, DOMAIN f = AnchorsOf(pair),
         loc' = WithPlaces(f), ready' = ready \cup {pair},
         UNCHANGED <<ends, body, dcp, merged, thrown>>,
         \A a \in AnchorsOf(pair) :
           IF OnLaguna(a)
             THEN f[a] \in LagunaRegs[{ends[a][1], ends[a][2]}]
             ELSE f[a] \in BufferRegion(ends[a][1], ends[a][2]) /\ f[a] \in Probes
  PROVE  IInv'
<1>1. /\ \A a \in DOMAIN loc : loc'[a] = loc[a]
      /\ \A a \in DOMAIN f : loc'[a] = f[a]
      /\ DOMAIN loc' = DOMAIN loc \cup DOMAIN f
  BY NewPlaces DEF IInv, WithPlaces
<1>2. \A a : OnLaguna(a)' <=> OnLaguna(a)
  BY DEF OnLaguna, IsCrossing
<1>3. PlacesRight'
  BY <1>1, <1>2 DEF IInv, PlacesRight
<1>4. BodiesRouted'
  BY DEF IInv, BodiesRouted
<1>5. \A d \in Designs' : Good(d)'
  <2>1. Designs' = Designs
    BY DEF Designs
  <2> QED
    BY <1>1, <2>1, StillGood DEF IInv
<1> QED
  BY <1>3, <1>4, <1>5 DEF IInv

LEMMA RoutedGood ==
  ASSUME IInv, TypeOK', NEW s \in Slots, RouteSlot(s)
  PROVE  IInv'
<1>1. PICK site \in {p \in Probes : InRoutingArea(p, s, CrossingNeighbors(s))},
          placed \in PlacedAnchors(s) :
        /\ body' = [body EXCEPT ![s] = site]
        /\ dcp' = [t \in DOMAIN dcp \cup {s} |->
                     IF t = s
                       THEN Wrapper(s, Drives(s), Reads(s), placed \cup {Cell(s, site, BodyBel)})
                       ELSE dcp[t]]
  BY DEF RouteSlot
<1> PICK d : d = Wrapper(s, Drives(s), Reads(s), placed \cup {Cell(s, site, BodyBel)})
  OBVIOUS
<1>2. s \notin DOMAIN dcp /\ UNCHANGED <<ends, ready, stopped, loc, merged, thrown>>
  BY DEF RouteSlot
<1>3. body'[s] = site /\ \A t \in Slots \ {s} : body'[t] = body[t]
  BY <1>1 DEF IInv, TypeOK
<1>4. PlacesRight'
  BY <1>2 DEF IInv, PlacesRight, OnLaguna, IsCrossing
<1>5. BodiesRouted'
  BY <1>3 DEF IInv, BodiesRouted
<1>6. ASSUME NEW e \in Designs PROVE Good(e)'
  <2>1. \A t \in DOMAIN dcp : body'[t] = body[t]
    BY <1>2, <1>3 DEF IInv, TypeOK
  <2>2. DOMAIN dcp \subseteq DOMAIN dcp'
    BY <1>1
  <2> QED
    BY <1>2, <2>1, <2>2, StillGood DEF IInv
<1>7. Joined(d)'
  <2>1. Joined(d)
    BY WrapperJoined DEF IInv
  <2> QED
    BY <1>2, <2>1, StillJoined
<1>8. Fits(d)'
  <2>1. /\ d.slots = {s} /\ d.anchors = AnchorsAt(s)
        /\ d.placed = placed \cup {Cell(s, site, BodyBel)}
    BY DEF Wrapper, Drives, Reads, AnchorsAt
  <2>2. AnchorsAt(s) \subseteq DOMAIN loc
    <3> SUFFICES ASSUME NEW a \in AnchorsAt(s) PROVE a \in DOMAIN loc
      OBVIOUS
    <3>1. a \in Anchors /\ s \in {ends[a][1], ends[a][2]}
      BY DEF AnchorsAt
    <3>2. /\ {ends[a][1], ends[a][2]} \in AllSlotPairs
          /\ a \in AnchorsOf({ends[a][1], ends[a][2]})
      BY <3>1, EndsForm DEF IInv, TypeOK
    <3>3. {ends[a][1], ends[a][2]} \in ready
      BY <3>1, <3>2 DEF RouteSlot
    <3> QED
      BY <3>2, <3>3 DEF IInv, TypeOK
  <2>3. PICK bel : placed = {Cell(a, loc[a], bel[a]) : a \in {b \in AnchorsAt(s) : ~OnLaguna(b)}}
                              \cup {Cell(a, loc[a], loc[a]) : a \in AnchorsAt(s) \ {b \in AnchorsAt(s) : ~OnLaguna(b)}}
    BY DEF PlacedAnchors
  <2>4. \A p \in placed : p.cell \in AnchorsAt(s) /\ p.site = loc[p.cell]
    BY <2>3 DEF Cell
  <2>5. \A a \in AnchorsAt(s) : \E p \in placed : p.cell = a /\ \A q \in placed : q.cell = a => q = p
    <3> SUFFICES ASSUME NEW a \in AnchorsAt(s)
                 PROVE  \E p \in placed : p.cell = a /\ \A q \in placed : q.cell = a => q = p
      OBVIOUS
    <3>1. CASE OnLaguna(a)
      <4>1. Cell(a, loc[a], loc[a]) \in placed
        BY <2>3, <3>1
      <4>2. \A q \in placed : q.cell = a => q = Cell(a, loc[a], loc[a])
        BY <2>3, <3>1 DEF Cell
      <4> QED
        BY <4>1, <4>2 DEF Cell
    <3>2. CASE ~OnLaguna(a)
      <4>1. Cell(a, loc[a], bel[a]) \in placed
        BY <2>3, <3>2
      <4>2. \A q \in placed : q.cell = a => q = Cell(a, loc[a], bel[a])
        BY <2>3, <3>2 DEF Cell
      <4> QED
        BY <4>1, <4>2 DEF Cell
    <3> QED
      BY <3>1, <3>2
  <2>6. s \notin AnchorsAt(s) /\ Cell(s, site, BodyBel).cell = s /\ Cell(s, site, BodyBel).site = site
    BY NamesAssumption DEF AnchorsAt, Cell
  <2>7. d.slots \subseteq DOMAIN dcp' /\ d.anchors \subseteq DOMAIN loc'
    BY <1>1, <1>2, <2>1, <2>2
  <2>8. \A p \in d.placed : \/ p.cell \in d.anchors /\ p.site = loc'[p.cell]
                            \/ p.cell \in d.slots /\ p.site = body'[p.cell]
    BY <1>2, <1>3, <2>1, <2>4, <2>6
  <2>9. \A a \in d.anchors : \E p \in d.placed : PlacesOf(d, a) = {p}
    <3> SUFFICES ASSUME NEW a \in AnchorsAt(s) PROVE \E p \in d.placed : PlacesOf(d, a) = {p}
      BY <2>1
    <3>1. PICK p \in placed : p.cell = a /\ \A q \in placed : q.cell = a => q = p
      BY <2>5
    <3>2. PlacesOf(d, a) = {p}
      BY <2>1, <2>6, <3>1 DEF PlacesOf
    <3> QED
      BY <2>1, <3>2
  <2>10. PlacesOf(d, s) = {Cell(s, site, BodyBel)}
    BY <2>1, <2>4, <2>6 DEF PlacesOf
  <2>11. \A t \in d.slots : \E p \in d.placed : PlacesOf(d, t) = {p}
    BY <2>1, <2>10
  <2> QED
    BY <2>7, <2>8, <2>9, <2>11 DEF Fits, PlacesOf
<1>9. \A e \in Designs' : Good(e)'
  <2>1. ASSUME NEW e \in Designs' PROVE e \in Designs \/ e = d
    BY <1>1, <1>2 DEF Designs
  <2> QED
    BY <1>6, <1>7, <1>8, <2>1 DEF Good
<1> QED
  BY <1>2, <1>4, <1>5, <1>9 DEF IInv

LEMMA MergeGood ==
  ASSUME IInv, TypeOK', NEW run \in Slrs \cup {Top}, NEW d \in Designs,
         d.slots \cap Included(run) = {}, Merge(run, d)
  PROVE  IInv'
<1>1. UNCHANGED <<ends, body, ready, stopped, loc, dcp>>
  BY DEF Merge
<1>2. Good(d)
  BY DEF IInv
<1>3. ASSUME run \in DOMAIN merged
      PROVE  HaveOpenPins(merged[run], d) /\ Good(Merged(merged[run], d))
  <2>1. merged[run] \in Designs /\ Good(merged[run])
    BY <1>3 DEF Designs, IInv
  <2>2. merged[run].slots \cap d.slots = {}
    BY <1>3 DEF Included
  <2> QED
    BY <1>2, <2>1, <2>2, NoThrow, MergedJoined, MergedFits DEF Good, IInv
<1>4. /\ merged' = [r \in DOMAIN merged \cup {run} |->
                      IF r # run THEN merged[r]
                      ELSE IF run \in DOMAIN merged THEN Merged(merged[run], d)
                      ELSE d]
      /\ UNCHANGED thrown
  BY <1>3 DEF Merge
<1>5. ASSUME NEW e \in Designs' PROVE Good(e)
  <2>1. CASE e \in Designs
    BY <2>1 DEF IInv
  <2>2. CASE run \in DOMAIN merged /\ e = Merged(merged[run], d)
    BY <1>3, <2>2
  <2> QED
    BY <1>1, <1>4, <2>1, <2>2 DEF Designs
<1>6. \A e \in Designs' : Good(e)'
  BY <1>1, <1>5, StillGood
<1>7. PlacesRight' /\ BodiesRouted'
  BY <1>1 DEF IInv, PlacesRight, BodiesRouted, OnLaguna, IsCrossing
<1> QED
  BY <1>4, <1>6, <1>7 DEF IInv

LEMMA InvNext == IInv /\ [Next]_vars => IInv'
<1> SUFFICES ASSUME IInv, [Next]_vars PROVE IInv'
  OBVIOUS
<1>1. TypeOK'
  BY TypeNext DEF IInv
<1>2. ASSUME NEW s \in Slots, NEW t \in Slots, PlaceInBins(s, t)
      PROVE  IInv'
  <2>1. PICK f \in Solutions(AnchorsOf({s, t}), Bins(s, t)) : loc' = WithPlaces(f)
    BY <1>2 DEF PlaceInBins
  <2>2. {s, t} \in AllSlotPairs /\ ~IsCrossing({s, t})
    BY <1>2 DEF PlaceInBins, Waiting
  <2>3. s \in Grid /\ t \in Grid /\ Neighboring(s, t) /\ ~IsPairSLRCrossing(s, t)
    BY <2>2, SlotPairs
  <2>4. DOMAIN f = AnchorsOf({s, t}) /\ \A a \in AnchorsOf({s, t}) : f[a] \in Bins(s, t)
    BY <2>1 DEF Solutions
  <2>5. BufferRegion(s, t) = BufferRegion(t, s)
    <3>1. Lower(s[1], t[1]) = Lower(t[1], s[1]) /\ Higher(s[2], t[2]) = Higher(t[2], s[2])
      BY <2>3, SlotForm DEF Lower, Higher
    <3>2. (Beside(s, t) <=> Beside(t, s)) /\ (Beside(s, t) => s[2] = t[2])
          /\ (~Beside(s, t) => s[1] = t[1])
      BY <2>3 DEF Beside, Neighboring, Above
    <3>3. CASE Beside(s, t)
      BY <3>1, <3>2, <3>3 DEF BufferRegion
    <3>4. CASE ~Beside(s, t)
      BY <3>1, <3>2, <3>4 DEF BufferRegion
    <3> QED
      BY <3>3, <3>4
  <2>6. ASSUME NEW a \in AnchorsOf({s, t})
        PROVE  ~OnLaguna(a) /\ f[a] \in BufferRegion(ends[a][1], ends[a][2]) /\ f[a] \in Probes
    <3>1. {s, t} = {ends[a][1], ends[a][2]}
      BY DEF AnchorsOf
    <3>2. (ends[a][1] = s /\ ends[a][2] = t) \/ (ends[a][1] = t /\ ends[a][2] = s)
      BY <3>1
    <3> QED
      BY <2>2, <2>4, <2>5, <3>1, <3>2 DEF OnLaguna, Bins
  <2> QED
    BY <1>1, <1>2, <2>1, <2>2, <2>4, <2>6, PlacedGood DEF PlaceInBins
<1>3. ASSUME NEW s \in Slots, NEW t \in Slots, PlacementFails(s, t)
      PROVE  IInv'
  <2>1. UNCHANGED <<ends, body, ready, loc, dcp, merged, thrown>>
    BY <1>3 DEF PlacementFails
  <2>2. \A d \in Designs' : Good(d)'
    BY <2>1, StillGood DEF IInv, Designs
  <2> QED
    BY <1>1, <2>1, <2>2 DEF IInv, PlacesRight, BodiesRouted, OnLaguna, IsCrossing
<1>4. ASSUME NEW pair \in AllSlotPairs, PlaceOnLaguna(pair)
      PROVE  IInv'
  <2>1. PICK f \in [AnchorsOf(pair) -> LagunaRegs[pair]] : loc' = WithPlaces(f)
    BY <1>4 DEF PlaceOnLaguna
  <2>2. \A a \in AnchorsOf(pair) : OnLaguna(a) /\ f[a] \in LagunaRegs[{ends[a][1], ends[a][2]}]
    BY <1>4, <2>1 DEF AnchorsOf, PlaceOnLaguna, OnLaguna
  <2> QED
    BY <1>1, <1>4, <2>1, <2>2, PlacedGood DEF PlaceOnLaguna
<1>5. ASSUME NEW s \in Slots, RouteSlot(s)
      PROVE  IInv'
  BY <1>1, <1>5, RoutedGood
<1>6. ASSUME NEW run \in Slrs, NEW s \in Slots, MergeSlot(run, s)
      PROVE  IInv'
  <2>1. dcp[s] \in Designs /\ dcp[s].slots = {s} /\ s \notin Included(run)
    BY <1>6 DEF MergeSlot, Designs, IInv, TypeOK
  <2> QED
    BY <1>1, <1>6, <2>1, MergeGood DEF MergeSlot
<1>7. ASSUME NEW run \in Slrs, MergeSlr(run)
      PROVE  IInv'
  <2>1. merged[run] \in Designs /\ merged[run].slots \cap Included(Top) = {}
    BY <1>7 DEF MergeSlr, Designs, Included
  <2> QED
    BY <1>1, <1>7, <2>1, MergeGood DEF MergeSlr
<1>8. CASE UNCHANGED vars
  <2>1. UNCHANGED <<ends, body, ready, loc, dcp, merged, thrown>>
    BY <1>8 DEF vars
  <2>2. \A d \in Designs' : Good(d)'
    BY <2>1, StillGood DEF IInv, Designs
  <2> QED
    BY <1>1, <2>1, <2>2 DEF IInv, PlacesRight, BodiesRouted, OnLaguna, IsCrossing
<1> QED
  BY <1>2, <1>3, <1>4, <1>5, <1>6, <1>7, <1>8 DEF Next

LEMMA Invariant == Spec => []IInv
BY InvInit, InvNext, PTL DEF Spec

\* In every design, an anchor joins its two slots, or one of them with a port, and
\* MergeDCP finds a port at a pin of each anchor that is in both of its inputs.
THEOREM StitchedAlways == Spec => []Stitched
<1>1. IInv => Stitched
  BY JoinedConnected DEF IInv, Good, Stitched
<1> QED
  BY <1>1, Invariant, PTL

LEMMA CrossingSlrs ==
  ASSUME NEW s \in Slots, NEW t \in CrossingNeighbors(s)
  PROVE  Slr(s) # Slr(t)
<1>1. PICK row \in {2, 4, 6} : (s[2] = row /\ t[2] = row - 1) \/ (t[2] = row /\ s[2] = row - 1)
  BY CrossingRows
<1>2. CASE s[2] = row /\ t[2] = row - 1
  BY <1>2 DEF Slr
<1>3. CASE t[2] = row /\ s[2] = row - 1
  BY <1>3 DEF Slr
<1> QED
  BY <1>1, <1>2, <1>3

\* Merging loses no anchor, and no cell of a slot unless phys_opt_design has moved one
\* across an SLR boundary.
THEOREM CellsKeptAlways == Spec => []CellsKept
<1>1. ASSUME IInv, NEW run \in DOMAIN merged, NEW a \in merged[run].anchors
      PROVE  \E p \in merged[run].placed : PlacesOf(merged[run], a) = {p} /\ p.site = loc[a]
  <2>1. Fits(merged[run]) /\ Joined(merged[run])
    BY <1>1 DEF IInv, Good, Designs
  <2>2. PICK p \in merged[run].placed : PlacesOf(merged[run], a) = {p}
    BY <1>1, <2>1 DEF Fits
  <2>3. p.cell = a
    BY <2>2 DEF PlacesOf
  <2>4. merged[run].slots \subseteq Slots /\ a \in Anchors
    BY <1>1, <2>1 DEF IInv, TypeOK, Fits, Joined, Touching
  <2>5. p.site = loc[a]
    BY <2>1, <2>3, <2>4, NamesAssumption DEF Fits
  <2> QED
    BY <2>2, <2>5
<1>2. ASSUME IInv, NEW run \in DOMAIN merged, NEW s \in merged[run].slots
      PROVE  \/ \E p \in merged[run].placed : PlacesOf(merged[run], s) = {p}
             \/ /\ run = Top
                /\ \E t \in CrossingNeighbors(s) :
                     /\ body[s] = body[t]
                     /\ ~InSlot(body[s], s) \/ ~InSlot(body[t], t)
  <2>1. Fits(merged[run]) /\ merged[run].slots \subseteq SlotsOf(run) /\ run \in Slrs \cup {Top}
    BY <1>2 DEF IInv, Good, Designs, TypeOK
  <2>2. CASE \E p \in merged[run].placed : PlacesOf(merged[run], s) = {p}
    BY <2>2
  <2>3. CASE \E t \in CrossingNeighbors(s) \cap merged[run].slots : body[s] = body[t]
    <3> PICK t \in CrossingNeighbors(s) \cap merged[run].slots : body[s] = body[t]
      BY <2>3
    <3>1. s \in Slots /\ t \in Slots /\ s # t
      BY <2>1 DEF SlotsOf, CrossingNeighbors
    <3>2. run = Top
      BY <2>1, <3>1, CrossingSlrs DEF SlotsOf
    <3>3. body[s] \in Nat \X Nat
      BY <1>2, <3>1, ProbesAssumption DEF IInv, TypeOK
    <3>4. ~InSlot(body[s], s) \/ ~InSlot(body[t], t)
      BY <1>2, <3>1, <3>3, BodiesMeet DEF IInv, BodiesRouted
    <3> QED
      BY <3>2, <3>4
  <2> QED
    BY <2>1, <2>2, <2>3 DEF Fits
<1>3. IInv => CellsKept
  BY <1>1, <1>2 DEF CellsKept
<1> QED
  BY <1>3, Invariant, PTL

\* Anchors and cells are where their nets may be routed.
THEOREM ContainedAlways == Spec => []Contained
<1>1. ASSUME IInv, NEW a \in DOMAIN loc, ~OnLaguna(a)
      PROVE  InAnchorPblock(loc[a], ends[a][1]) /\ InAnchorPblock(loc[a], ends[a][2])
  <2>1. /\ ends[a][1] \in Grid /\ ends[a][2] \in Grid
        /\ Neighboring(ends[a][1], ends[a][2]) /\ ~IsPairSLRCrossing(ends[a][1], ends[a][2])
    BY <1>1, AnchorForm DEF IInv
  <2>2. loc[a] \in BufferRegion(ends[a][1], ends[a][2]) /\ loc[a] \in Nat \X Nat
    BY <1>1, ProbesAssumption DEF IInv, PlacesRight
  <2> QED
    BY <2>1, <2>2, BufferInPblock
<1>2. IInv => Contained
  BY <1>1 DEF Contained, IInv, BodiesRouted
<1> QED
  BY <1>2, Invariant, PTL
=============================================================================
