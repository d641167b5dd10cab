--------------------------- MODULE AnchorRegions ---------------------------
(***************************************************************************)
(* Which SLICEs of a U250 belong to whom.  A slot is 2x2 clock regions and *)
(* is named by its column (0..3) and row (0..7); an SLR has two rows of    *)
(* slots.  Along each boundary between slots of one SLR lies a buffer      *)
(* region for the anchors of the two slots.  The regions, the areas where  *)
(* cells of a slot may be placed and routed, and the pblock of the anchors *)
(* are written down in different functions that "must sync".               *)
(*                                                                         *)
(* A SLICE is <<x, y>>.                                                    *)
(***************************************************************************)
EXTENDS Integers

Grid == (0..3) \X (0..7)

Beside(s, t)    == s[2] = t[2] /\ (s[1] = t[1] + 1 \/ t[1] = s[1] + 1)
Above(s, t)     == s[1] = t[1] /\ s[2] = t[2] + 1
Neighboring(s, t) == Beside(s, t) \/ Above(s, t) \/ Above(t, s)

Lower(m, n)  == IF m < n THEN m ELSE n
Higher(m, n) == IF m > n THEN m ELSE n

Slr(s) == s[2] \div 2

\* isPairSLRCrossing: the upper slot starts at clock region row 4, 8 or 12.
IsPairSLRCrossing(s, t) == s[1] = t[1] /\ Higher(s[2], t[2]) \in {2, 4, 6}

-----------------------------------------------------------------------------
(***************************************************************************)
(* Columns and rows of SLICEs.                                             *)
(***************************************************************************)
SlotHeight == 120

\* idx_1st_col_Slot_X; column 4 is the end of the device.
FirstColumn(col) == <<0, 57, 117, 176, 233>>[col + 1]

ColumnsOf(col) == FirstColumn(col)..(FirstColumn(col + 1) - 1)
RowsOf(row)    == (SlotHeight * row)..(SlotHeight * row + SlotHeight - 1)

\* The columns at the right boundary of a slot column, widened to both sides.
BoundaryColumns(col, gap) ==
  CASE col = 0 -> (56 - gap)..(58 + gap)
    [] col = 1 -> (115 - gap)..(117 + gap)
    [] col = 2 -> (175 - gap)..(177 + gap)

\* DETAILED_SLOT_RANGE
InSlot(site, s) == site[1] \in ColumnsOf(s[1]) /\ site[2] \in RowsOf(s[2])

\* __getBufferRegionSize
RowWidth == 5
\* buffer_gap: in placement, a slot keeps away from the regions of the anchors.
BufferGap == 2

\* Faulty variant: regions at vertical boundaries are as high as the slots.
BufferRegionUnshrunk(s, t) ==
  IF Beside(s, t)
    THEN BoundaryColumns(Lower(s[1], t[1]), 0) \X RowsOf(s[2])
    ELSE LET middle == SlotHeight * Higher(s[2], t[2])
         IN  ColumnsOf(s[1]) \X ((middle - RowWidth)..(middle + RowWidth - 1))

\* getBufferRegionBetweenSlotPair.  Pairs that cross SLRs have Laguna sites instead.
BufferRegion(s, t) ==
  IF Beside(s, t)
    THEN BoundaryColumns(Lower(s[1], t[1]), 0) \X
         ((SlotHeight * s[2] + RowWidth)..(SlotHeight * (s[2] + 1) - 1 - RowWidth))
    ELSE LET middle == SlotHeight * Higher(s[2], t[2])
         IN  ColumnsOf(s[1]) \X ((middle - RowWidth)..(middle + RowWidth - 1))

\* getAllVerticalBufferRegions
InVerticalBuffers(site, gap) == \E col \in 0..2 : site[1] \in BoundaryColumns(col, gap)

\* getAllHorizontalBufferRegions: at the upper side of the lower row of an SLR and
\* at the lower side of its upper row, none at SLR boundaries.
InHorizontalBuffers(site, width) ==
  \E row \in 0..7 :
    site[2] \in IF row % 2 = 1
                  THEN (SlotHeight * row)..(SlotHeight * row + width - 1)
                  ELSE (SlotHeight * (row + 1) - width)..(SlotHeight * (row + 1) - 1)

\* getAllLagunaBufferRegions(add_empty_space = True)
LeftOfLaguna ==
  {7, 18, 36, 49, 62, 84, 96, 110, 123, 138, 151, 163, 181, 193, 213, 224}
InLagunaBuffers(site) ==
  /\ \E x \in LeftOfLaguna : site[1] \in x..(x + 2)
  /\ \E y \in {180, 420, 660} : site[2] \in (y - 2)..(y + 119 + 2)

\* __constrainSlotBody: where the cells of a slot are placed.
InPlacementArea(site, s) ==
  /\ InSlot(site, s)
  /\ ~InVerticalBuffers(site, BufferGap)
  /\ ~InHorizontalBuffers(site, RowWidth + BufferGap)
  /\ ~InLagunaBuffers(site)

\* getNonSlotRegionsForRouting
InNonSlotRegions(site) ==
  InVerticalBuffers(site, 0) \/ InHorizontalBuffers(site, RowWidth)

\* The inner pblock of addRoutingPblock: the slot and its neighbours across an SLR
\* boundary (crossing), without the regions of the anchors.
InRoutingArea(site, s, crossing) ==
  /\ \E t \in {s} \cup crossing : InSlot(site, t)
  /\ ~InNonSlotRegions(site)

-----------------------------------------------------------------------------
(***************************************************************************)
(* generateAnchorInclusivePblock, getAnchorPblock                          *)
(***************************************************************************)
InVerticalSegment(site, boundary, row) ==
  /\ boundary \in 1..3
  /\ site[1] \in BoundaryColumns(boundary - 1, 0) /\ site[2] \in RowsOf(row)

InHorizontalSegment(site, col, boundary) ==
  /\ boundary % 2 = 1
  /\ site[1] \in CASE col = 0 -> 0..58 [] col = 1 -> 56..117
                   [] col = 2 -> 115..177 [] col = 3 -> 175..232
  /\ site[2] \in (SlotHeight * boundary - 5)..(SlotHeight * boundary + 4)

\* Faulty variant: the segment above a slot is forgotten.
InAnchorPblockNoTop(site, s) ==
  \/ InSlot(site, s)
  \/ \E boundary \in {s[1], s[1] + 1} : InVerticalSegment(site, boundary, s[2])
  \/ InHorizontalSegment(site, s[1], s[2])
InAnchorPblock(site, s) ==
  \/ InSlot(site, s)
  \/ \E boundary \in {s[1], s[1] + 1} : InVerticalSegment(site, boundary, s[2])
  \/ \E boundary \in {s[2], s[2] + 1} : InHorizontalSegment(site, s[1], boundary)
=============================================================================
