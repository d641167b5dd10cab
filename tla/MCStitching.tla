---------------------------- MODULE MCStitching ----------------------------
(***************************************************************************)
(* Three slots of an SLR around a corner and one above them in the next    *)
(* SLR.  The SLICEs are those where regions and areas meet.                *)
(***************************************************************************)
EXTENDS Stitching, TLC

CONSTANTS a1, a2, a3, b1, b2, r1, r2, r3

Lower1 == <<0, 0>>
Upper1 == <<0, 1>>
Right1 == <<1, 1>>
Next1  == <<0, 2>>

FourSlots == {Lower1, Upper1, Right1, Next1}

CornerProbes ==
  {<<56, 124>>, <<56, 125>>, <<58, 130>>,                       \* for anchors
   <<53, 112>>, <<55, 114>>, <<53, 127>>, <<61, 127>>, <<53, 240>>}  \* for cells

OneCrossing == [p \in {{Upper1, Next1}} |-> {r1, r2, r3}]

Alike == Permutations({a1, a2, a3}) \cup Permutations({r1, r2, r3})
=============================================================================
