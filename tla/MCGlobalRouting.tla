-------------------------- MODULE MCGlobalRouting --------------------------
(***************************************************************************)
(* One edge on the grid of the U250, from its lower left corner to the top *)
(* of its third column: the shortest way has ten slots, that by the fourth *)
(* column twelve.                                                          *)
(***************************************************************************)
EXTENDS GlobalRouting

LongSrc   == <<<<0, 0>>>>
LongDst   == <<<<2, 7>>>>
LongWidth == <<1>>
=============================================================================
