------------------------- MODULE MCLagunaPlacement -------------------------
(***************************************************************************)
(* Two channels at the ends of a boundary's rows, with sites of one        *)
(* register: five anchors fill both channels.                              *)
(***************************************************************************)
EXTENDS LagunaPlacement, TLC

CONSTANTS a1, a2, a3, a4, a5

FiveAnchors == {a1, a2, a3, a4, a5}
Anonymous   == Permutations(FiveAnchors)
=============================================================================
