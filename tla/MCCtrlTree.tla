----------------------------- MODULE MCCtrlTree -----------------------------
(***************************************************************************)
(* Small grids.  The root has a slot on its left and, in some instances,   *)
(* one on its right; above the left one is the end of a column.            *)
(***************************************************************************)
EXTENDS CtrlTree

CONSTANTS a, b

RootAt     == <<1, 0>>
Chain      == {RootAt, <<0, 0>>, <<0, 1>>}
TwoSides   == Chain \cup {<<2, 0>>}

End        == <<0, 1>>
EndAndSide == [k \in {a, b} |-> IF k = a THEN End ELSE <<2, 0>>]
EndAndPath == [k \in {a, b} |-> IF k = a THEN End ELSE <<0, 0>>]
AllAtEnd   == [k \in Kernels |-> End]
=============================================================================
