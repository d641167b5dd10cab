------------------------ MODULE MCAnchorConnections ------------------------
(***************************************************************************)
(* Four slots in a square: A below B, C to the right of B, D below C.  An  *)
(* edge goes from A through B to C.  The names of another wire between A   *)
(* and B and of the wire from C to D end in that of the wire q, which does *)
(* no harm; in the other namings, wires of two boundaries of B are taken   *)
(* for each other.                                                         *)
(***************************************************************************)
EXTENDS AnchorConnections

A == <<0, 0>>
B == <<0, 4>>
C == <<4, 4>>
D == <<4, 0>>

Square     == {A, B, C, D}
SquarePairs == <<<<A, B>>, <<C, B>>, <<D, C>>, <<A, D>>>>

FiveWires == {"q", "e_pass_0", "e_pass_1", "a_q", "b_q"}
MCDriver  == [w \in FiveWires |->
                CASE w \in {"q", "e_pass_0"} -> A [] w \in {"e_pass_1", "a_q"} -> B
                  [] w = "b_q" -> C]
MCReader  == [w \in FiveWires |->
                CASE w \in {"q", "e_pass_0"} -> B [] w = "e_pass_1" -> C
                  [] w = "a_q" -> A [] w = "b_q" -> D]
MCPassing == {<<"e_pass_0", "e_pass_1">>}
EndingIn(S, v) == [w \in FiveWires |-> IF w \in S THEN {w, v} ELSE {w}]
MCNamings == {EndingIn({"a_q", "b_q"}, "q"), EndingIn({"a_q", "e_pass_1"}, "q"),
              EndingIn({"q"}, "e_pass_1")}
=============================================================================
