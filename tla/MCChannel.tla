----------------------------- MODULE MCChannel -----------------------------
(***************************************************************************)
(* Three edges on a grid of eight slots in two SLRs of two rows each.  The *)
(* first edge crosses the boundary between the SLRs.                       *)
(***************************************************************************)
EXTENDS Channel

MCSrc == <<<<0, 0>>, <<0, 1>>, <<1, 0>>>>
MCDst == <<<<1, 2>>, <<1, 1>>, <<0, 1>>>>
MCWidth == <<2, 1, 1>>

Build(style, plan, kind, maxHops) ==
  [style |-> style, plan |-> plan, kind |-> kind, maxHops |-> maxHops]

MCBuilds == {Build("REG", 1, "srl", 3), Build("LUT", 1, "bram", 3),
             Build("DOUBLE_REG", 3, "srl", 1), Build("INVERT_CLOCK", 3, "srl", 3)}
=============================================================================
