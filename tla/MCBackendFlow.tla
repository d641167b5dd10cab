--------------------------- MODULE MCBackendFlow ---------------------------
(***************************************************************************)
(* Instances of BackendFlow: two slots that share one pair, and a chain of *)
(* three slots with two pairs, each slot in an SLR of its own.             *)
(***************************************************************************)
EXTENDS BackendFlow

TwoEnds   == [p \in 1..1 |-> {1, 2}]
OneSlr    == [s \in 1..2 |-> 1]
\* Each of the outer slots is not part of one pair, whose anchors it sources all the
\* same; the one that the first slot is not part of is placed first.
ChainEnds == [p \in 1..2 |-> {3 - p, 4 - p}]
ChainSlrs == [s \in 1..3 |-> s]

\* A file that each step from placement to routing writes while others can see it:
\* of Vivado, of a JSON writer and of Tcl writers.
DataFiles == {"init_conn", "create_tcl", "clock_tcl", "opt_dcp", "phys_dcp"}
=============================================================================
