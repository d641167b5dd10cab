------------------------- MODULE AnchorConnections -------------------------
(***************************************************************************)
(* Who places an anchor.  An anchor is the register of a wire between two  *)
(* neighbouring slots.  Each slot is placed by itself, with its own copy   *)
(* of the anchors around it; Vivado reports the timing paths between       *)
(* anchors and cells of the slot, and TimingReportParser makes connections *)
(* of them.  For each pair of neighbours, PairwiseAnchorPlacement collects *)
(* the anchors between the two from the connections of both, by the names  *)
(* of their wires, and places them.  Each slot then takes the anchors      *)
(* around it from the scripts of all its pairs: once to route the clock,   *)
(* once to optimise its placement.                                         *)
(*                                                                         *)
(* A path that Vivado does not report, since the logic behind an anchor    *)
(* was optimised away, makes the anchor unknown to its slot, but not to    *)
(* the other one.  Slots and pairs run on any servers at any time;         *)
(* BackendFlow shows that they wait for each other.                        *)
(***************************************************************************)
EXTENDS Integers, Sequences

CONSTANTS
  Slots,        \* <<x, y>>, the lower left clock region (Slot.down_left_x, _y)
  AllSlotPairs, \* hub["AllSlotPairs"], a sequence of pairs of neighbours
  Wires,        \* names of the wires between slots, as in hub["PathPlanningWire"]
  Driver,       \* [Wires -> Slots], the slot that has the wire as an output
  Reader,       \* [Wires -> Slots], the slot that has it as an input
  Passing,      \* pairs of wires: a passing edge enters a slot by the first
                \* and leaves it by the second
  Namings       \* subset of [Wires -> SUBSET Wires]: how names may contain each other

Pairs == DOMAIN AllSlotPairs
SlotsOf(p) == {AllSlotPairs[p][1], AllSlotPairs[p][2]}
Ends(w) == {Driver[w], Reader[w]}

Styles == {"REG", "LUT", "WIRE", "DOUBLE_REG", "INVERT_CLOCK"}

(***************************************************************************)
(* isAbove, isBelow, isToTheLeftOf of neighbours                           *)
(***************************************************************************)
DirectionOf(s, t) ==
  IF t[2] # s[2] THEN IF t[2] > s[2] THEN "UP" ELSE "DOWN"
                 ELSE IF t[1] < s[1] THEN "LEFT" ELSE "RIGHT"

ASSUME DesignAssumption ==
  /\ Slots \subseteq Nat \X Nat
  /\ AllSlotPairs \in Seq(Slots \X Slots)
  /\ Driver \in [Wires -> Slots] /\ Reader \in [Wires -> Slots]
  /\ Namings \subseteq {n \in [Wires -> SUBSET Wires] : \A w \in Wires : w \in n[w]}

Neighbors(s) == {t \in Slots : \E p \in Pairs : SlotsOf(p) = {s, t}}

\* Each pair is listed once, each wire is between the slots of a pair, and no slot
\* has two neighbours in one direction: slots are the cells of a grid.
ASSUME GridAssumption ==
  /\ \A p \in Pairs : AllSlotPairs[p][1] # AllSlotPairs[p][2]
  /\ \A p, q \in Pairs : SlotsOf(p) = SlotsOf(q) => p = q
  /\ \A w \in Wires : \E p \in Pairs : Ends(w) = SlotsOf(p)
  /\ \A s \in Slots : \A t, u \in Neighbors(s) :
       DirectionOf(s, t) = DirectionOf(s, u) => t = u

ASSUME PassingAssumption ==
  Passing \subseteq {e \in Wires \X Wires : Reader[e[1]] = Driver[e[2]]}

\* hub["PathPlanningWire"][slot][dir]
PathPlanningWire(s, d) ==
  {w \in Wires : s \in Ends(w) /\ \E t \in Ends(w) \ {s} : DirectionOf(s, t) = d}

(***************************************************************************)
(* Timing paths inside a slot.  Both reports name cells by the pattern     *)
(* *q0_reg*; the cell at the other end of a path of a passing edge is the  *)
(* pipeline register of connectPassingWires, or, without one, the next     *)
(* anchor.                                                                 *)
(***************************************************************************)
Anchors(s) == {w \in Wires : s \in Ends(w)}

Passed(s) ==
  {w \in Wires : \E e \in Passing : \/ w = e[1] /\ Reader[w] = s
                                    \/ w = e[2] /\ Driver[w] = s}

\* Whether the other end of a path has _q0_reg in its name: wire_q0_reg, or another
\* anchor behind a LUT or a wire, but not wire_q0_double_pipeline_reg.
EndIsQ0Reg(style, s, w) == w \in Passed(s) /\ style \in {"REG", "LUT", "WIRE"}

-----------------------------------------------------------------------------
VARIABLES
  style,     \* hub["InSlotPipelineStyle"]
  endsIn,    \* for each wire, the wires whose names end its name, itself included
  parser,    \* [Slots -> {"wait", "done", "AssertionError"}]
  source,    \* [Slots -> SUBSET Wires], keys of <slot>_anchor_connections_source.json
  sinks,     \* [Slots -> SUBSET Wires], keys of <slot>_anchor_connections_sink.json
  pair,      \* [Pairs -> {"wait", "done", "AssertionError", "KeyError"}]
  script,    \* anchor_2_loc of each pair, what place_anchors.tcl and
             \* create_and_place_anchors_for_clock_routing.tcl do
  clock,     \* [Slots -> {"wait", "done", "error"}], SlotAnchorClockRouting
  opt        \* [Slots -> {"wait", "done", "error"}], OptSlotPlacement

vars == <<style, endsIn, parser, source, sinks, pair, script, clock, opt>>

Init ==
  /\ style \in Styles /\ endsIn \in Namings
  /\ parser = [s \in Slots |-> "wait"]
  /\ source = [s \in Slots |-> {}]
  /\ sinks  = [s \in Slots |-> {}]
  /\ pair   = [p \in Pairs |-> "wait"]
  /\ script = [p \in Pairs |-> <<>>]
  /\ clock  = [s \in Slots |-> "wait"]
  /\ opt    = [s \in Slots |-> "wait"]

\* Keys of <slot>_anchor_connections.json
Connected(s) == source[s] \cup sinks[s]

(***************************************************************************)
(* init_slot_placement: the timing reports of getAnchorTimingReportScript, *)
(* then TimingReportParser.  The pipeline registers of passing edges are   *)
(* dont_touch; any other path may be gone.                                 *)
(***************************************************************************)
Reported(s) == {seen \in SUBSET Anchors(s) : Passed(s) \subseteq seen}

FromAnchor(s, seen) == {w \in seen : Reader[w] = s}   \* anchors of inputs
ToAnchor(s, seen)   == {w \in seen : Driver[w] = s}   \* anchors of outputs

\* The parser asserts that getEndCellName finds an end without _q0_reg, and that no
\* anchor is in both reports.
ParserFails(s, seen) ==
  \/ \E w \in seen : EndIsQ0Reg(style, s, w)
  \/ FromAnchor(s, seen) \cap ToAnchor(s, seen) # {}

ParseReports(s) ==
  /\ parser[s] = "wait"
  /\ \E seen \in Reported(s) :
       IF ParserFails(s, seen)
         THEN /\ parser' = [parser EXCEPT ![s] = "AssertionError"]
              /\ UNCHANGED <<source, sinks>>
         ELSE /\ parser' = [parser EXCEPT ![s] = "done"]
              /\ source' = [source EXCEPT ![s] = ToAnchor(s, seen)]
              /\ sinks' = [sinks EXCEPT ![s] = FromAnchor(s, seen)]
  /\ UNCHANGED <<style, endsIn, pair, script, clock, opt>>

(***************************************************************************)
(* The anchors of a pair: those of the connections of either slot that     *)
(* contain <wire>_q0_reg for a wire of the boundary, so all whose names end *)
(* in the name of such a wire.                                             *)
(***************************************************************************)
\* Faulty variant: the direction is taken the other way round.
AnchorWireNamesReversed(p) ==
  LET s == AllSlotPairs[p][1]
  IN  PathPlanningWire(s, DirectionOf(AllSlotPairs[p][2], s))
AnchorWireNames(p) ==
  LET s == AllSlotPairs[p][1]
  IN  PathPlanningWire(s, DirectionOf(s, AllSlotPairs[p][2]))

Matches(a, p) == endsIn[a] \cap AnchorWireNames(p) # {}

\* Faulty variant: the anchors that both slots know.
SharedAnchorsOfBoth(p) ==
  {a \in Connected(AllSlotPairs[p][1]) \cap Connected(AllSlotPairs[p][2]) : Matches(a, p)}
\* Faulty variant: all wires of the boundary, known to a slot or not.
SharedAnchorsOfHub(p) == AnchorWireNames(p)
SharedAnchors(p) ==
  {a \in Connected(AllSlotPairs[p][1]) \cup Connected(AllSlotPairs[p][2]) : Matches(a, p)}

UpSlot(p) ==
  LET s == AllSlotPairs[p][1]
      t == AllSlotPairs[p][2]
  IN  IF s[2] > t[2] THEN s ELSE t

IsSLRCrossing(p) ==
  /\ AllSlotPairs[p][1][1] = AllSlotPairs[p][2][1]
  /\ UpSlot(p)[2] \in {4, 8, 12}

\* _get_anchor_2_sll_dir; LagunaPlacement shows that a receive register for this
\* direction lies in the slot's SLR it travels to.
SllDir(a, p) == IF Driver[a] = UpSlot(p) THEN "DOWN" ELSE "UP"

\* Each anchor has a direction in the hub.
Foreseen(p) == SharedAnchors(p) \subseteq PathPlanningWire(UpSlot(p), "DOWN")

\* A location: a SLICE or a Laguna register that only this pair hands out.
Location(a, p) == <<p, IF IsSLRCrossing(p) THEN SllDir(a, p) ELSE "SLICE">>

\* PairwiseAnchorPlacement --option RUN, when both flags are there
RunPair(p) ==
  LET s == AllSlotPairs[p][1]
      t == AllSlotPairs[p][2]
  IN  /\ pair[p] = "wait" /\ parser[s] = "done" /\ parser[t] = "done"
      /\ IF \E a \in Connected(s) \cap Connected(t) : ~Matches(a, p)
           THEN /\ pair' = [pair EXCEPT ![p] = "AssertionError"]
                /\ UNCHANGED script
         ELSE IF IsSLRCrossing(p) /\ ~Foreseen(p)
           THEN /\ pair' = [pair EXCEPT ![p] = "KeyError"]
                /\ UNCHANGED script
           ELSE /\ pair' = [pair EXCEPT ![p] = "done"]
                /\ script' = [script EXCEPT ![p] =
                                [a \in SharedAnchors(p) |-> Location(a, p)]]
  /\ UNCHANGED <<style, endsIn, parser, source, sinks, clock, opt>>

\* related_pairs of a slot
PairsOf(s) == {p \in Pairs : s \in SlotsOf(p)}

\* The scripts of all pairs create their anchors in one empty design; Vivado stops
\* at a cell that is already there.
RouteClock(s) ==
  /\ clock[s] = "wait"
  /\ \A p \in PairsOf(s) : pair[p] = "done"
  /\ clock' = [clock EXCEPT ![s] =
       IF \E p, q \in PairsOf(s) : p # q /\ DOMAIN script[p] \cap DOMAIN script[q] # {}
         THEN "error" ELSE "done"]
  /\ UNCHANGED <<style, endsIn, parser, source, sinks, pair, script, opt>>

\* The scripts of all pairs place anchors of the slot; Vivado stops at a cell that
\* is not there.
OptimizeSlot(s) ==
  /\ opt[s] = "wait"
  /\ \A p \in PairsOf(s) : pair[p] = "done"
  /\ opt' = [opt EXCEPT ![s] =
       IF \A p \in PairsOf(s) : DOMAIN script[p] \subseteq Anchors(s)
         THEN "done" ELSE "error"]
  /\ UNCHANGED <<style, endsIn, parser, source, sinks, pair, script, clock>>

Next ==
  \/ \E s \in Slots : ParseReports(s) \/ RouteClock(s) \/ OptimizeSlot(s)
  \/ \E p \in Pairs : RunPair(p)

Spec == Init /\ [][Next]_vars

-----------------------------------------------------------------------------
Locations == Pairs \X {"UP", "DOWN", "SLICE"}

TypeOK ==
  /\ style \in Styles /\ endsIn \in Namings
  /\ parser \in [Slots -> {"wait", "done", "AssertionError"}]
  /\ DOMAIN source = Slots /\ DOMAIN sinks = Slots
  /\ \A s \in Slots : /\ source[s] \subseteq {w \in Wires : Driver[w] = s}
                      /\ sinks[s] \subseteq {w \in Wires : Reader[w] = s}
  /\ pair \in [Pairs -> {"wait", "done", "AssertionError", "KeyError"}]
  /\ DOMAIN script = Pairs
  /\ \A p \in Pairs : DOMAIN script[p] \subseteq
       Connected(AllSlotPairs[p][1]) \cup Connected(AllSlotPairs[p][2])
  /\ \A p \in Pairs : \A a \in DOMAIN script[p] : script[p][a] \in Locations
  /\ clock \in [Slots -> {"wait", "done", "error"}]
  /\ opt \in [Slots -> {"wait", "done", "error"}]

\* Two different names of wires, one of which ends in the other, belong to the same
\* boundary or to boundaries that have no slot in common.  Nothing in the code
\* sees to this.
NamesApart ==
  \A w \in Wires : \A v \in endsIn[w] : Ends(v) = Ends(w) \/ Ends(v) \cap Ends(w) = {}

\* getEndCellName finds "the cell that connects to the anchor FF" in the path of every
\* anchor: main of TimingReportParser ends without an AssertionError in all slots.
ParserFindsEndCells == \A s \in Slots : parser[s] # "AssertionError"

\* The two ways in which collectAllConnectionsOfTargetAnchors finds the anchors of a
\* boundary, by name and as those both slots know, never contradict each other; with
\* names apart, all of them are in the hub, and each anchor around a slot is placed
\* by one of its pairs only.
NothingFails ==
  /\ \A p \in Pairs : pair[p] # "AssertionError"
  /\ NamesApart => /\ \A p \in Pairs : pair[p] # "KeyError"
                   /\ \A s \in Slots : clock[s] # "error" /\ opt[s] # "error"

(***************************************************************************)
(* An anchor that has a path in either slot is placed in the scripts that  *)
(* both of them source, alike for both, even if one of them knows nothing  *)
(* of it; across SLRs, in a register of the direction from Driver to       *)
(* Reader.                                                                 *)
(***************************************************************************)
PlacedAlike ==
  NamesApart =>
    \A w \in Wires : \A s \in Ends(w) :
      opt[s] = "done" /\ (w \in Connected(Driver[w]) \/ w \in Connected(Reader[w])) =>
        \E p \in PairsOf(Driver[w]) \cap PairsOf(Reader[w]) :
          /\ w \in DOMAIN script[p]
          /\ \A q \in PairsOf(Driver[w]) \cup PairsOf(Reader[w]) :
               w \in DOMAIN script[q] => q = p
          /\ script[p][w][2] = "UP" => Reader[w][2] > Driver[w][2]
          /\ script[p][w][2] = "DOWN" => Reader[w][2] < Driver[w][2]
=============================================================================
