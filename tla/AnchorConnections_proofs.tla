---------------------- MODULE AnchorConnections_proofs ----------------------
(***************************************************************************)
(* Theorems about AnchorConnections, for any grid of slots, wires, passing *)
(* edges and names.                                                        *)
(***************************************************************************)
EXTENDS AnchorConnections, TLAPS

\* The two slots of a pair are slots of the grid, and each other's neighbours.
LEMMA PairSlots ==
  ASSUME NEW p \in Pairs
  PROVE  /\ AllSlotPairs[p][1] \in Slots /\ AllSlotPairs[p][2] \in Slots
         /\ AllSlotPairs[p][1] # AllSlotPairs[p][2]
         /\ AllSlotPairs[p][2] \in Neighbors(AllSlotPairs[p][1])
<1>1. AllSlotPairs[p] \in Slots \X Slots
  BY DesignAssumption DEF Pairs
<1>2. /\ AllSlotPairs[p][1] \in Slots /\ AllSlotPairs[p][2] \in Slots
  BY <1>1
<1> QED
  BY <1>2, GridAssumption DEF Neighbors, SlotsOf

\* The wires of the hub in the direction of a pair are those between its slots.
LEMMA NamesOfPair ==
  ASSUME NEW p \in Pairs
  PROVE  AnchorWireNames(p) = {w \in Wires : Ends(w) = SlotsOf(p)}
<1> DEFINE s == AllSlotPairs[p][1]
           t == AllSlotPairs[p][2]
<1>1. s \in Slots /\ t \in Slots /\ s # t /\ t \in Neighbors(s)
  BY PairSlots
<1>2. ASSUME NEW w \in Wires, Ends(w) = SlotsOf(p)
      PROVE  w \in AnchorWireNames(p)
  BY <1>1, <1>2 DEF AnchorWireNames, PathPlanningWire, SlotsOf
<1>3. ASSUME NEW w \in AnchorWireNames(p)
      PROVE  w \in Wires /\ Ends(w) = SlotsOf(p)
  <2>1. /\ w \in Wires
        /\ s \in Ends(w)
        /\ \E u \in Ends(w) \ {s} : DirectionOf(s, u) = DirectionOf(s, t)
    BY <1>3 DEF AnchorWireNames, PathPlanningWire
  <2>2. PICK u \in Ends(w) \ {s} : DirectionOf(s, u) = DirectionOf(s, t)
    BY <2>1
  <2>3. Ends(w) = {s, u}
    BY <2>1, <2>2 DEF Ends
  <2>4. u \in Slots
    BY <2>1, <2>2, DesignAssumption DEF Ends
  <2>5. PICK q \in Pairs : Ends(w) = SlotsOf(q)
    BY <2>1, GridAssumption
  <2>6. u \in Neighbors(s)
    BY <2>3, <2>4, <2>5 DEF Neighbors
  <2>7. u = t
    BY <1>1, <2>2, <2>6, GridAssumption
  <2> QED
    BY <2>1, <2>3, <2>7 DEF SlotsOf
<1> QED
  BY <1>2, <1>3 DEF AnchorWireNames, PathPlanningWire

\* A slot knows only anchors around it.
LEMMA ConnectedAround ==
  ASSUME TypeOK, NEW s \in Slots, NEW a \in Connected(s)
  PROVE  a \in Wires /\ s \in Ends(a)
  BY DEF TypeOK, Connected, Ends

\* With names apart, the anchors that match the names of a pair are those between
\* its slots.
LEMMA MatchesOwn ==
  ASSUME TypeOK, NamesApart, NEW p \in Pairs,
         NEW a \in Connected(AllSlotPairs[p][1]) \cup Connected(AllSlotPairs[p][2])
  PROVE  Matches(a, p) <=> Ends(a) = SlotsOf(p)
<1>1. a \in Wires /\ Ends(a) \cap SlotsOf(p) # {}
  BY ConnectedAround, PairSlots DEF SlotsOf
<1>2. a \in endsIn[a] /\ endsIn[a] \subseteq Wires
  BY <1>1, DesignAssumption DEF TypeOK
<1>3. ASSUME Ends(a) = SlotsOf(p) PROVE Matches(a, p)
  BY <1>1, <1>2, <1>3, NamesOfPair DEF Matches
<1>4. ASSUME Matches(a, p) PROVE Ends(a) = SlotsOf(p)
  <2>1. PICK v \in endsIn[a] : v \in Wires /\ Ends(v) = SlotsOf(p)
    BY <1>4, NamesOfPair DEF Matches
  <2> QED
    BY <1>1, <2>1 DEF NamesApart
<1> QED
  BY <1>3, <1>4

\* The anchors that both slots know are between them, and match by their own names.
LEMMA KnownToBoth ==
  ASSUME TypeOK, NEW p \in Pairs,
         NEW a \in Connected(AllSlotPairs[p][1]) \cap Connected(AllSlotPairs[p][2])
  PROVE  Matches(a, p)
<1>1. /\ a \in Wires
      /\ AllSlotPairs[p][1] \in Ends(a) /\ AllSlotPairs[p][2] \in Ends(a)
  BY ConnectedAround, PairSlots
<1>2. Ends(a) = SlotsOf(p)
  BY <1>1, PairSlots DEF Ends, SlotsOf
<1>3. a \in endsIn[a]
  BY <1>1, DesignAssumption DEF TypeOK
<1> QED
  BY <1>1, <1>2, <1>3, NamesOfPair DEF Matches

\* The upper slot of a pair across SLRs is the higher one of the two, and its other
\* slot lies in the direction DOWN.
LEMMA UpperSlot ==
  ASSUME NEW p \in Pairs, IsSLRCrossing(p)
  PROVE  /\ UpSlot(p) \in SlotsOf(p)
         /\ \A t \in SlotsOf(p) \ {UpSlot(p)} :
              t[2] < UpSlot(p)[2] /\ DirectionOf(UpSlot(p), t) = "DOWN"
<1> DEFINE s == AllSlotPairs[p][1]
           t == AllSlotPairs[p][2]
<1>1. s \in Nat \X Nat /\ t \in Nat \X Nat /\ s # t
  BY PairSlots, DesignAssumption
<1>2. s[1] \in Nat /\ s[2] \in Nat /\ t[1] \in Nat /\ t[2] \in Nat
  BY <1>1
<1>3. s[1] = t[1]
  BY DEF IsSLRCrossing
<1>4. s[2] # t[2]
  BY <1>1, <1>3
<1>5. CASE s[2] > t[2]
  <2>1. UpSlot(p) = s
    BY <1>5 DEF UpSlot
  <2>2. DirectionOf(s, t) = "DOWN"
    BY <1>2, <1>5 DEF DirectionOf
  <2> QED
    BY <1>2, <1>5, <2>1, <2>2 DEF SlotsOf
<1>6. CASE s[2] < t[2]
  <2>1. UpSlot(p) = t
    BY <1>2, <1>6 DEF UpSlot
  <2>2. DirectionOf(t, s) = "DOWN"
    BY <1>2, <1>6 DEF DirectionOf
  <2> QED
    BY <1>2, <1>6, <2>1, <2>2 DEF SlotsOf
<1> QED
  BY <1>2, <1>4, <1>5, <1>6

-----------------------------------------------------------------------------
(***************************************************************************)
(* The inductive invariant.  A script is what the connections of its two   *)
(* slots give, and these are final once the pair has run; a slot takes     *)
(* scripts only when all its pairs have run.                               *)
(***************************************************************************)
Collected ==
  /\ \A p \in Pairs :
       IF pair[p] = "done"
         THEN /\ \A s \in SlotsOf(p) : parser[s] = "done"
              /\ DOMAIN script[p] = SharedAnchors(p)
              /\ \A a \in DOMAIN script[p] : script[p][a] = Location(a, p)
         ELSE DOMAIN script[p] = {}
  /\ \A s \in Slots :
       clock[s] # "wait" \/ opt[s] # "wait" => \A p \in PairsOf(s) : pair[p] = "done"

IInv == TypeOK /\ Collected /\ NothingFails

LEMMA InitHolds == Init => IInv
<1> SUFFICES ASSUME Init PROVE IInv
  OBVIOUS
<1>1. TypeOK
  BY DEF Init, TypeOK
<1>2. Collected /\ NothingFails
  BY DEF Init, Collected, NothingFails
<1> QED
  BY <1>1, <1>2 DEF IInv

\* The reports of a slot that no pair has read yet.
LEMMA ParseReportsStep ==
  ASSUME IInv, NEW s \in Slots, ParseReports(s)
  PROVE  IInv'
<1> USE DEF IInv
<1>1. PICK seen \in Reported(s) :
        IF ParserFails(s, seen)
          THEN /\ parser' = [parser EXCEPT ![s] = "AssertionError"]
               /\ UNCHANGED <<source, sinks>>
          ELSE /\ parser' = [parser EXCEPT ![s] = "done"]
               /\ source' = [source EXCEPT ![s] = ToAnchor(s, seen)]
               /\ sinks' = [sinks EXCEPT ![s] = FromAnchor(s, seen)]
  BY DEF ParseReports
<1>2. /\ parser[s] = "wait"
      /\ UNCHANGED <<style, endsIn, pair, script, clock, opt>>
      /\ seen \subseteq Wires
  BY DEF ParseReports, Reported, Anchors
<1>3. FromAnchor(s, seen) \cap ToAnchor(s, seen) = {}
  <2> SUFFICES ASSUME NEW w \in seen, Reader[w] = s, Driver[w] = s
               PROVE FALSE
    BY DEF FromAnchor, ToAnchor
  <2>1. PICK p \in Pairs : Ends(w) = SlotsOf(p)
    BY <1>2, GridAssumption
  <2> QED
    BY <2>1, PairSlots DEF Ends, SlotsOf
<1>4. /\ parser' \in [Slots -> {"wait", "done", "AssertionError"}]
      /\ DOMAIN source' = Slots /\ DOMAIN sinks' = Slots
      /\ \A t \in Slots : /\ source'[t] \subseteq {w \in Wires : Driver[w] = t}
                          /\ sinks'[t] \subseteq {w \in Wires : Reader[w] = t}
      /\ \A t \in Slots \ {s} : /\ parser'[t] = parser[t] /\ source'[t] = source[t]
                                /\ sinks'[t] = sinks[t]
  BY <1>1, <1>2 DEF TypeOK, FromAnchor, ToAnchor
<1>5. \A t \in Slots \ {s} : Connected(t)' = Connected(t)
  BY <1>4 DEF Connected
<1>6. ASSUME NEW p \in Pairs, pair[p] = "done"
      PROVE  /\ \A t \in SlotsOf(p) : parser'[t] = "done"
             /\ SharedAnchors(p)' = SharedAnchors(p)
  <2>1. \A t \in SlotsOf(p) : parser[t] = "done" /\ t \in Slots \ {s}
    BY <1>2, <1>6, PairSlots DEF Collected, SlotsOf
  <2>2. \A t \in SlotsOf(p) : Connected(t)' = Connected(t) /\ parser'[t] = "done"
    BY <1>4, <1>5, <2>1
  <2>3. \A a : Matches(a, p)' <=> Matches(a, p)
    BY <1>2 DEF Matches
  <2> QED
    BY <2>2, <2>3 DEF SharedAnchors, SlotsOf
<1>7. Collected'
  BY <1>2, <1>6 DEF Collected
<1>8. TypeOK'
  <2>1. \A p \in Pairs : DOMAIN script[p] \subseteq
          Connected(AllSlotPairs[p][1])' \cup Connected(AllSlotPairs[p][2])'
    BY <1>2, <1>6 DEF Collected, SharedAnchors
  <2> QED
    BY <1>2, <1>4, <2>1 DEF TypeOK
<1>9. NothingFails'
  BY <1>2 DEF NothingFails, NamesApart
<1> QED
  BY <1>7, <1>8, <1>9

\* A pair whose slots are parsed finds its own anchors, all of them in the hub.
LEMMA RunPairStep ==
  ASSUME IInv, NEW p \in Pairs, RunPair(p)
  PROVE  IInv'
<1> USE DEF IInv
<1> DEFINE s == AllSlotPairs[p][1]
           t == AllSlotPairs[p][2]
<1>1. /\ pair[p] = "wait" /\ parser[s] = "done" /\ parser[t] = "done"
      /\ UNCHANGED <<style, endsIn, parser, source, sinks, clock, opt>>
  BY DEF RunPair
<1>2. \A q \in Pairs : /\ SharedAnchors(q)' = SharedAnchors(q)
                       /\ Connected(AllSlotPairs[q][1])' = Connected(AllSlotPairs[q][1])
                       /\ Connected(AllSlotPairs[q][2])' = Connected(AllSlotPairs[q][2])
  BY <1>1 DEF SharedAnchors, Connected, Matches
<1>3. /\ pair' \in [Pairs -> {"wait", "done", "AssertionError", "KeyError"}]
      /\ DOMAIN script' = Pairs
      /\ \A q \in Pairs \ {p} : pair'[q] = pair[q] /\ script'[q] = script[q]
      /\ IF pair'[p] = "done"
           THEN script'[p] = [a \in SharedAnchors(p) |-> Location(a, p)]
           ELSE script'[p] = script[p]
  BY DEF RunPair, TypeOK
<1>4. \A a \in SharedAnchors(p) : Location(a, p) \in Locations
  BY DEF Location, Locations, SllDir
<1>5. Collected'
  <2>1. \A r \in SlotsOf(p) : parser'[r] = "done"
    BY <1>1 DEF SlotsOf
  <2>2. \A q \in Pairs :
          IF pair'[q] = "done"
            THEN /\ \A r \in SlotsOf(q) : parser'[r] = "done"
                 /\ DOMAIN script'[q] = SharedAnchors(q)'
                 /\ \A a \in DOMAIN script'[q] : script'[q][a] = Location(a, q)
            ELSE DOMAIN script'[q] = {}
    BY <1>1, <1>2, <1>3, <2>1 DEF Collected
  <2>3. \A r \in Slots : clock[r] # "wait" \/ opt[r] # "wait" =>
          \A q \in PairsOf(r) : pair'[q] = "done"
    BY <1>1, <1>3 DEF Collected, PairsOf
  <2> QED
    BY <1>1, <2>2, <2>3 DEF Collected
<1>6. TypeOK'
  <2>1. \A q \in Pairs :
          /\ DOMAIN script'[q] \subseteq
               Connected(AllSlotPairs[q][1])' \cup Connected(AllSlotPairs[q][2])'
          /\ \A a \in DOMAIN script'[q] : script'[q][a] \in Locations
    BY <1>2, <1>3, <1>4 DEF TypeOK, SharedAnchors
  <2> QED
    BY <1>1, <1>3, <2>1 DEF TypeOK
<1>7. NothingFails'
  <2>1. pair'[p] # "AssertionError"
    BY KnownToBoth DEF RunPair, TypeOK
  <2> SUFFICES ASSUME NamesApart
               PROVE  pair'[p] # "KeyError"
    BY <1>1, <1>3, <2>1 DEF NothingFails, NamesApart
  <2>2. \A a \in SharedAnchors(p) : a \in Wires /\ Ends(a) = SlotsOf(p)
    BY ConnectedAround, MatchesOwn, PairSlots DEF SharedAnchors
  <2>3. ASSUME IsSLRCrossing(p) PROVE Foreseen(p)
    <3>1. UpSlot(p) \in SlotsOf(p)
      BY <2>3, UpperSlot
    <3>2. PICK u \in SlotsOf(p) \ {UpSlot(p)} : DirectionOf(UpSlot(p), u) = "DOWN"
      BY <2>3, UpperSlot, PairSlots DEF SlotsOf
    <3> QED
      BY <2>2, <3>1, <3>2 DEF Foreseen, PathPlanningWire
  <2> QED
    BY <2>3 DEF RunPair, TypeOK
<1> QED
  BY <1>5, <1>6, <1>7

\* What the script of a pair that has run holds, with names apart.
LEMMA ScriptHoldsOwn ==
  ASSUME IInv, NamesApart, NEW p \in Pairs, pair[p] = "done",
         NEW a \in DOMAIN script[p]
  PROVE  a \in Wires /\ Ends(a) = SlotsOf(p)
<1>1. /\ a \in Connected(AllSlotPairs[p][1]) \cup Connected(AllSlotPairs[p][2])
      /\ Matches(a, p)
  BY DEF IInv, Collected, SharedAnchors
<1> QED
  BY <1>1, ConnectedAround, MatchesOwn, PairSlots DEF IInv

\* No anchor is created twice.
LEMMA RouteClockStep ==
  ASSUME IInv, NEW s \in Slots, RouteClock(s)
  PROVE  IInv'
<1> USE DEF IInv
<1>1. /\ \A p \in PairsOf(s) : pair[p] = "done"
      /\ clock' \in [Slots -> {"wait", "done", "error"}]
      /\ \A t \in Slots \ {s} : clock'[t] = clock[t]
      /\ UNCHANGED <<style, endsIn, parser, source, sinks, pair, script, opt>>
  BY DEF RouteClock, TypeOK
<1>2. TypeOK'
  BY <1>1 DEF TypeOK, Connected
<1>3. Collected'
  BY <1>1 DEF Collected, SharedAnchors, Connected, Matches
<1>4. NothingFails'
  <2> SUFFICES ASSUME NamesApart
               PROVE  clock'[s] # "error"
    BY <1>1 DEF NothingFails, NamesApart
  <2>1. ASSUME NEW p \in PairsOf(s), NEW q \in PairsOf(s), p # q
        PROVE  DOMAIN script[p] \cap DOMAIN script[q] = {}
    <3>1. p \in Pairs /\ q \in Pairs /\ pair[p] = "done" /\ pair[q] = "done"
      BY <1>1 DEF PairsOf
    <3>2. \A a \in DOMAIN script[p] : Ends(a) = SlotsOf(p)
      BY <3>1, ScriptHoldsOwn
    <3>3. \A a \in DOMAIN script[q] : Ends(a) = SlotsOf(q)
      BY <3>1, ScriptHoldsOwn
    <3> QED
      BY <2>1, <3>1, <3>2, <3>3, GridAssumption
  <2> QED
    BY <2>1 DEF RouteClock, TypeOK
<1> QED
  BY <1>2, <1>3, <1>4

\* No anchor is placed in a slot that does not have it.
LEMMA OptimizeSlotStep ==
  ASSUME IInv, NEW s \in Slots, OptimizeSlot(s)
  PROVE  IInv'
<1> USE DEF IInv
<1>1. /\ \A p \in PairsOf(s) : pair[p] = "done"
      /\ opt' \in [Slots -> {"wait", "done", "error"}]
      /\ \A t \in Slots \ {s} : opt'[t] = opt[t]
      /\ UNCHANGED <<style, endsIn, parser, source, sinks, pair, script, clock>>
  BY DEF OptimizeSlot, TypeOK
<1>2. TypeOK'
  BY <1>1 DEF TypeOK, Connected
<1>3. Collected'
  BY <1>1 DEF Collected, SharedAnchors, Connected, Matches
<1>4. NothingFails'
  <2> SUFFICES ASSUME NamesApart
               PROVE  opt'[s] # "error"
    BY <1>1 DEF NothingFails, NamesApart
  <2>1. \A p \in PairsOf(s) : DOMAIN script[p] \subseteq Anchors(s)
    BY <1>1, ScriptHoldsOwn DEF PairsOf, Anchors
  <2> QED
    BY <2>1 DEF OptimizeSlot, TypeOK
<1> QED
  BY <1>2, <1>3, <1>4

LEMMA IInvHolds == Spec => []IInv
<1>1. Init => IInv
  BY InitHolds
<1>2. IInv /\ [Next]_vars => IInv'
  <2> SUFFICES ASSUME IInv, [Next]_vars PROVE IInv'
    OBVIOUS
  <2>1. CASE Next
    BY <2>1, ParseReportsStep, RunPairStep, RouteClockStep, OptimizeSlotStep DEF Next
  <2>2. CASE UNCHANGED vars
    BY <2>2 DEF vars, IInv, TypeOK, Collected, NothingFails,
                NamesApart, SharedAnchors, Connected, Matches
  <2> QED
    BY <2>1, <2>2
<1> QED
  BY <1>1, <1>2, PTL DEF Spec

(***************************************************************************)
(* Type correctness of reports, pairs and scripts.                         *)
(***************************************************************************)
THEOREM TypeCorrect == Spec => []TypeOK
  BY IInvHolds, PTL DEF IInv

(***************************************************************************)
(* With names apart, collecting the anchors of a pair fails for no pair,   *)
(* and no slot is given an anchor twice, or one it does not have.          *)
(***************************************************************************)
THEOREM CollectingNeverFails == Spec => []NothingFails
  BY IInvHolds, PTL DEF IInv

(***************************************************************************)
(* With names apart, both slots of a wire place its anchor alike if either *)
(* of them has a path to it, and across SLRs in the direction of the wire. *)
(***************************************************************************)
THEOREM AnchorsArePlacedAlike == Spec => []PlacedAlike
<1>1. IInv => PlacedAlike
  <2> SUFFICES ASSUME IInv, NamesApart, NEW w \in Wires, NEW s \in Ends(w),
                      opt[s] = "done",
                      w \in Connected(Driver[w]) \/ w \in Connected(Reader[w])
               PROVE  \E p \in PairsOf(Driver[w]) \cap PairsOf(Reader[w]) :
                        /\ w \in DOMAIN script[p]
                        /\ \A q \in PairsOf(Driver[w]) \cup PairsOf(Reader[w]) :
                             w \in DOMAIN script[q] => q = p
                        /\ script[p][w][2] = "UP" => Reader[w][2] > Driver[w][2]
                        /\ script[p][w][2] = "DOWN" => Reader[w][2] < Driver[w][2]
    BY DEF PlacedAlike
  <2>1. PICK p \in Pairs : Ends(w) = SlotsOf(p)
    BY GridAssumption
  <2>2. /\ p \in PairsOf(Driver[w]) \cap PairsOf(Reader[w])
        /\ p \in PairsOf(s) /\ s \in Slots
    BY <2>1, PairSlots DEF PairsOf, Ends, SlotsOf
  <2>3. pair[p] = "done"
    BY <2>2 DEF IInv, Collected
  <2>4. w \in Connected(AllSlotPairs[p][1]) \cup Connected(AllSlotPairs[p][2])
    BY <2>1 DEF Ends, SlotsOf
  <2>5. w \in DOMAIN script[p] /\ script[p][w] = Location(w, p)
    BY <2>1, <2>3, <2>4, MatchesOwn DEF IInv, Collected, SharedAnchors
  <2>6. ASSUME NEW q \in PairsOf(Driver[w]) \cup PairsOf(Reader[w]),
               w \in DOMAIN script[q]
        PROVE  q = p
    <3>1. q \in Pairs /\ pair[q] = "done"
      BY <2>6 DEF IInv, Collected, PairsOf
    <3> QED
      BY <2>1, <2>6, <3>1, ScriptHoldsOwn, GridAssumption
  <2>7. ASSUME IsSLRCrossing(p)
        PROVE  IF SllDir(w, p) = "UP" THEN Reader[w][2] > Driver[w][2]
                                      ELSE Reader[w][2] < Driver[w][2]
    <3>1. Driver[w] # Reader[w] /\ Driver[w] \in SlotsOf(p) /\ Reader[w] \in SlotsOf(p)
      BY <2>1, PairSlots DEF Ends, SlotsOf
    <3>2. /\ UpSlot(p) \in {Driver[w], Reader[w]}
          /\ \A t \in SlotsOf(p) \ {UpSlot(p)} : t[2] < UpSlot(p)[2]
      BY <2>1, <2>7, UpperSlot DEF Ends
    <3>3. Driver[w] \in Nat \X Nat /\ Reader[w] \in Nat \X Nat
      BY DesignAssumption
    <3> QED
      BY <3>1, <3>2, <3>3 DEF SllDir
  <2>8. /\ script[p][w][2] = "UP" => Reader[w][2] > Driver[w][2]
        /\ script[p][w][2] = "DOWN" => Reader[w][2] < Driver[w][2]
    BY <2>5, <2>7 DEF Location
  <2> QED
    BY <2>2, <2>5, <2>6, <2>8
<1> QED
  BY <1>1, IInvHolds, PTL
=============================================================================
