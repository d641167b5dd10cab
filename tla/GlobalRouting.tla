--------------------------- MODULE GlobalRouting ---------------------------
(***************************************************************************)
(* Edges of the dataflow graph are routed through the grid of slots        *)
(* (ILPGlobalRouting, GlobalRouting), then the wires at the boundaries of  *)
(* each slot get their names (CreateRoutingSlotWrapper).  Every segment of *)
(* an edge has a name of its own, _pass_0, _pass_1 and so on: the wire     *)
(* between two slots must have one name in both of them.                   *)
(*                                                                         *)
(* Slots are 2x2 clock regions, numbered by column and row from the lower  *)
(* left.  An edge has three wires that are treated alike: one stands for   *)
(* them.  Which routing is cheapest depends on utilisations that are not   *)
(* modelled: any that meets the constraints may be chosen.                 *)
(***************************************************************************)
EXTENDS Integers, Sequences, Folds, Functions

CONSTANTS
  Cols, Rows,        \* size of the grid (4 and 8 on the U250)
  NumEdges,          \* edges between vertices of different slots
  Src, Dst,          \* their slots
  Width,             \* their numbers of wires
  DetourPathLimit,   \* how much longer than the shortest a path may be (4)
  VerticalCapacity, SlrCapacity, HorizontalCapacity   \* wires of a boundary

Slot  == (0 .. Cols - 1) \X (0 .. Rows - 1)
Edges == 1 .. NumEdges

ASSUME RoutingAssumption ==
  /\ Cols \in Nat /\ Rows \in Nat /\ NumEdges \in Nat /\ DetourPathLimit \in Nat
  /\ Src \in [Edges -> Slot] /\ Dst \in [Edges -> Slot]
  /\ \A e \in Edges : Src[e] # Dst[e]
  /\ Width \in [Edges -> Nat]
  /\ VerticalCapacity \in Nat /\ SlrCapacity \in Nat /\ HorizontalCapacity \in Nat

VARIABLES
  stage,        \* "search", "ilp", "wires", "done"; "loaded" in Channel
  queue,        \* queue of the breadth-first search of each edge
  candidates,   \* the paths it has found
  usageLimit,   \* routing_usage_limit, in percent
  path,         \* the selected path of each edge, both ends included
  wires,        \* names of the wires of each slot in each direction
  left          \* names that were not matched

routing == <<stage, queue, candidates, usageLimit, path, wires, left>>

-----------------------------------------------------------------------------
(* The routing graph.                                                      *)

X(s) == s[1]
Y(s) == s[2]
Gap(a, b) == IF a < b THEN b - a ELSE a - b

Adjacent(u, v) == Gap(X(u), X(v)) + Gap(Y(u), Y(v)) = 1

Neighbors(u) == {v \in Slot : Adjacent(u, v)}

(* An SLR is two rows of slots high.  Faults of a unit in the rounding of  *)
(* capacity * limit are left out.                                          *)
BoundaryCapacity(u, v) ==
  IF Y(u) = Y(v) THEN VerticalCapacity
  ELSE IF (IF Y(u) < Y(v) THEN Y(u) ELSE Y(v)) % 2 = 1 THEN SlrCapacity
  ELSE HorizontalCapacity

Capacity(u, v, limit) == (BoundaryCapacity(u, v) * limit) \div 100

-----------------------------------------------------------------------------
(* Candidate paths.                                                        *)

\* Faulty variant: a path may bend three times.
LooseBendCountLimit == 3

BendCountLimit == 2

IsBend(prev, curr, next) ==
  /\ ~(X(prev) = X(curr) /\ X(next) = X(curr))
  /\ ~(Y(prev) = Y(curr) /\ Y(next) = Y(curr))

Dest(p) == p.vertices[Len(p.vertices)]
Prev(p) == IF Len(p.vertices) = 1 THEN Dest(p) ELSE p.vertices[Len(p.vertices) - 1]

Extended(p, next) ==
  [vertices |-> Append(p.vertices, next),
   bends |-> IF IsBend(Prev(p), Dest(p), next) THEN p.bends + 1 ELSE p.bends]

ShortestDist(u, v) == Gap(X(u), X(v)) + Gap(Y(u), Y(v)) + 1

LengthLimit(e) == ShortestDist(Src[e], Dst[e]) + DetourPathLimit

\* Faulty variant: bends are counted and not limited.
ChildPathsAnyBends(e, p) ==
  IF Len(p.vertices) > LengthLimit(e) THEN {}
  ELSE {Extended(p, next) : next \in Neighbors(Dest(p)) \ {Prev(p)}}

\* Faulty variant: a path that is too long by one is extended once more.
ChildPathsTooLong(e, p) ==
  IF Len(p.vertices) > LengthLimit(e) + 1 THEN {}
  ELSE {q \in {Extended(p, next) : next \in Neighbors(Dest(p)) \ {Prev(p)}} :
          q.bends <= BendCountLimit}

ChildPaths(e, p) ==
  IF Len(p.vertices) > LengthLimit(e) THEN {}
  ELSE {q \in {Extended(p, next) : next \in Neighbors(Dest(p)) \ {Prev(p)}} :
          q.bends <= BendCountLimit}

InitPath(e) == [vertices |-> <<Src[e]>>, bends |-> 0]

-----------------------------------------------------------------------------
(* Names of wires.                                                         *)

Directions == {"UP", "DOWN", "LEFT", "RIGHT"}

Opposite(d) == CASE d = "UP" -> "DOWN" [] d = "DOWN" -> "UP"
                 [] d = "LEFT" -> "RIGHT" [] d = "RIGHT" -> "LEFT"

\* v lies in direction d of u.
Towards(u, v, d) == CASE d = "UP"    -> X(v) = X(u) /\ Y(v) > Y(u)
                      [] d = "DOWN"  -> X(v) = X(u) /\ Y(v) < Y(u)
                      [] d = "LEFT"  -> X(v) < X(u) /\ Y(v) = Y(u)
                      [] d = "RIGHT" -> X(v) > X(u) /\ Y(v) = Y(u)

Hops(e) == Len(path[e]) - 1

(* slot_to_dir_to_edges: edges that enter s from direction d, or leave it  *)
(* in direction d.                                                         *)
EdgesIn(s, d)  == {e \in Edges : \E k \in 1 .. Hops(e) :
                     path[e][k + 1] = s /\ Towards(s, path[e][k], d)}
EdgesOut(s, d) == {e \in Edges : \E k \in 1 .. Hops(e) :
                     path[e][k] = s /\ Towards(s, path[e][k + 1], d)}

\* Position in the list of passed slots, which starts at 0.
FirstIndex(e, s) == CHOOSE k \in 1 .. Hops(e) - 1 :
                      path[e][k + 1] = s /\ \A j \in 1 .. k - 1 : path[e][j + 1] # s

Passes(e, s) == \E k \in 1 .. Hops(e) - 1 : path[e][k + 1] = s

PassingPorts(s) ==
  UNION {{<<e, FirstIndex(e, s) - 1>>, <<e, FirstIndex(e, s)>>} : e \in {f \in Edges : Passes(f, s)}}

InterSlotPorts(s) == {<<e, Hops(e) - 1>> : e \in {f \in Edges : Dst[f] = s}}
                       \cup {<<e, 0>> : e \in {f \in Edges : Src[f] = s}}

Ports(s) == PassingPorts(s) \cup InterSlotPorts(s)

(* The order of the numbers i and j below 100 as strings of digits.        *)
NameLess(i, j) ==
  LET first(n) == IF n < 10 THEN n ELSE n \div 10
  IN first(i) < first(j) \/ (first(i) = first(j) /\ i < j)

(* The first port in a sorted list that belongs to edge e, if any; with    *)
(* names no one of which contains another's.                               *)
Matches(es, ports) == {p \in ports : p[1] \in es /\
                         \A q \in ports : q[1] = p[1] => q = p \/ NameLess(p[2], q[2])}

AllIn(s)  == UNION {EdgesIn(s, d) : d \in Directions}
AllOut(s) == UNION {EdgesOut(s, d) : d \in Directions}

\* Faulty variant: the OUT side goes first.
PortsInLast(s) == Matches(AllIn(s), Ports(s) \ Matches(AllOut(s), Ports(s)))

\* Names matched on the IN side, which goes first, and on the OUT side.
PortsIn(s)  == Matches(AllIn(s), Ports(s))
PortsOut(s) == Matches(AllOut(s), Ports(s) \ PortsIn(s))

Of(es, ports) == {p \in ports : p[1] \in es}

-----------------------------------------------------------------------------
Searching == CHOOSE e \in Edges : queue[e] # {} /\ \A f \in 1 .. e - 1 : queue[f] = {}

(* One level of the breadth-first search of one edge: paths that have      *)
(* reached the destination are found, the others are extended.             *)
Search ==
  /\ stage = "search"
  /\ \E e \in Edges : queue[e] # {}
  /\ LET e == Searching
         found == {p \in queue[e] : Dest(p) = Dst[e]}
     IN /\ candidates' = [candidates EXCEPT ![e] = @ \cup found]
        /\ queue' = [queue EXCEPT ![e] = UNION {ChildPaths(e, p) : p \in @ \ found}]
  /\ UNCHANGED <<stage, usageLimit, path, wires, left>>

SearchDone ==
  /\ stage = "search"
  /\ \A e \in Edges : queue[e] = {}
  /\ stage' = "ilp"
  /\ UNCHANGED <<queue, candidates, usageLimit, path, wires, left>>

Crosses(p, u, v) == \E k \in 1 .. Len(p) - 1 : {p[k], p[k + 1]} = {u, v}

WithinCapacity(choice) ==
  \A u \in Slot : \A v \in Neighbors(u) :
    FoldFunctionOnSet(+, 0, Width, {e \in Edges : Crosses(choice[e], u, v)})
      <= Capacity(u, v, usageLimit)

(* Assignments of one candidate to each edge, edge by edge.                *)
Selections ==
  {[e \in Edges |-> c[e].vertices] :
     c \in {f \in [Edges -> UNION {candidates[e] : e \in Edges}] : \A e \in Edges : f[e] \in candidates[e]}}

Solve ==
  /\ stage = "ilp"
  /\ \E choice \in Selections : WithinCapacity(choice) /\ path' = choice
  /\ stage' = "wires"
  /\ UNCHANGED <<queue, candidates, usageLimit, wires, left>>

StartQueues == [e \in Edges |-> {InitPath(e)}]
NoPaths  == [e \in Edges |-> {}]
NoRoutes == [e \in Edges |-> <<>>]
NoPorts  == [s \in Slot |-> {}]
NoWires  == [s \in Slot |-> [d \in Directions |-> [IN_ |-> {}, OUT_ |-> {}]]]

\* Faulty variant: the next attempt has the same limit.
NotRaised(limit) == limit

Raised(limit) == limit + 3

(* No solution: a new attempt, from the construction of the graph on.      *)
Retry ==
  /\ stage = "ilp"
  /\ ~ \E choice \in Selections : WithinCapacity(choice)
  /\ usageLimit' = Raised(usageLimit)
  /\ stage' = "search"
  /\ queue' = StartQueues
  /\ candidates' = NoPaths
  /\ UNCHANGED <<path, wires, left>>

NameWires ==
  /\ stage = "wires"
  /\ wires' = [s \in Slot |->
                 [d \in Directions |->
                    [IN_ |-> Of(EdgesIn(s, d), PortsIn(s)), OUT_ |-> Of(EdgesOut(s, d), PortsOut(s))]]]
  /\ left' = [s \in Slot |-> Ports(s) \ (PortsIn(s) \cup PortsOut(s))]
  /\ stage' = "done"
  /\ UNCHANGED <<queue, candidates, usageLimit, path>>

RoutingInit ==
  /\ stage = "search"
  /\ queue = StartQueues
  /\ candidates = NoPaths
  /\ usageLimit = 70
  /\ path = NoRoutes
  /\ wires = NoWires
  /\ left = NoPorts

RoutingStep == Search \/ SearchDone \/ Solve \/ Retry \/ NameWires

RoutingSpec == RoutingInit /\ [][RoutingStep]_routing

-----------------------------------------------------------------------------
(* Type invariant.                                                         *)
Path == [vertices : Seq(Slot), bends : 0 .. BendCountLimit]

RoutingTypeOK ==
  /\ stage \in {"search", "ilp", "wires", "done", "loaded"}
  /\ \A e \in Edges : queue[e] \subseteq Path /\ candidates[e] \subseteq Path
  /\ usageLimit \in Nat
  /\ path \in [Edges -> Seq(Slot)]

(* A path visits no slot twice, though the search forbids only to go       *)
(* straight back: the list of passed slots is searched for a slot to find  *)
(* the numbers of its two wires.                                           *)
NoSlotTwice ==
  \A e \in Edges : \A p \in queue[e] \cup candidates[e] :
    \A i, j \in 1 .. Len(p.vertices) : p.vertices[i] = p.vertices[j] => i = j

(* No path is longer than the detour limit allows, although the search     *)
(* stops extending a path only when it is longer than the limit.           *)
DetoursAreBounded ==
  \A e \in Edges : \A p \in candidates[e] : Len(p.vertices) <= LengthLimit(e)

(* As long as no path has more than eleven slots, ten segments, two        *)
(* neighbouring slots agree on the names of the wires between them: what   *)
(* leaves one in some direction enters the other from the opposite         *)
(* direction, and no name remains that belongs to no boundary.             *)
ShortPaths == \A e \in Edges : Len(path[e]) <= 11

SegmentsMeet ==
  ShortPaths /\ stage = "done" =>
    \A s \in Slot :
      /\ left[s] = {}
      /\ \A d \in Directions : \A t \in Neighbors(s) :
           Towards(s, t, d) => wires[s][d].OUT_ = wires[t][Opposite(d)].IN_

(* "The wire at the IN side always has a smaller index": of the two wires  *)
(* that an edge has in a slot it passes, the one with the smaller index is *)
(* where it enters, however long its path.                                 *)
InSideHasSmallerIndex ==
  stage = "done" =>
    \A s \in Slot : \A c, d \in Directions :
      \A in \in wires[s][c].IN_ : \A out \in wires[s][d].OUT_ :
        in[1] = out[1] => in[2] < out[2]
=============================================================================
