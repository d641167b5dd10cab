----------------------- MODULE GlobalRouting_proofs -----------------------
(***************************************************************************)
(* Paths that bend at most twice and never turn straight back visit no     *)
(* slot twice, on any grid and for any limit on detours; all paths that    *)
(* are found keep to an even limit; and neighbouring slots give the wires  *)
(* between them the same names as long as no path has more than 11 slots.  *)
(***************************************************************************)
EXTENDS GlobalRouting, TLAPS

(***************************************************************************)
(* Geometry: how far a slot lies in direction d.                           *)
(***************************************************************************)
Along(s, d) == CASE d = "UP" -> Y(s) [] d = "DOWN" -> -Y(s)
                 [] d = "LEFT" -> -X(s) [] d = "RIGHT" -> X(s)

Across(d, d2) == (d \in {"UP", "DOWN"}) # (d2 \in {"UP", "DOWN"})

\* The step from u to w goes in direction d.
Goes(u, w, d) == /\ Along(w, d) = Along(u, d) + 1
                 /\ \A d2 \in Directions : Across(d, d2) => Along(w, d2) = Along(u, d2)

LEMMA SlotCoordinates ==
  ASSUME NEW s \in Slot
  PROVE  X(s) \in Int /\ Y(s) \in Int /\ \A d \in Directions : Along(s, d) \in Int
<1>1. X(s) \in Int /\ Y(s) \in Int
  BY RoutingAssumption DEF Slot, X, Y
<1> QED
  BY <1>1 DEF Along, Directions

LEMMA FirstStep ==
  ASSUME NEW u \in Slot, NEW w \in Slot, Adjacent(u, w)
  PROVE  /\ \E d \in Directions : Goes(u, w, d)
         /\ ~IsBend(u, u, w)
<1>1. X(u) \in Int /\ Y(u) \in Int /\ X(w) \in Int /\ Y(w) \in Int
  BY SlotCoordinates
<1>2. \/ Y(w) = Y(u) + 1 /\ X(w) = X(u)
      \/ Y(u) = Y(w) + 1 /\ X(w) = X(u)
      \/ X(u) = X(w) + 1 /\ Y(w) = Y(u)
      \/ X(w) = X(u) + 1 /\ Y(w) = Y(u)
  BY <1>1 DEF Adjacent, Gap
<1>3. \/ Goes(u, w, "UP") \/ Goes(u, w, "DOWN") \/ Goes(u, w, "LEFT") \/ Goes(u, w, "RIGHT")
  BY <1>1, <1>2 DEF Goes, Along, Across, Directions
<1> QED
  BY <1>2, <1>3 DEF IsBend, Directions

LEMMA SlotsDiffer ==
  ASSUME NEW u \in Slot, NEW w \in Slot, X(u) = X(w), Y(u) = Y(w)
  PROVE  u = w
  BY RoutingAssumption DEF Slot, X, Y

LEMMA NextStep ==
  ASSUME NEW prev \in Slot, NEW curr \in Slot, NEW next \in Slot, NEW d \in Directions,
         Goes(prev, curr, d), Adjacent(curr, next), next # prev
  PROVE  \E d2 \in Directions :
           /\ Goes(curr, next, d2)
           /\ IF IsBend(prev, curr, next) THEN Across(d, d2) /\ Across(d2, d) ELSE d2 = d
<1>1. /\ X(prev) \in Int /\ Y(prev) \in Int /\ X(curr) \in Int /\ Y(curr) \in Int
      /\ X(next) \in Int /\ Y(next) \in Int
  BY SlotCoordinates
<1>2. \/ d = "UP" /\ Y(curr) = Y(prev) + 1 /\ X(curr) = X(prev)
      \/ d = "DOWN" /\ Y(prev) = Y(curr) + 1 /\ X(curr) = X(prev)
      \/ d = "LEFT" /\ X(prev) = X(curr) + 1 /\ Y(curr) = Y(prev)
      \/ d = "RIGHT" /\ X(curr) = X(prev) + 1 /\ Y(curr) = Y(prev)
  <2>1. CASE d = "UP"
    BY <1>1, <2>1 DEF Goes, Along, Across, Directions
  <2>2. CASE d = "DOWN"
    BY <1>1, <2>2 DEF Goes, Along, Across, Directions
  <2>3. CASE d = "LEFT"
    BY <1>1, <2>3 DEF Goes, Along, Across, Directions
  <2>4. CASE d = "RIGHT"
    BY <1>1, <2>4 DEF Goes, Along, Across, Directions
  <2> QED
    BY <2>1, <2>2, <2>3, <2>4 DEF Directions
<1>3. PICK d2 \in Directions : Goes(curr, next, d2)
  BY FirstStep
<1>4. \/ d2 = "UP" /\ Y(next) = Y(curr) + 1 /\ X(next) = X(curr)
      \/ d2 = "DOWN" /\ Y(curr) = Y(next) + 1 /\ X(next) = X(curr)
      \/ d2 = "LEFT" /\ X(curr) = X(next) + 1 /\ Y(next) = Y(curr)
      \/ d2 = "RIGHT" /\ X(next) = X(curr) + 1 /\ Y(next) = Y(curr)
  <2>1. CASE d2 = "UP"
    BY <1>1, <1>3, <2>1 DEF Goes, Along, Across, Directions
  <2>2. CASE d2 = "DOWN"
    BY <1>1, <1>3, <2>2 DEF Goes, Along, Across, Directions
  <2>3. CASE d2 = "LEFT"
    BY <1>1, <1>3, <2>3 DEF Goes, Along, Across, Directions
  <2>4. CASE d2 = "RIGHT"
    BY <1>1, <1>3, <2>4 DEF Goes, Along, Across, Directions
  <2> QED
    BY <2>1, <2>2, <2>3, <2>4 DEF Directions
<1>5. ~(X(next) = X(prev) /\ Y(next) = Y(prev))
  BY SlotsDiffer
<1>6. IF IsBend(prev, curr, next) THEN Across(d, d2) /\ Across(d2, d) ELSE d2 = d
  BY <1>1, <1>2, <1>4, <1>5 DEF IsBend, Across
<1> QED
  BY <1>3, <1>6

-----------------------------------------------------------------------------
(* Paths.                                                                  *)

(***************************************************************************)
(* Where the slots of path v lie that are not its last one, when it bends  *)
(* b times and its last step goes in direction d.  After the second bend   *)
(* they are behind the last leg, or behind it in direction d1 of the leg   *)
(* before.                                                                 *)
(***************************************************************************)
Behind(v, b, d) ==
  /\ b = 0 => \A i \in 1 .. Len(v) - 1 :
                /\ Along(v[i], d) < Along(v[Len(v)], d)
                /\ \A d2 \in Directions : Across(d, d2) => Along(v[i], d2) = Along(v[Len(v)], d2)
  /\ b = 1 => \A i \in 1 .. Len(v) - 1 : Along(v[i], d) < Along(v[Len(v)], d)
  /\ b = 2 => \E d1 \in Directions :
                /\ Across(d, d1)
                /\ \A i \in 1 .. Len(v) - 1 :
                     \/ Along(v[i], d1) < Along(v[Len(v)], d1)
                     \/ /\ Along(v[i], d1) = Along(v[Len(v)], d1)
                        /\ Along(v[i], d) < Along(v[Len(v)], d)

LEMMA BehindMeansElsewhere ==
  ASSUME NEW v \in Seq(Slot), NEW b \in 0 .. 2, NEW d \in Directions, Len(v) > 0, Behind(v, b, d),
         NEW i \in 1 .. Len(v) - 1
  PROVE  v[i] # v[Len(v)]
<1>1. v[i] \in Slot /\ v[Len(v)] \in Slot
  OBVIOUS
<1>2. \A d2 \in Directions : Along(v[i], d2) \in Int /\ Along(v[Len(v)], d2) \in Int
  BY <1>1, SlotCoordinates
<1>3. CASE b \in {0, 1}
  BY <1>2, <1>3 DEF Behind
<1>4. CASE b = 2
  BY <1>2, <1>4 DEF Behind
<1> QED
  BY <1>3, <1>4

LEMMA StillBehind ==
  ASSUME NEW v \in Seq(Slot), Len(v) > 1, NEW b \in 0 .. 2, NEW d \in Directions,
         Behind(v, b, d),
         NEW next \in Slot, NEW d2 \in Directions, Goes(v[Len(v)], next, d2),
         NEW b2 \in 0 .. 2, NEW bend \in BOOLEAN,
         b2 = IF bend THEN b + 1 ELSE b,
         IF bend THEN Across(d, d2) /\ Across(d2, d) ELSE d2 = d
  PROVE  Behind(Append(v, next), b2, d2)
<1> DEFINE n == Len(v)
           w == Append(v, next)
<1>1. /\ n \in Nat /\ n > 1 /\ Len(w) = n + 1 /\ w[n + 1] = next
      /\ \A i \in 1 .. n : w[i] = v[i] /\ v[i] \in Slot
  OBVIOUS
<1>2. /\ \A i \in 1 .. n : \A x \in Directions : Along(w[i], x) \in Int
      /\ \A x \in Directions : Along(next, x) \in Int
  BY <1>1, SlotCoordinates
<1>3. /\ Along(next, d2) = Along(w[n], d2) + 1
      /\ \A x \in Directions : Across(d2, x) => Along(next, x) = Along(w[n], x)
  BY <1>1 DEF Goes
<1>4. Behind(v, b, d) /\ \A i \in 1 .. n : v[i] = w[i]
  BY <1>1
<1>5. n \in 1 .. n /\ \A i \in 1 .. n : i = n \/ i \in 1 .. n - 1
  BY <1>1
<1> HIDE DEF n, w
<1>6. CASE b2 = 0
  <2>1. b = 0 /\ d2 = d
    BY <1>6
  <2>2. ASSUME NEW i \in 1 .. n - 1
        PROVE  /\ Along(w[i], d) < Along(w[n], d)
               /\ \A x \in Directions : Across(d, x) => Along(w[i], x) = Along(w[n], x)
    BY <1>4, <1>5, <2>1, <1>1 DEF Behind, n
  <2>3. ASSUME NEW i \in 1 .. n
        PROVE  /\ Along(w[i], d2) < Along(next, d2)
               /\ \A x \in Directions : Across(d2, x) => Along(w[i], x) = Along(next, x)
    <3>1. CASE i = n
      BY <1>2, <1>3, <3>1
    <3>2. CASE i \in 1 .. n - 1
      BY <1>2, <1>3, <1>5, <2>1, <2>2, <3>2
    <3> QED
      BY <1>5, <3>1, <3>2
  <2> QED
    BY <1>1, <1>6, <2>3 DEF Behind, w
<1>7. CASE b2 = 1
  <2>1. ASSUME NEW i \in 1 .. n
        PROVE  Along(w[i], d2) < Along(next, d2)
    <3>1. CASE i = n
      BY <1>2, <1>3, <3>1
    <3>2. CASE i \in 1 .. n - 1 /\ bend
      <4>1. b = 0 /\ Across(d, d2)
        BY <1>7, <3>2
      <4>2. Along(w[i], d2) = Along(w[n], d2)
        BY <1>4, <1>5, <3>2, <4>1, <1>1 DEF Behind, n
      <4> QED
        BY <1>2, <1>3, <1>5, <4>2
    <3>3. CASE i \in 1 .. n - 1 /\ ~bend
      <4>1. b = 1 /\ d2 = d
        BY <1>7, <3>3
      <4>2. Along(w[i], d2) < Along(w[n], d2)
        BY <1>4, <1>5, <3>3, <4>1, <1>1 DEF Behind, n
      <4> QED
        BY <1>2, <1>3, <1>5, <4>2
    <3> QED
      BY <1>5, <3>1, <3>2, <3>3
  <2> QED
    BY <1>1, <1>7, <2>1 DEF Behind, w
<1>8. CASE b2 = 2
  <2>1. PICK d1 \in Directions :
          /\ Across(d2, d1)
          /\ \A i \in 1 .. n - 1 :
               \/ Along(w[i], d1) < Along(w[n], d1)
               \/ /\ Along(w[i], d1) = Along(w[n], d1)
                  /\ Along(w[i], d2) < Along(w[n], d2)
    <3>1. CASE bend
      <4>1. b = 1 /\ Across(d2, d)
        BY <1>8, <3>1
      <4>2. \A i \in 1 .. n - 1 : Along(w[i], d) < Along(w[n], d)
        BY <1>4, <1>5, <4>1, <1>1 DEF Behind, n
      <4> QED
        BY <4>1, <4>2
    <3>2. CASE ~bend
      <4>1. b = 2 /\ d2 = d
        BY <1>8, <3>2
      <4>2. PICK d1 \in Directions :
              /\ Across(d, d1)
              /\ \A i \in 1 .. n - 1 :
                   \/ Along(v[i], d1) < Along(v[n], d1)
                   \/ /\ Along(v[i], d1) = Along(v[n], d1)
                      /\ Along(v[i], d) < Along(v[n], d)
        BY <1>4, <4>1 DEF Behind, n
      <4>3. \A i \in 1 .. n - 1 : v[i] = w[i] /\ v[n] = w[n]
        BY <1>4, <1>5, <1>1
      <4> QED
        BY <4>1, <4>2, <4>3
    <3> QED
      BY <3>1, <3>2
  <2>2. ASSUME NEW i \in 1 .. n
        PROVE  \/ Along(w[i], d1) < Along(next, d1)
               \/ /\ Along(w[i], d1) = Along(next, d1)
                  /\ Along(w[i], d2) < Along(next, d2)
    <3>0. Along(next, d1) = Along(w[n], d1)
      BY <1>3, <2>1
    <3>1. CASE i = n
      BY <1>2, <1>3, <3>0, <3>1
    <3>2. CASE i \in 1 .. n - 1
      BY <1>2, <1>3, <1>5, <2>1, <3>0, <3>2
    <3> QED
      BY <1>5, <3>1, <3>2
  <2> QED
    BY <1>1, <1>8, <2>1, <2>2 DEF Behind, w
<1> QED
  BY <1>6, <1>7, <1>8

(***************************************************************************)
(* Paths of the search of edge e: no slot twice, and what is needed to see *)
(* that no slot will be visited twice; at most one slot too long, and of   *)
(* the length that a walk between these ends can have.                     *)
(***************************************************************************)
Unvisited(v, b) ==
  /\ \A i, j \in 1 .. Len(v) : v[i] = v[j] => i = j
  /\ Len(v) = 1 => b = 0
  /\ Len(v) > 1 => \E d \in Directions : Goes(v[Len(v) - 1], v[Len(v)], d) /\ Behind(v, b, d)

LengthFits(e, p) ==
  /\ Len(p.vertices) <= LengthLimit(e) + 1
  /\ \E m \in Int : Len(p.vertices) + X(Dest(p)) + Y(Dest(p)) = X(Src[e]) + Y(Src[e]) + 1 + 2 * m

\* Each slot of path v is a neighbour of the one before.
Stepwise(v) == \A i \in 1 .. Len(v) - 1 : Adjacent(v[i], v[i + 1])

Walk(e, p) ==
  /\ p \in Path
  /\ Len(p.vertices) > 0 /\ p.vertices[1] = Src[e]
  /\ Stepwise(p.vertices)
  /\ Unvisited(p.vertices, p.bends)
  /\ LengthFits(e, p)

LEMMA DistancesAreNat ==
  ASSUME NEW e \in Edges
  PROVE  /\ Src[e] \in Slot /\ Dst[e] \in Slot
         /\ ShortestDist(Src[e], Dst[e]) \in Nat
         /\ LengthLimit(e) \in Nat
<1>1. Src[e] \in Slot /\ Dst[e] \in Slot
  BY RoutingAssumption
<1> QED
  BY <1>1, SlotCoordinates, RoutingAssumption DEF ShortestDist, LengthLimit, Gap

LEMMA WalkStarts == ASSUME NEW e \in Edges PROVE Walk(e, InitPath(e))
<1> DEFINE p == InitPath(e)
<1>1. /\ p \in Path /\ p.vertices = <<Src[e]>> /\ p.bends = 0
      /\ Len(p.vertices) = 1 /\ p.vertices[1] = Src[e]
  BY DistancesAreNat DEF InitPath, Path, BendCountLimit
<1>2. Unvisited(p.vertices, p.bends)
  BY <1>1 DEF Unvisited
<1>3. LengthFits(e, p)
  <2>1. X(Src[e]) \in Int /\ Y(Src[e]) \in Int /\ LengthLimit(e) \in Nat
    BY DistancesAreNat, SlotCoordinates
  <2>2. Dest(p) = Src[e]
    BY <1>1 DEF Dest
  <2>3. \E m \in Int : 1 + X(Src[e]) + Y(Src[e]) = X(Src[e]) + Y(Src[e]) + 1 + 2 * m
    <3>1. 1 + X(Src[e]) + Y(Src[e]) = X(Src[e]) + Y(Src[e]) + 1 + 2 * 0 /\ 0 \in Int
      BY <2>1
    <3> QED
      BY <3>1
  <2>4. Len(p.vertices) <= LengthLimit(e) + 1
    BY <1>1, <2>1
  <2> HIDE DEF p
  <2> QED
    BY <1>1, <2>2, <2>3, <2>4 DEF LengthFits
<1>4. Stepwise(p.vertices)
  BY <1>1 DEF Stepwise
<1> QED
  BY <1>1, <1>2, <1>3, <1>4 DEF Walk

LEMMA WalkGoesOn ==
  ASSUME NEW e \in Edges, NEW p, Walk(e, p), NEW q \in ChildPaths(e, p)
  PROVE  Walk(e, q)
<1> DEFINE v == p.vertices
           n == Len(v)
           prev == Prev(p)
           curr == Dest(p)
<1>1. /\ v \in Seq(Slot) /\ p.bends \in 0 .. 2 /\ n \in Nat /\ n > 0
      /\ v[1] = Src[e] /\ curr = v[n] /\ curr \in Slot
      /\ Unvisited(v, p.bends) /\ LengthFits(e, p) /\ Stepwise(v)
  BY DEF Walk, Path, BendCountLimit, Dest
<1>2. /\ n <= LengthLimit(e)
      /\ q.bends <= BendCountLimit
      /\ \E next \in Neighbors(curr) \ {prev} : q = Extended(p, next)
  <2>1. ~(Len(p.vertices) > LengthLimit(e))
    BY Zenon DEF ChildPaths
  <2>2. q \in {x \in {Extended(p, next) : next \in Neighbors(Dest(p)) \ {Prev(p)}} :
               x.bends <= BendCountLimit}
    BY <2>1, Zenon DEF ChildPaths
  <2>3. Len(p.vertices) \in Int /\ LengthLimit(e) \in Int
    BY <1>1, DistancesAreNat
  <2> QED
    BY <2>1, <2>2, <2>3
<1>3. PICK next \in Slot : Adjacent(curr, next) /\ next # prev /\ q = Extended(p, next)
  BY <1>2 DEF Neighbors
<1>4. /\ q.vertices = Append(v, next)
      /\ q.bends = IF IsBend(prev, curr, next) THEN p.bends + 1 ELSE p.bends
      /\ q = [vertices |-> q.vertices, bends |-> q.bends]
  BY <1>3 DEF Extended
<1>5. /\ q.vertices \in Seq(Slot) /\ Len(q.vertices) = n + 1 /\ q.vertices[n + 1] = next
      /\ \A i \in 1 .. n : q.vertices[i] = v[i]
  BY <1>1, <1>4
<1>6. q.bends \in 0 .. 2
  BY <1>1, <1>2, <1>4 DEF BendCountLimit
<1>7. q \in Path
  BY <1>4, <1>5, <1>6 DEF Path, BendCountLimit
<1> HIDE DEF v, n, prev, curr
<1>8. \E d \in Directions : Goes(curr, next, d) /\ Behind(q.vertices, q.bends, d)
  <2>1. CASE n = 1
    <3>1. prev = curr /\ p.bends = 0
      BY <1>1, <2>1 DEF Prev, prev, curr, n, v, Unvisited
    <3>2. PICK d \in Directions : Goes(curr, next, d)
      BY <1>1, <1>3, FirstStep
    <3>3. q.bends = 0
      BY <1>1, <1>3, <1>4, <3>1, FirstStep
    <3>4. /\ Along(next, d) \in Int /\ Along(curr, d) \in Int /\ Along(next, d) = Along(curr, d) + 1
          /\ \A d2 \in Directions : Across(d, d2) => Along(curr, d2) = Along(next, d2)
      BY <1>1, <3>2, SlotCoordinates DEF Goes
    <3>5. Behind(q.vertices, 0, d)
      <4>1. Len(q.vertices) = 2 /\ q.vertices[2] = next /\ q.vertices[1] = curr
        BY <1>1, <1>5, <2>1
      <4>2. \A i \in 1 .. Len(q.vertices) - 1 : i = 1
        BY <4>1
      <4> QED
        BY <3>4, <4>1, <4>2 DEF Behind
    <3> QED
      BY <3>2, <3>3, <3>5
  <2>2. CASE n > 1
    <3>1. prev = v[n - 1] /\ prev \in Slot
      BY <1>1, <2>2 DEF Prev, prev, n, v
    <3>2. PICK d \in Directions : Goes(prev, curr, d) /\ Behind(v, p.bends, d)
      BY <1>1, <2>2, <3>1 DEF Unvisited, n
    <3>3. PICK d2 \in Directions :
            /\ Goes(curr, next, d2)
            /\ IF IsBend(prev, curr, next) THEN Across(d, d2) /\ Across(d2, d) ELSE d2 = d
      BY <1>1, <1>3, <3>1, <3>2, NextStep
    <3>4. IsBend(prev, curr, next) \in BOOLEAN
      BY DEF IsBend
    <3>5. Behind(Append(v, next), q.bends, d2)
      BY <1>1, <1>4, <1>6, <2>2, <3>2, <3>3, <3>4, StillBehind DEF n
    <3> QED
      BY <1>4, <3>3, <3>5
  <2> QED
    BY <1>1, <2>1, <2>2
<1>9. Unvisited(q.vertices, q.bends)
  <2>1. PICK d \in Directions : Goes(curr, next, d) /\ Behind(q.vertices, q.bends, d)
    BY <1>8
  <2>2. ASSUME NEW i \in 1 .. n PROVE q.vertices[i] # q.vertices[n + 1]
    BY <1>1, <1>5, <1>6, <2>1, BehindMeansElsewhere
  <2>3. \A i, j \in 1 .. n : v[i] = v[j] => i = j
    BY <1>1 DEF Unvisited, n
  <2>4. ASSUME NEW i \in 1 .. n + 1, NEW j \in 1 .. n + 1, q.vertices[i] = q.vertices[j]
        PROVE  i = j
    <3>1. (i = n + 1 \/ i \in 1 .. n) /\ (j = n + 1 \/ j \in 1 .. n)
      BY <1>1
    <3> QED
      BY <1>5, <2>2, <2>3, <2>4, <3>1
  <2>5. q.vertices[Len(q.vertices) - 1] = curr /\ q.vertices[Len(q.vertices)] = next
    BY <1>1, <1>5
  <2> QED
    BY <1>1, <1>5, <2>1, <2>4, <2>5 DEF Unvisited
<1>10. LengthFits(e, q)
  <2>1. PICK m \in Int : n + X(curr) + Y(curr) = X(Src[e]) + Y(Src[e]) + 1 + 2 * m
    BY <1>1 DEF LengthFits, n, v, curr
  <2>2. /\ X(curr) \in Int /\ Y(curr) \in Int /\ X(next) \in Int /\ Y(next) \in Int
        /\ X(Src[e]) \in Int /\ Y(Src[e]) \in Int /\ LengthLimit(e) \in Nat
    BY <1>1, SlotCoordinates, DistancesAreNat
  <2>3. \/ X(next) + Y(next) = X(curr) + Y(curr) + 1
        \/ X(next) + Y(next) = X(curr) + Y(curr) - 1
    BY <1>3, <2>2 DEF Adjacent, Gap
  <2>4. Dest(q) = next
    BY <1>5 DEF Dest
  <2>5. \E k \in Int : n + 1 + X(next) + Y(next) = X(Src[e]) + Y(Src[e]) + 1 + 2 * k
    <3> DEFINE x == X(curr)  y == Y(curr)  x2 == X(next)  y2 == Y(next)
               a == X(Src[e])  b == Y(Src[e])
    <3>1. /\ n \in Int /\ x \in Int /\ y \in Int /\ x2 \in Int /\ y2 \in Int /\ a \in Int /\ b \in Int
          /\ n + x + y = a + b + 1 + 2 * m
          /\ x2 + y2 = x + y + 1 \/ x2 + y2 = x + y - 1
      BY <1>1, <2>1, <2>2, <2>3
    <3> HIDE DEF x, y, x2, y2, a, b
    <3>2. CASE x2 + y2 = x + y + 1
      <4>1. n + 1 + x2 + y2 = a + b + 1 + 2 * (m + 1) /\ m + 1 \in Int
        BY <3>1, <3>2
      <4>2. \E k \in Int : n + 1 + x2 + y2 = a + b + 1 + 2 * k
        BY <4>1
      <4> QED
        BY <4>2 DEF x2, y2, a, b
    <3>3. CASE x2 + y2 = x + y - 1
      <4>1. n + 1 + x2 + y2 = a + b + 1 + 2 * m
        BY <3>1, <3>3
      <4>2. \E k \in Int : n + 1 + x2 + y2 = a + b + 1 + 2 * k
        BY <4>1
      <4> QED
        BY <4>2 DEF x2, y2, a, b
    <3> QED
      BY <3>1, <3>2, <3>3
  <2>6. Len(q.vertices) <= LengthLimit(e) + 1
    BY <1>1, <1>2, <1>5, <2>2
  <2>7. \E k \in Int : Len(q.vertices) + X(Dest(q)) + Y(Dest(q)) = X(Src[e]) + Y(Src[e]) + 1 + 2 * k
    BY <1>5, <2>4, <2>5, Zenon
  <2> QED
    BY <2>6, <2>7 DEF LengthFits
<1>11. Stepwise(q.vertices)
  <2>1. ASSUME NEW i \in 1 .. n PROVE Adjacent(q.vertices[i], q.vertices[i + 1])
    <3>1. CASE i = n
      BY <1>1, <1>3, <1>5, <3>1
    <3>2. CASE i \in 1 .. n - 1
      <4>1. i + 1 \in 1 .. n /\ Adjacent(v[i], v[i + 1])
        BY <1>1, <3>2 DEF Stepwise, n
      <4> QED
        BY <1>5, <4>1
    <3> QED
      BY <1>1, <3>1, <3>2
  <2>2. Len(q.vertices) - 1 = n
    BY <1>1, <1>5
  <2> QED
    BY <2>1, <2>2, Zenon DEF Stepwise
<1> QED
  BY <1>1, <1>5, <1>7, <1>9, <1>10, <1>11 DEF Walk

-----------------------------------------------------------------------------
(***************************************************************************)
(* The inductive invariant of the front end.                               *)
(***************************************************************************)
PathsOK(qs, cs) ==
  /\ \A e \in Edges : \A p \in qs[e] \cup cs[e] : Walk(e, p)
  /\ \A e \in Edges : \A p \in cs[e] : Dest(p) = Dst[e]

RoutingInv ==
  /\ stage \in {"search", "ilp", "wires", "done", "loaded"}
  /\ usageLimit \in Nat
  /\ path \in [Edges -> Seq(Slot)]
  /\ queue \in [Edges -> SUBSET Path] /\ candidates \in [Edges -> SUBSET Path]
  /\ PathsOK(queue, candidates)
  /\ stage \in {"wires", "done"} => \A e \in Edges : Len(path[e]) > 1

LEMMA StartOK ==
  /\ StartQueues \in [Edges -> SUBSET Path] /\ NoPaths \in [Edges -> SUBSET Path]
  /\ NoRoutes \in [Edges -> Seq(Slot)]
  /\ PathsOK(StartQueues, NoPaths) /\ PathsOK(NoPaths, NoPaths)
<1>1. \A e \in Edges : InitPath(e) \in Path /\ Walk(e, InitPath(e))
  BY WalkStarts DEF Walk
<1> QED
  BY <1>1 DEF StartQueues, NoPaths, NoRoutes, PathsOK

LEMMA RoutingInvInit == RoutingInit => RoutingInv
  BY StartOK DEF RoutingInit, RoutingInv

LEMMA CandidatesAreLong ==
  ASSUME NEW e \in Edges, NEW p, Walk(e, p), Dest(p) = Dst[e]
  PROVE  Len(p.vertices) > 1
<1>1. Len(p.vertices) \in Nat /\ Len(p.vertices) > 0 /\ p.vertices[1] = Src[e]
  BY DEF Walk, Path
<1>2. Src[e] # Dst[e]
  BY RoutingAssumption
<1> QED
  BY <1>1, <1>2 DEF Dest

LEMMA RoutingInvStep == RoutingInv /\ [RoutingStep]_routing => RoutingInv'
<1> SUFFICES ASSUME RoutingInv, [RoutingStep]_routing PROVE RoutingInv'
  OBVIOUS
<1>1. CASE Search
  <2> DEFINE e == Searching
             found == {p \in queue[e] : Dest(p) = Dst[e]}
             more == UNION {ChildPaths(e, p) : p \in queue[e] \ found}
  <2>1. /\ candidates' = [candidates EXCEPT ![e] = @ \cup found]
        /\ queue' = [queue EXCEPT ![e] = more]
        /\ stage = "search" /\ UNCHANGED <<stage, usageLimit, path, wires, left>>
    BY <1>1 DEF Search
  <2>2. /\ queue \in [Edges -> SUBSET Path] /\ candidates \in [Edges -> SUBSET Path]
        /\ \A f \in Edges : \A p \in queue[f] \cup candidates[f] : Walk(f, p)
        /\ \A f \in Edges : \A p \in candidates[f] : Dest(p) = Dst[f]
    BY DEF RoutingInv, PathsOK
  <2>3. ASSUME e \in Edges
        PROVE  /\ \A p \in more : Walk(e, p) /\ p \in Path
               /\ \A p \in found : Walk(e, p) /\ p \in Path /\ Dest(p) = Dst[e]
    <3>1. \A p \in queue[e] : Walk(e, p)
      BY <2>2, <2>3
    <3>2. \A p \in queue[e] : \A q \in ChildPaths(e, p) : Walk(e, q)
      BY <2>3, <3>1, WalkGoesOn
    <3> HIDE DEF e
    <3>3. \A p \in more : Walk(e, p)
      BY <3>2
    <3> QED
      BY <3>1, <3>3 DEF Walk
  <2> HIDE DEF e, found, more
  <2>4. queue' \in [Edges -> SUBSET Path] /\ candidates' \in [Edges -> SUBSET Path]
    BY <2>1, <2>2, <2>3
  <2>5. ASSUME NEW f \in Edges
        PROVE  /\ queue'[f] = IF f = e THEN more ELSE queue[f]
               /\ candidates'[f] = IF f = e THEN candidates[f] \cup found ELSE candidates[f]
    BY <2>1, <2>2, <2>5
  <2>6. PathsOK(queue', candidates')
    BY <2>2, <2>3, <2>5 DEF PathsOK
  <2> QED
    BY <2>1, <2>4, <2>6 DEF RoutingInv
<1>2. CASE SearchDone
  BY <1>2 DEF SearchDone, RoutingInv
<1>3. CASE Solve
  <2>1. PICK choice \in Selections : path' = choice
    BY <1>3 DEF Solve
  <2>2. /\ stage' = "wires" /\ UNCHANGED <<queue, candidates, usageLimit, wires, left>>
    BY <1>3 DEF Solve
  <2>3. PICK c \in {f \in [Edges -> UNION {candidates[e] : e \in Edges}] : \A e \in Edges : f[e] \in candidates[e]} :
          choice = [e \in Edges |-> c[e].vertices]
    BY <2>1 DEF Selections
  <2>4. ASSUME NEW e \in Edges
        PROVE  choice[e] \in Seq(Slot) /\ Len(choice[e]) > 1
    <3>1. c[e] \in candidates[e] /\ choice[e] = c[e].vertices
      BY <2>3
    <3>2. Walk(e, c[e]) /\ Dest(c[e]) = Dst[e]
      BY <3>1 DEF RoutingInv, PathsOK
    <3> QED
      BY <3>1, <3>2, CandidatesAreLong DEF Walk, Path
  <2>5. path' \in [Edges -> Seq(Slot)] /\ \A e \in Edges : Len(path'[e]) > 1
    BY <2>1, <2>3, <2>4
  <2> QED
    BY <2>2, <2>5 DEF RoutingInv
<1>4. CASE Retry
  BY <1>4, StartOK DEF Retry, Raised, RoutingInv
<1>5. CASE NameWires
  BY <1>5 DEF NameWires, RoutingInv
<1>6. CASE UNCHANGED routing
  BY <1>6 DEF routing, RoutingInv
<1> QED
  BY <1>1, <1>2, <1>3, <1>4, <1>5, <1>6 DEF RoutingStep

-----------------------------------------------------------------------------
LEMMA RoutingInvMeansTypeOK == RoutingInv => RoutingTypeOK
  BY DEF RoutingInv, RoutingTypeOK

LEMMA RoutingInvMeansNoSlotTwice == RoutingInv => NoSlotTwice
  BY DEF RoutingInv, NoSlotTwice, PathsOK, Walk, Unvisited

(***************************************************************************)
(* A walk from one slot to another has the parity of their distance.       *)
(***************************************************************************)
LEMMA EvenDetours ==
  ASSUME RoutingInv, \E k \in Nat : DetourPathLimit = 2 * k
  PROVE  DetoursAreBounded
<1> SUFFICES ASSUME NEW e \in Edges, NEW p \in candidates[e]
             PROVE  Len(p.vertices) <= LengthLimit(e)
  BY DEF DetoursAreBounded
<1>1. Walk(e, p) /\ Dest(p) = Dst[e]
  BY DEF RoutingInv, PathsOK
<1> DEFINE n == Len(p.vertices)
           a == X(Src[e])  b == Y(Src[e])  x == X(Dst[e])  y == Y(Dst[e])
<1>2. /\ n \in Nat /\ n <= LengthLimit(e) + 1
      /\ \E m \in Int : n + x + y = a + b + 1 + 2 * m
  BY <1>1 DEF Walk, Path, LengthFits
<1>3. a \in Int /\ b \in Int /\ x \in Int /\ y \in Int
  BY DistancesAreNat, SlotCoordinates
<1>4. LengthLimit(e) = Gap(a, x) + Gap(b, y) + 1 + DetourPathLimit
  BY DEF LengthLimit, ShortestDist
<1> HIDE DEF n, a, b, x, y
<1>5. PICK k \in Nat : DetourPathLimit = 2 * k
  OBVIOUS
<1>6. PICK m \in Int : n + x + y = a + b + 1 + 2 * m
  BY <1>2
<1>7. n <= LengthLimit(e)
  BY <1>2, <1>3, <1>4, <1>5, <1>6 DEF Gap
<1> QED
  BY <1>7 DEF n

(***************************************************************************)
(* The search for paths visits no slot twice, on any grid, with any edges  *)
(* and any limit on detours.                                               *)
(***************************************************************************)
THEOREM NoPathVisitsASlotTwice == RoutingSpec => []NoSlotTwice
<1>1. RoutingSpec => []RoutingInv
  BY RoutingInvInit, RoutingInvStep, PTL DEF RoutingSpec
<1> QED
  BY <1>1, RoutingInvMeansNoSlotTwice, PTL

(***************************************************************************)
(* With an even limit on detours, as the front end has (4), all paths that *)
(* the search finds keep to it, though it extends paths that are already   *)
(* as long as the limit.                                                   *)
(***************************************************************************)
THEOREM EvenLimitsAreKept ==
  (\E k \in Nat : DetourPathLimit = 2 * k) => (RoutingSpec => []DetoursAreBounded)
<1> SUFFICES ASSUME \E k \in Nat : DetourPathLimit = 2 * k
             PROVE  RoutingSpec => []DetoursAreBounded
  OBVIOUS
<1>1. RoutingSpec => []RoutingInv
  BY RoutingInvInit, RoutingInvStep, PTL DEF RoutingSpec
<1>2. RoutingInv => DetoursAreBounded
  BY EvenDetours
<1> QED
  BY <1>1, <1>2, PTL

-----------------------------------------------------------------------------
(***************************************************************************)
(* The selected paths.  Segment k of an edge is the wire between the slots *)
(* k + 1 and k + 2 of its path.                                            *)
(***************************************************************************)
Selected(e) ==
  /\ path[e] \in Seq(Slot) /\ Len(path[e]) > 1
  /\ path[e][1] = Src[e] /\ path[e][Len(path[e])] = Dst[e]
  /\ Stepwise(path[e])
  /\ \A i, j \in 1 .. Len(path[e]) : path[e][i] = path[e][j] => i = j

(***************************************************************************)
(* Directions of neighbours.                                               *)
(***************************************************************************)
LEMMA TowardsANeighbor ==
  ASSUME NEW u \in Slot, NEW v \in Slot, Adjacent(u, v)
  PROVE  /\ Adjacent(v, u)
         /\ \E d \in Directions : Towards(u, v, d)
         /\ \A d \in Directions : Opposite(d) \in Directions
                                  /\ (Towards(u, v, d) <=> Towards(v, u, Opposite(d)))
<1>1. X(u) \in Int /\ Y(u) \in Int /\ X(v) \in Int /\ Y(v) \in Int
  BY SlotCoordinates
<1>2. Adjacent(v, u)
  BY <1>1 DEF Adjacent, Gap
<1>3. Towards(u, v, "UP") \/ Towards(u, v, "DOWN") \/ Towards(u, v, "LEFT") \/ Towards(u, v, "RIGHT")
  BY <1>1 DEF Adjacent, Gap, Towards
<1>4. ASSUME NEW d \in Directions
      PROVE  Opposite(d) \in Directions /\ (Towards(u, v, d) <=> Towards(v, u, Opposite(d)))
  BY <1>1 DEF Directions, Opposite, Towards
<1> QED
  BY <1>2, <1>3, <1>4 DEF Directions

LEMMA OneNeighborEachWay ==
  ASSUME NEW u \in Slot, NEW v \in Slot, NEW w \in Slot, NEW d \in Directions,
         Adjacent(u, v), Adjacent(u, w), Towards(u, v, d), Towards(u, w, d)
  PROVE  v = w
<1>1. /\ X(u) \in Int /\ Y(u) \in Int /\ X(v) \in Int /\ Y(v) \in Int
      /\ X(w) \in Int /\ Y(w) \in Int
  BY SlotCoordinates
<1>2. CASE d = "UP"
  BY <1>1, <1>2, SlotsDiffer DEF Towards, Adjacent, Gap
<1>3. CASE d = "DOWN"
  BY <1>1, <1>3, SlotsDiffer DEF Towards, Adjacent, Gap
<1>4. CASE d = "LEFT"
  BY <1>1, <1>4, SlotsDiffer DEF Towards, Adjacent, Gap
<1>5. CASE d = "RIGHT"
  BY <1>1, <1>5, SlotsDiffer DEF Towards, Adjacent, Gap
<1> QED
  BY <1>2, <1>3, <1>4, <1>5 DEF Directions

(***************************************************************************)
(* The segments that enter slot s, and those that leave it.                *)
(***************************************************************************)
Entering(s) == {x \in Edges \X Nat : x[2] < Hops(x[1]) /\ path[x[1]][x[2] + 2] = s}
Leaving(s)  == {x \in Edges \X Nat : x[2] < Hops(x[1]) /\ path[x[1]][x[2] + 1] = s}

LEMMA SegmentEnds ==
  ASSUME NEW e \in Edges, Selected(e), NEW k \in Nat, k < Hops(e)
  PROVE  /\ Hops(e) \in Nat /\ Hops(e) = Len(path[e]) - 1
         /\ path[e][k + 1] \in Slot /\ path[e][k + 2] \in Slot
         /\ Adjacent(path[e][k + 1], path[e][k + 2])
<1>1. path[e] \in Seq(Slot) /\ Len(path[e]) \in Nat /\ Len(path[e]) > 1 /\ Stepwise(path[e])
  BY DEF Selected
<1>2. Hops(e) = Len(path[e]) - 1
  BY Zenon DEF Hops
<1>3. k + 1 \in 1 .. Len(path[e]) - 1 /\ k + 1 + 1 = k + 2 /\ k + 2 \in 1 .. Len(path[e])
  BY <1>1, <1>2
<1> QED
  BY <1>1, <1>2, <1>3 DEF Stepwise

LEMMA SameSlotSameIndex ==
  ASSUME NEW e \in Edges, Selected(e), NEW i \in 1 .. Hops(e) + 1, NEW j \in 1 .. Hops(e) + 1,
         path[e][i] = path[e][j]
  PROVE  i = j
<1>1. Len(path[e]) \in Nat
  BY DEF Selected
<1>2. Hops(e) + 1 = Len(path[e])
  BY <1>1 DEF Hops
<1> QED
  BY <1>2 DEF Selected

(***************************************************************************)
(* An edge enters a slot once and leaves it once, by the segment after.    *)
(***************************************************************************)
LEMMA OneWayThrough ==
  ASSUME \A e \in Edges : Selected(e), NEW s \in Slot
  PROVE  /\ \A x, y \in Entering(s) : x[1] = y[1] => x = y
         /\ \A x, y \in Leaving(s) : x[1] = y[1] => x = y
         /\ \A x \in Entering(s), y \in Leaving(s) : x[1] = y[1] => y[2] = x[2] + 1
<1>1. ASSUME NEW x \in Edges \X Nat
      PROVE  x = <<x[1], x[2]>> /\ x[1] \in Edges /\ x[2] \in Nat /\ Selected(x[1])
  OBVIOUS
<1>2. ASSUME NEW x \in Entering(s)
      PROVE  /\ x \in Edges \X Nat /\ x[2] + 2 \in 1 .. Hops(x[1]) + 1
             /\ path[x[1]][x[2] + 2] = s
  <2>1. x \in Edges \X Nat /\ x[2] < Hops(x[1]) /\ path[x[1]][x[2] + 2] = s
    BY DEF Entering
  <2> QED
    BY <1>1, <2>1, SegmentEnds
<1>3. ASSUME NEW x \in Leaving(s)
      PROVE  /\ x \in Edges \X Nat /\ x[2] + 1 \in 1 .. Hops(x[1]) + 1
             /\ path[x[1]][x[2] + 1] = s
  <2>1. x \in Edges \X Nat /\ x[2] < Hops(x[1]) /\ path[x[1]][x[2] + 1] = s
    BY DEF Leaving
  <2> QED
    BY <1>1, <2>1, SegmentEnds
<1>4. ASSUME NEW x \in Entering(s), NEW y \in Entering(s), x[1] = y[1]
      PROVE  x = y
  <2>1. x[2] + 2 = y[2] + 2
    BY <1>1, <1>2, <1>4, SameSlotSameIndex
  <2>2. x[2] = y[2]
    BY <1>1, <1>2, <2>1
  <2> QED
    BY <1>1, <1>2, <1>4, <2>2
<1>5. ASSUME NEW x \in Leaving(s), NEW y \in Leaving(s), x[1] = y[1]
      PROVE  x = y
  <2>1. x[2] + 1 = y[2] + 1
    BY <1>1, <1>3, <1>5, SameSlotSameIndex
  <2>2. x[2] = y[2]
    BY <1>1, <1>3, <2>1
  <2> QED
    BY <1>1, <1>3, <1>5, <2>2
<1>6. ASSUME NEW x \in Entering(s), NEW y \in Leaving(s), x[1] = y[1]
      PROVE  y[2] = x[2] + 1
  <2>1. x[2] + 2 = y[2] + 1
    BY <1>1, <1>2, <1>3, <1>6, SameSlotSameIndex
  <2> QED
    BY <1>1, <1>2, <1>3, <2>1
<1> QED
  BY <1>4, <1>5, <1>6

LEMMA FirstIndexIsThePosition ==
  ASSUME NEW e \in Edges, Selected(e), NEW s, NEW k \in 1 .. Hops(e) - 1, path[e][k + 1] = s
  PROVE  FirstIndex(e, s) = k
<1>1. Hops(e) \in Int
  <2>1. Len(path[e]) \in Nat
    BY DEF Selected
  <2> QED
    BY <2>1 DEF Hops
<1>2. ASSUME NEW j \in 1 .. Hops(e) - 1, path[e][j + 1] = s PROVE j = k
  BY <1>1, <1>2, SameSlotSameIndex
<1>3. \A j \in 1 .. k - 1 : path[e][j + 1] # s
  BY <1>1, <1>2
<1> QED
  BY <1>2, <1>3, Zenon DEF FirstIndex

(***************************************************************************)
(* The ports of a slot are the segments that enter it or leave it.         *)
(***************************************************************************)
LEMMA PortsAreSegments ==
  ASSUME \A e \in Edges : Selected(e), NEW s \in Slot
  PROVE  Ports(s) = Entering(s) \cup Leaving(s)
<1>1. ASSUME NEW e \in Edges
      PROVE  /\ Selected(e) /\ Hops(e) \in Nat \ {0}
             /\ path[e][1] = Src[e] /\ path[e][Hops(e) + 1] = Dst[e]
  <2>1. Len(path[e]) \in Nat
    BY DEF Selected
  <2>2. Hops(e) = Len(path[e]) - 1
    BY Zenon DEF Hops
  <2> QED
    BY <2>1, <2>2 DEF Selected
<1>2. ASSUME NEW e \in Edges, Passes(e, s)
      PROVE  /\ <<e, FirstIndex(e, s) - 1>> \in Entering(s)
             /\ <<e, FirstIndex(e, s)>> \in Leaving(s)
  <2>1. PICK k \in 1 .. Hops(e) - 1 : path[e][k + 1] = s
    BY <1>2 DEF Passes
  <2>2. FirstIndex(e, s) = k
    BY <1>1, <2>1, FirstIndexIsThePosition
  <2>3. k \in Nat /\ k - 1 \in Nat /\ k < Hops(e) /\ k - 1 < Hops(e) /\ k - 1 + 2 = k + 1
    BY <1>1, <2>1
  <2> QED
    BY <2>1, <2>2, <2>3 DEF Entering, Leaving
<1>3. ASSUME NEW e \in Edges, Dst[e] = s PROVE <<e, Hops(e) - 1>> \in Entering(s)
  <2>1. /\ Hops(e) - 1 \in Nat /\ Hops(e) - 1 < Hops(e) /\ Hops(e) - 1 + 2 = Hops(e) + 1
    BY <1>1
  <2> QED
    BY <1>1, <1>3, <2>1 DEF Entering
<1>4. ASSUME NEW e \in Edges, Src[e] = s PROVE <<e, 0>> \in Leaving(s)
  BY <1>1, <1>4 DEF Leaving
<1>5. ASSUME NEW x \in Entering(s) PROVE x \in Ports(s)
  <2> DEFINE e == x[1]  k == x[2]
  <2>1. e \in Edges /\ k \in Nat /\ x = <<e, k>> /\ k < Hops(e) /\ path[e][k + 2] = s
    BY DEF Entering
  <2> HIDE DEF e, k
  <2>2. CASE k = Hops(e) - 1
    <3>1. k + 2 = Hops(e) + 1
      BY <1>1, <2>1, <2>2
    <3>2. Dst[e] = s
      BY <1>1, <2>1, <3>1
    <3>3. x \in InterSlotPorts(s)
      BY <2>1, <2>2, <3>2 DEF InterSlotPorts
    <3> QED
      BY <3>3 DEF Ports
  <2>3. CASE k # Hops(e) - 1
    <3>1. k + 1 \in 1 .. Hops(e) - 1 /\ k + 1 + 1 = k + 2 /\ k + 1 - 1 = k
      BY <1>1, <2>1, <2>3
    <3>2. Passes(e, s)
      BY <2>1, <3>1 DEF Passes
    <3>3. FirstIndex(e, s) = k + 1
      BY <1>1, <2>1, <3>1, FirstIndexIsThePosition
    <3>4. x = <<e, FirstIndex(e, s) - 1>>
      BY <2>1, <3>1, <3>3
    <3>5. x \in PassingPorts(s)
      BY <2>1, <3>2, <3>4 DEF PassingPorts
    <3> QED
      BY <3>5 DEF Ports
  <2> QED
    BY <2>2, <2>3
<1>6. ASSUME NEW x \in Leaving(s) PROVE x \in Ports(s)
  <2> DEFINE e == x[1]  k == x[2]
  <2>1. e \in Edges /\ k \in Nat /\ x = <<e, k>> /\ k < Hops(e) /\ path[e][k + 1] = s
    BY DEF Leaving
  <2> HIDE DEF e, k
  <2>2. CASE k = 0
    <3>1. Src[e] = s
      BY <1>1, <2>1, <2>2
    <3>2. x \in InterSlotPorts(s)
      BY <2>1, <2>2, <3>1 DEF InterSlotPorts
    <3> QED
      BY <3>2 DEF Ports
  <2>3. CASE k # 0
    <3>1. k \in 1 .. Hops(e) - 1
      BY <1>1, <2>1, <2>3
    <3>2. Passes(e, s) /\ FirstIndex(e, s) = k
      BY <1>1, <2>1, <3>1, FirstIndexIsThePosition DEF Passes
    <3>3. x \in PassingPorts(s)
      BY <2>1, <3>2 DEF PassingPorts
    <3> QED
      BY <3>3 DEF Ports
  <2> QED
    BY <2>2, <2>3
<1>7. ASSUME NEW x \in Ports(s) PROVE x \in Entering(s) \cup Leaving(s)
  <2>1. CASE x \in PassingPorts(s)
    <3>1. PICK e \in Edges : Passes(e, s) /\ x \in {<<e, FirstIndex(e, s) - 1>>, <<e, FirstIndex(e, s)>>}
      BY <2>1 DEF PassingPorts
    <3> QED
      BY <1>2, <3>1
  <2>2. CASE x \in InterSlotPorts(s)
    <3>1. PICK e \in Edges : \/ Dst[e] = s /\ x = <<e, Hops(e) - 1>>
                             \/ Src[e] = s /\ x = <<e, 0>>
      BY <2>2 DEF InterSlotPorts
    <3> QED
      BY <1>3, <1>4, <3>1
  <2> QED
    BY <1>7, <2>1, <2>2 DEF Ports
<1> QED
  BY <1>5, <1>6, <1>7

(***************************************************************************)
(* With at most ten segments, 0 to 9, the order of the names is that of    *)
(* the numbers; ten comes before nine.                                     *)
(***************************************************************************)
LEMMA NamesInOrder ==
  ASSUME NEW k \in 0 .. 8
  PROVE  NameLess(k, k + 1) /\ ~NameLess(k + 1, k)
  BY SMT DEF NameLess

\* The edges at one of the sides of a slot.
LEMMA SidesOfASlot ==
  ASSUME \A e \in Edges : Selected(e), NEW s \in Slot
  PROVE  /\ AllIn(s) = {x[1] : x \in Entering(s)}
         /\ AllOut(s) = {x[1] : x \in Leaving(s)}
<1>1. ASSUME NEW e \in Edges, NEW d \in Directions, e \in EdgesIn(s, d)
      PROVE  \E x \in Entering(s) : x[1] = e
  <2>1. PICK k \in 1 .. Hops(e) : path[e][k + 1] = s
    BY <1>1 DEF EdgesIn
  <2>2. Hops(e) \in Int
    BY DEF Hops, Selected
  <2>3. k - 1 \in Nat /\ k - 1 < Hops(e) /\ k - 1 + 2 = k + 1
    BY <2>1, <2>2
  <2>4. <<e, k - 1>> \in Entering(s) /\ <<e, k - 1>>[1] = e
    BY <2>1, <2>3 DEF Entering
  <2> QED
    BY <2>4
<1>2. ASSUME NEW e \in Edges, NEW d \in Directions, e \in EdgesOut(s, d)
      PROVE  \E x \in Leaving(s) : x[1] = e
  <2>1. PICK k \in 1 .. Hops(e) : path[e][k] = s
    BY <1>2 DEF EdgesOut
  <2>2. Hops(e) \in Int
    BY DEF Hops, Selected
  <2>3. k - 1 \in Nat /\ k - 1 < Hops(e) /\ k - 1 + 1 = k
    BY <2>1, <2>2
  <2>4. <<e, k - 1>> \in Leaving(s) /\ <<e, k - 1>>[1] = e
    BY <2>1, <2>3 DEF Leaving
  <2> QED
    BY <2>4
<1>3. ASSUME NEW x \in Entering(s)
      PROVE  x[1] \in Edges /\ \E d \in Directions : x[1] \in EdgesIn(s, d)
  <2> DEFINE e == x[1]  k == x[2]
  <2>1. e \in Edges /\ k \in Nat /\ k < Hops(e) /\ path[e][k + 2] = s
    BY DEF Entering
  <2> HIDE DEF e, k
  <2>2. /\ Hops(e) \in Nat /\ path[e][k + 1] \in Slot /\ Adjacent(path[e][k + 1], s)
    BY <2>1, SegmentEnds
  <2>3. PICK d \in Directions : Towards(s, path[e][k + 1], d)
    BY <2>2, TowardsANeighbor
  <2>4. k + 1 \in 1 .. Hops(e) /\ k + 1 + 1 = k + 2
    BY <2>1, <2>2
  <2>5. e \in EdgesIn(s, d)
    BY <2>1, <2>3, <2>4 DEF EdgesIn
  <2> QED
    BY <2>1, <2>5 DEF e
<1>4. ASSUME NEW x \in Leaving(s)
      PROVE  x[1] \in Edges /\ \E d \in Directions : x[1] \in EdgesOut(s, d)
  <2> DEFINE e == x[1]  k == x[2]
  <2>1. e \in Edges /\ k \in Nat /\ k < Hops(e) /\ path[e][k + 1] = s
    BY DEF Leaving
  <2> HIDE DEF e, k
  <2>2. /\ Hops(e) \in Nat /\ path[e][k + 2] \in Slot /\ Adjacent(s, path[e][k + 2])
    BY <2>1, SegmentEnds
  <2>3. PICK d \in Directions : Towards(s, path[e][k + 2], d)
    BY <2>2, TowardsANeighbor
  <2>4. k + 1 \in 1 .. Hops(e) /\ k + 1 + 1 = k + 2
    BY <2>1, <2>2
  <2>5. e \in EdgesOut(s, d)
    BY <2>1, <2>3, <2>4 DEF EdgesOut
  <2> QED
    BY <2>1, <2>5 DEF e
<1>5. \A d \in Directions : EdgesIn(s, d) \subseteq Edges /\ EdgesOut(s, d) \subseteq Edges
  BY DEF EdgesIn, EdgesOut
<1>6. AllIn(s) = {x[1] : x \in Entering(s)}
  BY <1>1, <1>3, <1>5 DEF AllIn
<1>7. AllOut(s) = {x[1] : x \in Leaving(s)}
  BY <1>2, <1>4, <1>5 DEF AllOut
<1> QED
  BY <1>6, <1>7

(***************************************************************************)
(* What enters a slot is matched on the IN side, what leaves it on the OUT *)
(* side: of the two names that a passing edge has there, the first sorts   *)
(* before the second.                                                      *)
(***************************************************************************)
LEMMA EachSideGetsItsNames ==
  ASSUME \A e \in Edges : Selected(e), ShortPaths, NEW s \in Slot
  PROVE  PortsIn(s) = Entering(s) /\ PortsOut(s) = Leaving(s)
<1>1. Ports(s) = Entering(s) \cup Leaving(s)
  BY PortsAreSegments
<1>2. /\ AllIn(s) = {x[1] : x \in Entering(s)}
      /\ AllOut(s) = {x[1] : x \in Leaving(s)}
  BY SidesOfASlot
<1>3. /\ \A x, y \in Entering(s) : x[1] = y[1] => x = y
      /\ \A x, y \in Leaving(s) : x[1] = y[1] => x = y
  BY OneWayThrough
<1>4. ASSUME NEW x \in Entering(s), NEW y \in Leaving(s), x[1] = y[1]
      PROVE  x # y /\ NameLess(x[2], y[2]) /\ ~NameLess(y[2], x[2])
  <2>1. y[2] = x[2] + 1
    BY <1>4, OneWayThrough
  <2>2. /\ x[1] \in Edges /\ x[2] \in Nat /\ y[2] \in Nat /\ y[2] < Hops(x[1])
    BY <1>4 DEF Entering, Leaving
  <2>3. Hops(x[1]) \in Int /\ Hops(x[1]) <= 10
    <3>1. Selected(x[1]) /\ Len(path[x[1]]) <= 11
      BY <2>2 DEF ShortPaths
    <3>2. Len(path[x[1]]) \in Nat
      BY <3>1 DEF Selected
    <3> QED
      BY <3>1, <3>2 DEF Hops
  <2>4. x[2] \in 0 .. 8
    BY <2>1, <2>2, <2>3
  <2>5. x # y
    BY <2>1, <2>2
  <2> QED
    BY <2>1, <2>4, <2>5, NamesInOrder
<1>5. PortsIn(s) = Entering(s)
  <2>1. ASSUME NEW x \in Entering(s) PROVE x \in PortsIn(s)
    BY <1>1, <1>2, <1>3, <1>4 DEF PortsIn, Matches
  <2>2. ASSUME NEW y \in PortsIn(s) PROVE y \in Entering(s)
    <3>1. /\ y \in Ports(s) /\ y[1] \in AllIn(s)
          /\ \A q \in Ports(s) : q[1] = y[1] => q = y \/ NameLess(y[2], q[2])
      BY DEF PortsIn, Matches
    <3>2. PICK x \in Entering(s) : x[1] = y[1]
      BY <1>2, <3>1
    <3> QED
      BY <1>1, <1>4, <3>1, <3>2
  <2> QED
    BY <2>1, <2>2
<1>6. Ports(s) \ PortsIn(s) = Leaving(s)
  BY <1>1, <1>4, <1>5
<1>7. PortsOut(s) = Leaving(s)
  BY <1>2, <1>3, <1>6 DEF PortsOut, Matches
<1> QED
  BY <1>5, <1>7

(***************************************************************************)
(* What leaves s in some direction enters its neighbour t from the         *)
(* opposite direction.                                                     *)
(***************************************************************************)
LEMMA NeighborsAgree ==
  ASSUME \A e \in Edges : Selected(e), NEW s \in Slot, NEW d \in Directions,
         NEW t \in Slot, Adjacent(s, t), Towards(s, t, d)
  PROVE  Of(EdgesOut(s, d), Leaving(s)) = Of(EdgesIn(t, Opposite(d)), Entering(t))
<1>1. Opposite(d) \in Directions /\ Towards(t, s, Opposite(d)) /\ Adjacent(t, s)
  BY TowardsANeighbor
<1>2. ASSUME NEW x \in Of(EdgesOut(s, d), Leaving(s))
      PROVE  x \in Of(EdgesIn(t, Opposite(d)), Entering(t))
  <2> DEFINE e == x[1]  k == x[2]
  <2>1. /\ x \in Edges \X Nat /\ e \in Edges /\ k \in Nat /\ k < Hops(e) /\ path[e][k + 1] = s
        /\ e \in EdgesOut(s, d)
    BY <1>2 DEF Of, Leaving
  <2> HIDE DEF e, k
  <2>2. /\ Hops(e) \in Nat /\ path[e][k + 2] \in Slot /\ Adjacent(s, path[e][k + 2])
    BY <2>1, SegmentEnds
  <2>3. PICK i \in 1 .. Hops(e) : path[e][i] = s /\ Towards(s, path[e][i + 1], d)
    BY <2>1 DEF EdgesOut
  <2>4. i \in 1 .. Hops(e) + 1 /\ k + 1 \in 1 .. Hops(e) + 1
    BY <2>1, <2>2
  <2>5. i = k + 1
    BY <2>1, <2>3, <2>4, SameSlotSameIndex
  <2>6. i + 1 = k + 2 /\ k + 1 \in 1 .. Hops(e) /\ k + 1 + 1 = k + 2
    BY <2>1, <2>2, <2>5
  <2>7. path[e][k + 2] = t
    BY <2>2, <2>3, <2>6, OneNeighborEachWay
  <2>8. x \in Entering(t)
    BY <2>1, <2>7 DEF Entering, e, k
  <2>9. e \in EdgesIn(t, Opposite(d))
    BY <1>1, <2>1, <2>6, <2>7 DEF EdgesIn
  <2> QED
    BY <2>8, <2>9 DEF Of, e
<1>3. ASSUME NEW x \in Of(EdgesIn(t, Opposite(d)), Entering(t))
      PROVE  x \in Of(EdgesOut(s, d), Leaving(s))
  <2> DEFINE e == x[1]  k == x[2]
  <2>1. /\ x \in Edges \X Nat /\ e \in Edges /\ k \in Nat /\ k < Hops(e) /\ path[e][k + 2] = t
        /\ e \in EdgesIn(t, Opposite(d))
    BY <1>3 DEF Of, Entering
  <2> HIDE DEF e, k
  <2>2. /\ Hops(e) \in Nat /\ path[e][k + 1] \in Slot /\ Adjacent(path[e][k + 1], t)
    BY <2>1, SegmentEnds
  <2>3. PICK i \in 1 .. Hops(e) : path[e][i + 1] = t /\ Towards(t, path[e][i], Opposite(d))
    BY <2>1 DEF EdgesIn
  <2>4. i + 1 \in 1 .. Hops(e) + 1 /\ k + 2 \in 1 .. Hops(e) + 1
    BY <2>1, <2>2, <2>3
  <2>5. i + 1 = k + 2
    BY <2>1, <2>3, <2>4, SameSlotSameIndex
  <2>6. i = k + 1 /\ k + 1 \in 1 .. Hops(e) /\ k + 1 + 1 = k + 2
    BY <2>1, <2>2, <2>3, <2>5
  <2>7. path[e][k + 1] = s
    BY <1>1, <2>2, <2>3, <2>6, TowardsANeighbor, OneNeighborEachWay
  <2>8. x \in Leaving(s)
    BY <2>1, <2>7 DEF Leaving, e, k
  <2>9. e \in EdgesOut(s, d)
    BY <2>1, <2>6, <2>7 DEF EdgesOut
  <2> QED
    BY <2>8, <2>9 DEF Of, e
<1> QED
  BY <1>2, <1>3

-----------------------------------------------------------------------------
(***************************************************************************)
(* The paths that are selected are walks, and their names meet.            *)
(***************************************************************************)
SelectionInv ==
  /\ stage \in {"wires", "done"} => \A e \in Edges : Selected(e)
  /\ SegmentsMeet

LEMMA SelectionInvStep ==
  RoutingInv /\ SelectionInv /\ [RoutingStep]_routing => SelectionInv'
<1> SUFFICES ASSUME RoutingInv, SelectionInv, [RoutingStep]_routing PROVE SelectionInv'
  OBVIOUS
<1>1. CASE Search
  BY <1>1 DEF Search, SelectionInv, SegmentsMeet, ShortPaths
<1>2. CASE SearchDone
  BY <1>2 DEF SearchDone, SelectionInv, SegmentsMeet, ShortPaths
<1>3. CASE Solve
  <2>1. PICK choice \in Selections : path' = choice
    BY <1>3 DEF Solve
  <2>2. PICK c \in {f \in [Edges -> UNION {candidates[e] : e \in Edges}] : \A e \in Edges : f[e] \in candidates[e]} :
          choice = [e \in Edges |-> c[e].vertices]
    BY <2>1 DEF Selections
  <2>3. ASSUME NEW e \in Edges PROVE Selected(e)'
    <3>1. Walk(e, c[e]) /\ Dest(c[e]) = Dst[e]
      BY <2>2 DEF RoutingInv, PathsOK
    <3>2. Len(c[e].vertices) > 1
      BY <3>1, CandidatesAreLong
    <3>3. path'[e] = c[e].vertices
      BY <2>1, <2>2
    <3> QED
      BY <3>1, <3>2, <3>3 DEF Selected, Walk, Path, Dest, Unvisited
  <2> QED
    BY <1>3, <2>3 DEF Solve, SelectionInv, SegmentsMeet
<1>4. CASE Retry
  BY <1>4 DEF Retry, SelectionInv, SegmentsMeet
<1>5. CASE NameWires
  <2>1. stage = "wires" /\ stage' = "done" /\ path' = path
    BY <1>5 DEF NameWires
  <2>2. \A e \in Edges : Selected(e)
    BY <2>1 DEF SelectionInv
  <2>3. ASSUME ShortPaths PROVE SegmentsMeet'
    <3>1. ASSUME NEW s \in Slot PROVE left'[s] = {}
      <4>1. left'[s] = Ports(s) \ (PortsIn(s) \cup PortsOut(s))
        BY <1>5 DEF NameWires
      <4> QED
        BY <2>2, <2>3, <4>1, EachSideGetsItsNames, PortsAreSegments
    <3>2. ASSUME NEW s \in Slot, NEW d \in Directions
          PROVE  /\ wires'[s][d].IN_ = Of(EdgesIn(s, d), Entering(s))
                 /\ wires'[s][d].OUT_ = Of(EdgesOut(s, d), Leaving(s))
      <4>1. /\ wires'[s][d].IN_ = Of(EdgesIn(s, d), PortsIn(s))
            /\ wires'[s][d].OUT_ = Of(EdgesOut(s, d), PortsOut(s))
        BY <1>5 DEF NameWires
      <4> QED
        BY <2>2, <2>3, <4>1, EachSideGetsItsNames
    <3>3. ASSUME NEW s \in Slot, NEW d \in Directions, NEW t \in Neighbors(s), Towards(s, t, d)
          PROVE  wires'[s][d].OUT_ = wires'[t][Opposite(d)].IN_
      <4>1. t \in Slot /\ Adjacent(s, t)
        BY DEF Neighbors
      <4>2. Opposite(d) \in Directions
        BY <4>1, TowardsANeighbor
      <4> QED
        BY <2>2, <3>2, <3>3, <4>1, <4>2, NeighborsAgree
    <3> QED
      BY <3>1, <3>3 DEF SegmentsMeet
  <2> QED
    BY <2>1, <2>2, <2>3 DEF SelectionInv, SegmentsMeet, Selected, ShortPaths
<1>6. CASE UNCHANGED routing
  BY <1>6 DEF routing, SelectionInv, Selected, ShortPaths, SegmentsMeet
<1> QED
  BY <1>1, <1>2, <1>3, <1>4, <1>5, <1>6 DEF RoutingStep

(***************************************************************************)
(* With paths of at most 11 slots, whatever the grid and the edges, two    *)
(* neighbouring slots agree on the names of the wires between them, and no *)
(* name remains.  A detour on the U250 may have 15 slots.                  *)
(***************************************************************************)
THEOREM ShortPathsMeet == RoutingSpec => []SegmentsMeet
<1>1. RoutingSpec => []RoutingInv
  BY RoutingInvInit, RoutingInvStep, PTL DEF RoutingSpec
<1>2. RoutingInit => SelectionInv
  BY DEF RoutingInit, SelectionInv, SegmentsMeet
<1>3. SelectionInv => SegmentsMeet
  BY DEF SelectionInv
<1> QED
  BY <1>1, <1>2, <1>3, SelectionInvStep, PTL DEF RoutingSpec
=============================================================================
