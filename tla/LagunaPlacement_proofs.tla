----------------------- MODULE LagunaPlacement_proofs -----------------------
(***************************************************************************)
(* Theorems about LagunaPlacement, for any number of anchors and channels  *)
(* and any capacity up to the number of SLLs of a channel.                 *)
(***************************************************************************)
EXTENDS LagunaPlacement, FiniteSetTheorems, SequenceTheorems, TLAPS

\* The Laguna row of the lower end of the channel's SLLs.
Low(c) == 120 + 240 * Boundary + 2 * (c[2] - 180 - 240 * Boundary)

LEMMA RowsOfChannel ==
  ASSUME NEW c \in Channels
  PROVE  /\ c[1] \in Nat /\ c[2] \in Int
         /\ Low(c) \in Int
         /\ Low(c) >= 120 + 240 * Boundary
         /\ Low(c) <= 238 + 240 * Boundary
         /\ LagunaY(c[2]) = Low(c)
         /\ LagunaY(c[2] + 60) = Low(c) + 120
<1>1. PICK r \in Rows : c[2] = 180 + 240 * Boundary + r
  BY DEF Channels
<1>2. r \in 0..59 /\ c[1] \in Nat
  BY DeviceAssumption DEF Channels
<1>3. CASE Boundary = 0
  BY <1>1, <1>2, <1>3 DEF Low, LagunaY
<1>4. CASE Boundary = 1
  BY <1>1, <1>2, <1>4 DEF Low, LagunaY
<1>5. CASE Boundary = 2
  BY <1>1, <1>2, <1>5 DEF Low, LagunaY
<1> QED
  BY <1>3, <1>4, <1>5, DeviceAssumption

\* The place of the k-th register of a list: Laguna row, side of the column, register.
Row(k)  == (k - 1) % 2
Side(k) == ((k - 1) % 4) \div 2
Reg(k)  == (k - 1) \div 4

\* The k-th register of a list that starts in Laguna row y.
Register(c, k, y) == [x |-> c[1] * 2 + Side(k), y |-> y + Row(k), reg |-> Reg(k)]

\* A list names each of its registers once: the place determines the position.
LEMMA Places ==
  ASSUME NEW k \in Int
  PROVE  /\ Row(k) \in 0..1 /\ Side(k) \in 0..1 /\ Reg(k) \in Int
         /\ k = 4 * Reg(k) + 2 * Side(k) + Row(k) + 1
<1>1. Row(k) \in 0..1
  BY DEF Row
<1>2. Side(k) \in 0..1
  BY DEF Side
<1>3. Reg(k) \in Int
  BY DEF Reg
<1>4. k = 4 * Reg(k) + 2 * Side(k) + Row(k) + 1
  BY DEF Row, Side, Reg
<1> QED
  BY <1>1, <1>2, <1>3, <1>4

LEMMA RegistersOfChannel ==
  ASSUME NEW c \in Channels, NEW k \in Int
  PROVE  /\ BottomRX(c, k) = Register(c, k, Low(c))
         /\ TopRX(c, k) = Register(c, k, Low(c) + 120)
<1>1. LagunaY(c[2]) = Low(c) /\ LagunaY(c[2] + 60) = Low(c) + 120
  BY RowsOfChannel
<1> QED
  BY <1>1 DEF BottomRX, TopRX, RX, Register, Row, Side, Reg

LEMMA EvenAndBit ==
  ASSUME NEW x \in Int, NEW y \in Int, NEW s \in 0..1, NEW t \in 0..1,
         x * 2 + s = y * 2 + t
  PROVE  x = y /\ s = t
  OBVIOUS

\* The lower and the upper register at the same position are the two ends of one SLL.
LEMMA PairedEnds ==
  ASSUME NEW c \in Channels, NEW k \in Int
  PROVE  /\ PairingTX(BottomRX(c, k)) = TopRX(c, k)
         /\ PairingTX(TopRX(c, k)) = BottomRX(c, k)
<1> DEFINE low == Low(c) + Row(k)
<1>1. low \in Int /\ low >= 120 + 240 * Boundary /\ low <= 239 + 240 * Boundary
  <2>1. Row(k) \in 0..1 /\ Boundary \in 0..2
    BY Places, DeviceAssumption
  <2>2. Low(c) \in Int /\ Low(c) >= 120 + 240 * Boundary /\ Low(c) <= 238 + 240 * Boundary
    BY RowsOfChannel
  <2> QED
    BY <2>1, <2>2
<1>2. BottomRX(c, k) = [x |-> c[1] * 2 + Side(k), y |-> low, reg |-> Reg(k)]
  BY RegistersOfChannel DEF Register
<1>3. TopRX(c, k) = [x |-> c[1] * 2 + Side(k), y |-> low + 120, reg |-> Reg(k)]
  <2>1. Low(c) + 120 + Row(k) = low + 120
    BY Places, RowsOfChannel
  <2> QED
    BY <2>1, RegistersOfChannel DEF Register
<1> HIDE DEF low
<1>4. /\ SlrBoundary(low) = SlrBoundary(low + 120)
      /\ SlrBoundary(low + 120) # SlrBoundary(low + 120 + 120)
  <2>1. CASE Boundary = 0
    BY <1>1, <2>1 DEF SlrBoundary
  <2>2. CASE Boundary = 1
    BY <1>1, <2>2 DEF SlrBoundary
  <2>3. CASE Boundary = 2
    BY <1>1, <2>3 DEF SlrBoundary
  <2> QED
    BY <2>1, <2>2, <2>3, DeviceAssumption
<1>5. PairingTX(BottomRX(c, k)) = TopRX(c, k)
  BY <1>2, <1>3, <1>4 DEF PairingTX
<1>6. PairingTX(TopRX(c, k)) = BottomRX(c, k)
  <2>1. TopRX(c, k).y = low + 120
    BY <1>3
  <2>2. SlrBoundary(TopRX(c, k).y) # SlrBoundary(TopRX(c, k).y + 120)
    BY <1>4, <2>1
  <2>3. PairingTX(TopRX(c, k)) = [TopRX(c, k) EXCEPT !.y = @ - 120]
    BY <2>2, Zenon DEF PairingTX
  <2>4. TopRX(c, k).y - 120 = low
    BY <1>1, <2>1
  <2>5. [TopRX(c, k) EXCEPT !.y = low] = BottomRX(c, k)
    BY <1>2, <1>3
  <2> QED
    BY <2>3, <2>4, <2>5, Zenon
<1> QED
  BY <1>5, <1>6

\* Lists of different channels, and the two lists of a channel, have no common
\* register, and no list names a register twice.
LEMMA OwnSites ==
  ASSUME NEW c \in Channels, NEW d \in Channels, NEW k \in Int, NEW l \in Int
  PROVE  /\ BottomRX(c, k) = BottomRX(d, l) => c = d /\ k = l
         /\ TopRX(c, k) = TopRX(d, l) => c = d /\ k = l
         /\ BottomRX(c, k) # TopRX(d, l)
<1>1. ASSUME NEW dy \in {0, 120}, Register(c, k, Low(c) + dy) = Register(d, l, Low(d) + dy)
      PROVE  c = d /\ k = l
  <2>1. /\ c[1] * 2 + Side(k) = d[1] * 2 + Side(l)
        /\ Low(c) + dy + Row(k) = Low(d) + dy + Row(l)
        /\ Reg(k) = Reg(l)
    BY <1>1 DEF Register
  <2>2. c[1] \in Nat /\ d[1] \in Nat /\ c[2] \in Int /\ d[2] \in Int /\ Boundary \in Int
    BY RowsOfChannel, DeviceAssumption
  <2>3. c[1] = d[1] /\ Side(k) = Side(l)
    <3>1. Side(k) \in 0..1 /\ Side(l) \in 0..1
      BY Places
    <3> QED
      BY <2>1, <2>2, <3>1, EvenAndBit
  <2>4. c[2] = d[2] /\ Row(k) = Row(l)
    <3> DEFINE at(e) == 60 + 120 * Boundary + (e[2] - 180 - 240 * Boundary)
    <3>1. at(c) \in Int /\ at(d) \in Int /\ Low(c) = at(c) * 2 /\ Low(d) = at(d) * 2
      BY <2>2 DEF Low
    <3>2. Row(k) \in 0..1 /\ Row(l) \in 0..1
      BY Places
    <3>3. at(c) * 2 + Row(k) = at(d) * 2 + Row(l)
      <4> HIDE DEF at
      <4> QED
        BY <2>1, <3>1, <3>2
    <3>4. at(c) = at(d) /\ Row(k) = Row(l)
      <4> HIDE DEF at
      <4> QED
        BY <3>1, <3>2, <3>3, EvenAndBit
    <3> QED
      BY <2>2, <3>4
  <2>5. k = l
    BY <2>1, <2>3, <2>4, Places
  <2>6. c = <<c[1], c[2]>> /\ d = <<d[1], d[2]>>
    BY DEF Channels
  <2> QED
    BY <2>3, <2>4, <2>5, <2>6
<1>2. BottomRX(c, k) = BottomRX(d, l) => c = d /\ k = l
  <2>1. Low(c) + 0 = Low(c) /\ Low(d) + 0 = Low(d)
    BY RowsOfChannel
  <2> QED
    BY <1>1, <2>1, RegistersOfChannel
<1>3. TopRX(c, k) = TopRX(d, l) => c = d /\ k = l
  BY <1>1, RegistersOfChannel
<1>4. BottomRX(c, k) # TopRX(d, l)
  <2>1. BottomRX(c, k).y = Low(c) + Row(k) /\ TopRX(d, l).y = Low(d) + 120 + Row(l)
    BY RegistersOfChannel DEF Register
  <2> QED
    BY <2>1, RowsOfChannel, Places, DeviceAssumption
<1> QED
  BY <1>2, <1>3, <1>4

-----------------------------------------------------------------------------
\* The capacity of a channel bounds its upward and downward anchors together.
LEMMA ChannelHasRoom ==
  ASSUME Allocation, NEW c \in Channels
  PROVE  /\ IsFiniteSet(Upward(c)) /\ IsFiniteSet(Downward(c))
         /\ Cardinality(Upward(c)) \in Nat /\ Cardinality(Downward(c)) \in Nat
         /\ Cardinality(Upward(c)) + Cardinality(Downward(c)) <= ChannelWidth
         /\ \A a \in Anchors \ DOMAIN loc :
              phase = "place" /\ assigned[a] = c =>
                Cardinality(Upward(c)) + Cardinality(Downward(c)) < ChannelWidth
<1> DEFINE Here == {a \in Anchors : assigned[a] = c}
           Both == Upward(c) \cup Downward(c)
<1>1. IsFiniteSet(Here)
  BY LoadAssumption, FS_Subset
<1>2. DOMAIN loc \subseteq Anchors
  BY DEF Allocation, TypeOK
<1>3. Upward(c) \in SUBSET Here /\ Downward(c) \in SUBSET Here
  BY <1>2 DEF Upward, Downward
<1>4. IsFiniteSet(Upward(c)) /\ IsFiniteSet(Downward(c)) /\ IsFiniteSet(Both)
  BY <1>1, <1>3, FS_Subset, FS_Union
<1>5. /\ Cardinality(Upward(c)) \in Nat /\ Cardinality(Downward(c)) \in Nat
      /\ Cardinality(Both) \in Nat /\ Cardinality(Here) \in Nat
  BY <1>1, <1>4, FS_CardinalityType
<1>6. Cardinality(Upward(c)) + Cardinality(Downward(c)) = Cardinality(Both)
  <2>1. Upward(c) \cap Downward(c) = {}
    BY DEF Upward, Downward
  <2>2. Cardinality(Both)
          = Cardinality(Upward(c)) + Cardinality(Downward(c)) - Cardinality({})
    BY <1>4, <2>1, FS_Union
  <2> QED
    BY <2>2, <1>5, FS_EmptySet
<1>7. CASE phase = "place"
  <2>1. assigned \in Feasible
    BY <1>7 DEF Allocation, TypeOK
  <2>2. Cardinality(Here) <= Capacity /\ Capacity <= ChannelWidth
        /\ Capacity \in Int /\ ChannelWidth \in Int
    BY <2>1, LoadAssumption, DeviceAssumption DEF Feasible, ChannelWidth
  <2>3. Both \in SUBSET Here
    BY <1>3
  <2>4. Cardinality(Both) <= ChannelWidth
    BY <1>1, <1>5, <2>2, <2>3, FS_Subset
  <2>5. ASSUME NEW a \in Anchors \ DOMAIN loc, assigned[a] = c
        PROVE  Cardinality(Both) < ChannelWidth
    <3>1. a \in Here /\ a \notin Both
      BY <2>5 DEF Upward, Downward
    <3>2. Cardinality(Both) # Cardinality(Here) /\ Cardinality(Both) <= Cardinality(Here)
      BY <1>1, <2>3, <3>1, FS_Subset
    <3> QED
      BY <3>2, <2>2, <1>5
  <2> QED
    BY <1>4, <1>5, <1>6, <2>4, <2>5
<1>8. CASE phase # "place"
  <2>1. Both = {}
    BY <1>8 DEF Allocation, Upward, Downward
  <2> QED
    BY <1>4, <1>5, <1>6, <1>8, <2>1, FS_EmptySet, DeviceAssumption DEF ChannelWidth
<1> QED
  BY <1>7, <1>8

LEMMA AllocationInit == Init => Allocation
<1> SUFFICES ASSUME Init PROVE Allocation
  OBVIOUS
<1>1. ChannelWidth \in Nat
  BY DeviceAssumption DEF ChannelWidth
<1>2. ASSUME NEW c \in Channels
      PROVE  /\ top[c] \in Seq(TopRegisters(c)) /\ bottom[c] \in Seq(BottomRegisters(c))
             /\ Len(top[c]) = ChannelWidth /\ Len(bottom[c]) = ChannelWidth
             /\ \A k \in 1..ChannelWidth : top[c][k] = TopRX(c, k) /\ bottom[c][k] = BottomRX(c, k)
             /\ Cardinality(Upward(c)) = 0 /\ Cardinality(Downward(c)) = 0
  <2>1. top[c] = [k \in 1..ChannelWidth |-> TopRX(c, k)]
        /\ bottom[c] = [k \in 1..ChannelWidth |-> BottomRX(c, k)]
    BY DEF Init
  <2>2. Upward(c) = {} /\ Downward(c) = {}
    BY DEF Init, Upward, Downward
  <2>3. top[c] \in [1..ChannelWidth -> TopRegisters(c)]
        /\ bottom[c] \in [1..ChannelWidth -> BottomRegisters(c)]
    BY <2>1 DEF TopRegisters, BottomRegisters
  <2> QED
    BY <1>1, <2>1, <2>2, <2>3, FS_EmptySet
<1>3. TypeOK
  <2>1. DOMAIN loc = {}
    BY DEF Init
  <2>2. DOMAIN top = Channels /\ DOMAIN bottom = Channels
    BY DEF Init
  <2> QED
    BY <1>2, <2>1, <2>2 DEF Init, TypeOK
<1>4. ListsShrink
  <2> SUFFICES ASSUME NEW c \in Channels
               PROVE  /\ Len(top[c]) + Cardinality(Upward(c)) = ChannelWidth
                      /\ \A k \in 1..Len(top[c]) : top[c][k] = TopRX(c, k)
                      /\ Len(bottom[c]) + Cardinality(Downward(c)) = ChannelWidth
                      /\ \A k \in 1..Len(bottom[c]) :
                           bottom[c][k] = BottomRX(c, k + ChannelWidth - Len(bottom[c]))
    BY DEF ListsShrink
  <2>1. ASSUME NEW k \in 1..ChannelWidth
        PROVE  bottom[c][k] = BottomRX(c, k + ChannelWidth - Len(bottom[c]))
    <3>1. k + ChannelWidth - Len(bottom[c]) = k
      <4>1. k \in Int /\ Len(bottom[c]) = ChannelWidth
        BY <1>1, <1>2
      <4>2. k + ChannelWidth - ChannelWidth = k
        BY <1>1, <4>1
      <4> QED
        BY <4>1, <4>2
    <3> QED
      BY <1>2, <3>1
  <2> QED
    BY <1>1, <1>2, <2>1
<1> QED
  BY <1>3, <1>4 DEF Init, Allocation, EnoughRegisters, AnchorsInEatenParts, OwnRegisters

LEMMA SolveStep ==
  ASSUME Allocation, Solve
  PROVE  Allocation'
<1>1. /\ dir' = dir /\ bottom' = bottom /\ top' = top /\ loc' = loc
      /\ phase = "solve" /\ DOMAIN loc = {} /\ assigned = <<>>
      /\ phase' \in {"place", "AssertionError"}
      /\ IF phase' = "place" THEN assigned' \in Feasible ELSE assigned' = <<>>
  BY DEF Allocation, TypeOK, Solve
<1>2. TypeOK'
  BY <1>1 DEF Allocation, TypeOK, Feasible
<1>3. ListsShrink'
  <2>1. \A c \in Channels : /\ Upward(c) = {} /\ Upward(c)' = {}
                            /\ Downward(c) = {} /\ Downward(c)' = {}
    BY <1>1 DEF Upward, Downward
  <2> QED
    BY <1>1, <2>1 DEF Allocation, ListsShrink
<1> QED
  BY <1>1, <1>2, <1>3 DEF Allocation, EnoughRegisters, AnchorsInEatenParts, OwnRegisters

\* The anchor takes the last register of the list, which nothing else has left.
LEMMA PlaceUpStep ==
  ASSUME Allocation, NEW a \in Anchors, PlaceUp(a)
  PROVE  Allocation'
<1>0. PICK c : c = assigned[a]
  OBVIOUS
<1> DEFINE n == Len(top[c])
<1>1. /\ phase = "place" /\ a \in Anchors \ DOMAIN loc /\ dir[a] = "UP"
      /\ dir' = dir /\ assigned' = assigned /\ bottom' = bottom
  BY DEF PlaceUp
<1>2. assigned \in Feasible /\ c \in Channels /\ ChannelWidth \in Nat
  BY <1>0, <1>1, DeviceAssumption DEF Allocation, TypeOK, Feasible, ChannelWidth
<1>3. /\ n \in Nat /\ n >= 1 /\ n <= ChannelWidth
      /\ n + Cardinality(Upward(c)) = ChannelWidth
      /\ \A k \in 1..n : top[c][k] = TopRX(c, k)
      /\ top[c] \in Seq(TopRegisters(c))
  <2>1. /\ top[c] \in Seq(TopRegisters(c))
        /\ n + Cardinality(Upward(c)) = ChannelWidth
        /\ \A k \in 1..n : top[c][k] = TopRX(c, k)
    BY <1>2 DEF Allocation, TypeOK, ListsShrink
  <2>2. n \in Nat
    BY <2>1
  <2>3. /\ Cardinality(Upward(c)) \in Nat /\ Cardinality(Downward(c)) \in Nat
        /\ Cardinality(Upward(c)) + Cardinality(Downward(c)) < ChannelWidth
    BY <1>0, <1>1, <1>2, ChannelHasRoom
  <2> QED
    BY <1>2, <2>1, <2>2, <2>3
<1>4. top[c] # <<>>
  BY <1>3
<1>5. /\ phase' = phase
      /\ top' = [top EXCEPT ![c] = SubSeq(@, 1, Len(@) - 1)]
      /\ loc' = [b \in DOMAIN loc \cup {a} |-> IF b = a THEN TopRX(c, n) ELSE loc[b]]
  BY <1>0, <1>3, <1>4 DEF PlaceUp, Takes
<1> HIDE DEF n
<1>6. DOMAIN top' = Channels /\ \A d \in Channels \ {c} : top'[d] = top[d]
  BY <1>2, <1>5 DEF Allocation, TypeOK
<1>7. /\ top'[c] \in Seq(TopRegisters(c))
      /\ Len(top'[c]) = n - 1
      /\ \A k \in 1..(n - 1) : top'[c][k] = TopRX(c, k)
  <2>1. top'[c] = SubSeq(top[c], 1, n - 1)
    BY <1>2, <1>5 DEF Allocation, TypeOK, n
  <2>2. \A k \in 1..(n - 1) : top[c][k] \in TopRegisters(c)
    BY <1>3 DEF n
  <2>3. /\ SubSeq(top[c], 1, n - 1) \in Seq(TopRegisters(c))
        /\ Len(SubSeq(top[c], 1, n - 1)) = IF 1 <= n - 1 THEN n - 1 - 1 + 1 ELSE 0
        /\ \A k \in 1..(n - 1 - 1 + 1) : SubSeq(top[c], 1, n - 1)[k] = top[c][1 + k - 1]
    BY <1>3, <2>2, SubSeqProperties
  <2> QED
    BY <1>3, <2>1, <2>3
<1>8. /\ DOMAIN loc' = DOMAIN loc \cup {a}
      /\ loc'[a] = TopRX(c, n)
      /\ \A b \in DOMAIN loc : loc'[b] = loc[b]
  BY <1>1, <1>5
<1>9. n \in 1..ChannelWidth
  BY <1>2, <1>3
<1>10. TypeOK'
  <2>1. \A d \in Channels : /\ top'[d] \in Seq(TopRegisters(d))
                            /\ bottom'[d] \in Seq(BottomRegisters(d))
    BY <1>1, <1>6, <1>7 DEF Allocation, TypeOK
  <2>2. \A b \in DOMAIN loc' :
          loc'[b] \in IF dir'[b] = "UP" THEN TopRegisters(assigned'[b])
                                        ELSE BottomRegisters(assigned'[b])
    BY <1>0, <1>1, <1>8, <1>9 DEF Allocation, TypeOK, TopRegisters
  <2> QED
    BY <1>1, <1>2, <1>5, <1>6, <1>8, <2>1, <2>2 DEF Allocation, TypeOK, Feasible
<1>11. ListsShrink'
  <2>1. ASSUME NEW d \in Channels
        PROVE  /\ Downward(d)' = Downward(d)
               /\ Upward(d)' = IF d = c THEN Upward(d) \cup {a} ELSE Upward(d)
    BY <1>0, <1>1, <1>8 DEF Upward, Downward
  <2>2. Cardinality(Upward(c) \cup {a}) = Cardinality(Upward(c)) + 1
    <3>1. a \notin Upward(c)
      BY <1>1 DEF Upward
    <3> QED
      BY <1>2, <3>1, ChannelHasRoom, FS_AddElement
  <2>3. Cardinality(Upward(c)) \in Nat
    BY <1>2, ChannelHasRoom
  <2>4. Len(top'[c]) + Cardinality(Upward(c)') = ChannelWidth
    <3>1. Cardinality(Upward(c)') = Cardinality(Upward(c)) + 1
      BY <1>2, <2>1, <2>2
    <3> QED
      BY <1>3, <1>7, <2>3, <3>1
  <2>5. \A d \in Channels : Len(top'[d]) + Cardinality(Upward(d)') = ChannelWidth
    BY <1>6, <2>1, <2>4 DEF Allocation, ListsShrink
  <2>6. \A d \in Channels : \A k \in 1..Len(top'[d]) : top'[d][k] = TopRX(d, k)
    BY <1>6, <1>7 DEF Allocation, ListsShrink
  <2>7. \A d \in Channels : Len(bottom'[d]) + Cardinality(Downward(d)') = ChannelWidth
    BY <1>1, <2>1 DEF Allocation, ListsShrink
  <2> QED
    BY <1>1, <2>5, <2>6, <2>7 DEF Allocation, ListsShrink
<1>12. AnchorsInEatenParts'
  <2>1. \E k \in (Len(top'[c]) + 1)..ChannelWidth : loc'[a] = TopRX(c, k)
    BY <1>3, <1>7, <1>8, <1>9
  <2>2. ASSUME NEW b \in DOMAIN loc, dir[b] = "UP"
        PROVE  \E k \in (Len(top'[assigned[b]]) + 1)..ChannelWidth : loc'[b] = TopRX(assigned[b], k)
    <3>1. PICK k \in (Len(top[assigned[b]]) + 1)..ChannelWidth : loc[b] = TopRX(assigned[b], k)
      BY <2>2 DEF Allocation, AnchorsInEatenParts
    <3>2. assigned[b] \in Channels
      BY <1>2 DEF Allocation, TypeOK, Feasible
    <3>3. CASE assigned[b] = c
      BY <1>3, <1>7, <1>8, <3>1, <3>3 DEF n
    <3>4. CASE assigned[b] # c
      BY <1>6, <1>8, <3>1, <3>2, <3>4
    <3> QED
      BY <3>3, <3>4
  <2> QED
    BY <1>0, <1>1, <1>8, <2>1, <2>2 DEF Allocation, AnchorsInEatenParts
<1>13. OwnRegisters'
  <2>1. ASSUME NEW b \in DOMAIN loc
        PROVE  loc[b] # TopRX(c, n)
    <3>1. assigned[b] \in Channels /\ n \in Int
      BY <1>2, <1>3 DEF Allocation, TypeOK, Feasible
    <3>2. CASE dir[b] = "UP"
      <4>1. PICK k \in (Len(top[assigned[b]]) + 1)..ChannelWidth : loc[b] = TopRX(assigned[b], k)
        BY <3>2 DEF Allocation, AnchorsInEatenParts
      <4>2. k \in Int /\ (assigned[b] = c => k # n)
        BY <1>2, <1>3, <4>1 DEF n
      <4> QED
        BY <1>2, <3>1, <4>1, <4>2, OwnSites
    <3>3. CASE dir[b] # "UP"
      <4>1. PICK k \in 1..(ChannelWidth - Len(bottom[assigned[b]])) :
              loc[b] = BottomRX(assigned[b], k)
        BY <3>3 DEF Allocation, AnchorsInEatenParts
      <4> QED
        BY <1>2, <3>1, <4>1, OwnSites
    <3> QED
      BY <3>2, <3>3
  <2> QED
    BY <1>8, <2>1 DEF Allocation, OwnRegisters
<1> QED
  BY <1>1, <1>5, <1>10, <1>11, <1>12, <1>13 DEF Allocation, EnoughRegisters

\* Likewise for the first register of the list of the lower ends.
LEMMA PlaceDownStep ==
  ASSUME Allocation, NEW a \in Anchors, PlaceDown(a)
  PROVE  Allocation'
<1>0. PICK c : c = assigned[a]
  OBVIOUS
<1> DEFINE n == Len(bottom[c])
           first == ChannelWidth - n + 1
<1>1. /\ phase = "place" /\ a \in Anchors \ DOMAIN loc /\ dir[a] = "DOWN"
      /\ dir' = dir /\ assigned' = assigned /\ top' = top
  BY DEF PlaceDown
<1>2. assigned \in Feasible /\ c \in Channels /\ ChannelWidth \in Nat
  BY <1>0, <1>1, DeviceAssumption DEF Allocation, TypeOK, Feasible, ChannelWidth
<1>3. /\ n \in Nat /\ n >= 1 /\ n <= ChannelWidth
      /\ n + Cardinality(Downward(c)) = ChannelWidth
      /\ \A k \in 1..n : bottom[c][k] = BottomRX(c, k + ChannelWidth - n)
      /\ bottom[c] \in Seq(BottomRegisters(c))
  <2>1. /\ bottom[c] \in Seq(BottomRegisters(c))
        /\ n + Cardinality(Downward(c)) = ChannelWidth
        /\ \A k \in 1..n : bottom[c][k] = BottomRX(c, k + ChannelWidth - n)
    BY <1>2 DEF Allocation, TypeOK, ListsShrink
  <2>2. n \in Nat
    BY <2>1
  <2>3. /\ Cardinality(Upward(c)) \in Nat /\ Cardinality(Downward(c)) \in Nat
        /\ Cardinality(Upward(c)) + Cardinality(Downward(c)) < ChannelWidth
    BY <1>0, <1>1, <1>2, ChannelHasRoom
  <2>4. n >= 1 /\ n <= ChannelWidth
    BY <1>2, <2>1, <2>2, <2>3
  <2> HIDE DEF n
  <2> QED
    BY <2>1, <2>2, <2>4, Zenon
<1>4. bottom[c] # <<>>
  BY <1>3
<1>5. /\ phase' = phase
      /\ bottom' = [bottom EXCEPT ![c] = Tail(@)]
      /\ loc' = [b \in DOMAIN loc \cup {a} |-> IF b = a THEN BottomRX(c, first) ELSE loc[b]]
  <2>1. Head(bottom[c]) = bottom[c][1]
    BY <1>3, <1>4
  <2>2. bottom[c][1] = BottomRX(c, 1 + ChannelWidth - n)
    BY <1>3
  <2>3. 1 + ChannelWidth - n = first
    BY <1>2, <1>3
  <2>4. Head(bottom[c]) = BottomRX(c, first)
    BY <2>1, <2>2, <2>3
  <2> HIDE DEF first
  <2> QED
    BY <1>0, <1>4, <2>4 DEF PlaceDown, Takes
<1> HIDE DEF n
<1>6. DOMAIN bottom' = Channels /\ \A d \in Channels \ {c} : bottom'[d] = bottom[d]
  BY <1>2, <1>5 DEF Allocation, TypeOK
<1>7. /\ bottom'[c] \in Seq(BottomRegisters(c))
      /\ Len(bottom'[c]) = n - 1
      /\ \A k \in 1..(n - 1) : bottom'[c][k] = BottomRX(c, k + ChannelWidth - (n - 1))
  <2>1. bottom'[c] = Tail(bottom[c])
    BY <1>2, <1>5 DEF Allocation, TypeOK
  <2>2. /\ Tail(bottom[c]) \in Seq(BottomRegisters(c))
        /\ Len(Tail(bottom[c])) = n - 1
        /\ \A k \in 1..Len(Tail(bottom[c])) : Tail(bottom[c])[k] = bottom[c][k + 1]
    BY <1>3, <1>4, HeadTailProperties DEF n
  <2>3. ASSUME NEW k \in 1..(n - 1)
        PROVE  bottom'[c][k] = BottomRX(c, k + ChannelWidth - (n - 1))
    <3>1. k + 1 \in 1..n /\ k + 1 + ChannelWidth - n = k + ChannelWidth - (n - 1)
      BY <1>2, <1>3
    <3>2. bottom'[c][k] = bottom[c][k + 1]
      BY <2>1, <2>2
    <3> QED
      BY <1>3, <3>1, <3>2
  <2> QED
    BY <2>1, <2>2, <2>3
<1>8. /\ DOMAIN loc' = DOMAIN loc \cup {a}
      /\ loc'[a] = BottomRX(c, first)
      /\ \A b \in DOMAIN loc : loc'[b] = loc[b]
  BY <1>1, <1>5
<1>9. first \in 1..ChannelWidth /\ first = ChannelWidth - Len(bottom'[c])
  BY <1>2, <1>3, <1>7
<1>10. TypeOK'
  <2>1. \A d \in Channels : /\ bottom'[d] \in Seq(BottomRegisters(d))
                            /\ top'[d] \in Seq(TopRegisters(d))
    BY <1>1, <1>6, <1>7 DEF Allocation, TypeOK
  <2>2. \A b \in DOMAIN loc' :
          loc'[b] \in IF dir'[b] = "UP" THEN TopRegisters(assigned'[b])
                                        ELSE BottomRegisters(assigned'[b])
    <3> HIDE DEF first
    <3> QED
      BY <1>0, <1>1, <1>8, <1>9 DEF Allocation, TypeOK, BottomRegisters
  <2> QED
    BY <1>1, <1>2, <1>5, <1>6, <1>8, <2>1, <2>2 DEF Allocation, TypeOK, Feasible
<1>11. ListsShrink'
  <2>1. ASSUME NEW d \in Channels
        PROVE  /\ Upward(d)' = Upward(d)
               /\ Downward(d)' = IF d = c THEN Downward(d) \cup {a} ELSE Downward(d)
    BY <1>0, <1>1, <1>8 DEF Upward, Downward
  <2>2. Cardinality(Downward(c) \cup {a}) = Cardinality(Downward(c)) + 1
    <3>1. a \notin Downward(c)
      BY <1>1 DEF Downward
    <3> QED
      BY <1>2, <3>1, ChannelHasRoom, FS_AddElement
  <2>3. Cardinality(Downward(c)) \in Nat
    BY <1>2, ChannelHasRoom
  <2>4. Len(bottom'[c]) + Cardinality(Downward(c)') = ChannelWidth
    <3>1. Cardinality(Downward(c)') = Cardinality(Downward(c)) + 1
      BY <1>2, <2>1, <2>2
    <3> QED
      BY <1>3, <1>7, <2>3, <3>1
  <2>5. \A d \in Channels : Len(bottom'[d]) + Cardinality(Downward(d)') = ChannelWidth
    BY <1>6, <2>1, <2>4 DEF Allocation, ListsShrink
  <2>6. \A d \in Channels : \A k \in 1..Len(bottom'[d]) :
          bottom'[d][k] = BottomRX(d, k + ChannelWidth - Len(bottom'[d]))
    BY <1>6, <1>7 DEF Allocation, ListsShrink
  <2>7. \A d \in Channels : Len(top'[d]) + Cardinality(Upward(d)') = ChannelWidth
    BY <1>1, <2>1 DEF Allocation, ListsShrink
  <2> QED
    BY <1>1, <2>5, <2>6, <2>7 DEF Allocation, ListsShrink
<1>12. AnchorsInEatenParts'
  <2>1. \E k \in 1..(ChannelWidth - Len(bottom'[c])) : loc'[a] = BottomRX(c, k)
    BY <1>8, <1>9
  <2>2. ASSUME NEW b \in DOMAIN loc, dir[b] # "UP"
        PROVE  \E k \in 1..(ChannelWidth - Len(bottom'[assigned[b]])) :
                 loc'[b] = BottomRX(assigned[b], k)
    <3>1. PICK k \in 1..(ChannelWidth - Len(bottom[assigned[b]])) :
            loc[b] = BottomRX(assigned[b], k)
      BY <2>2 DEF Allocation, AnchorsInEatenParts
    <3>2. assigned[b] \in Channels
      BY <1>2 DEF Allocation, TypeOK, Feasible
    <3>3. CASE assigned[b] = c
      BY <1>2, <1>3, <1>7, <1>8, <3>1, <3>3 DEF n
    <3>4. CASE assigned[b] # c
      BY <1>6, <1>8, <3>1, <3>2, <3>4
    <3> QED
      BY <3>3, <3>4
  <2> HIDE DEF first
  <2> QED
    BY <1>0, <1>1, <1>8, <2>1, <2>2 DEF Allocation, AnchorsInEatenParts
<1>13. OwnRegisters'
  <2>1. ASSUME NEW b \in DOMAIN loc
        PROVE  loc[b] # BottomRX(c, first)
    <3>1. assigned[b] \in Channels /\ first \in Int
      BY <1>2, <1>9 DEF Allocation, TypeOK, Feasible
    <3>2. CASE dir[b] # "UP"
      <4>1. PICK k \in 1..(ChannelWidth - Len(bottom[assigned[b]])) :
              loc[b] = BottomRX(assigned[b], k)
        BY <3>2 DEF Allocation, AnchorsInEatenParts
      <4>2. k \in Int
        BY <4>1
      <4>3. CASE assigned[b] # c
        BY <1>2, <3>1, <4>1, <4>2, <4>3, OwnSites
      <4>4. CASE assigned[b] = c
        <5>1. n = Len(bottom[c]) /\ k <= ChannelWidth - n
          BY <4>1, <4>4 DEF n
        <5>2. k # first
          BY <1>2, <1>3, <4>2, <5>1
        <5> QED
          BY <1>2, <3>1, <4>1, <4>2, <5>2, OwnSites
      <4> QED
        BY <4>3, <4>4
    <3>3. CASE dir[b] = "UP"
      <4>1. PICK k \in (Len(top[assigned[b]]) + 1)..ChannelWidth : loc[b] = TopRX(assigned[b], k)
        BY <3>3 DEF Allocation, AnchorsInEatenParts
      <4>2. k \in Int
        BY <4>1
      <4> QED
        BY <1>2, <3>1, <4>1, <4>2, OwnSites
    <3> QED
      BY <3>2, <3>3
  <2> QED
    BY <1>8, <2>1 DEF Allocation, OwnRegisters
<1> QED
  BY <1>1, <1>5, <1>10, <1>11, <1>12, <1>13 DEF Allocation, EnoughRegisters

LEMMA AllocationStep == Allocation /\ [Next]_vars => Allocation'
<1> SUFFICES ASSUME Allocation, [Next]_vars
             PROVE  Allocation'
  OBVIOUS
<1>1. CASE Solve
  BY <1>1, SolveStep
<1>2. ASSUME NEW a \in Anchors, PlaceUp(a)
      PROVE  Allocation'
  BY <1>2, PlaceUpStep
<1>3. ASSUME NEW a \in Anchors, PlaceDown(a)
      PROVE  Allocation'
  BY <1>3, PlaceDownStep
<1>4. CASE UNCHANGED vars
  BY <1>4 DEF vars, Allocation, TypeOK, EnoughRegisters, ListsShrink, AnchorsInEatenParts,
              OwnRegisters, Upward, Downward, Feasible
<1> QED
  BY <1>1, <1>2, <1>3, <1>4 DEF Next

-----------------------------------------------------------------------------
\* The lists of each channel are eaten from opposite ends by its anchors
\* (SLLChannel.placeAnchor), in every reachable state.
THEOREM Eaten == Spec => []Allocation
  BY AllocationInit, AllocationStep, PTL DEF Spec

\* Type correctness of the placement of the anchors of an SLR crossing.
THEOREM TypeCorrect == Spec => []TypeOK
<1>1. Allocation => TypeOK
  BY DEF Allocation
<1> QED
  BY <1>1, Eaten, PTL

\* pop() never meets an empty list: the capacity of a channel, which the ILP
\* respects, is at most the length of each of its lists.
THEOREM NeverEmpty == Spec => []EnoughRegisters
<1>1. Allocation => EnoughRegisters
  BY DEF Allocation
<1> QED
  BY <1>1, Eaten, PTL

\* No SLL is taken twice, in the same or in opposite directions: the anchors of a
\* channel are fewer than its SLLs, so those that go up and those that go down
\* do not meet.
THEOREM NoSharedSLL == Spec => []OneAnchorPerSLL
<1>1. Allocation => OneAnchorPerSLL
  <2> SUFFICES ASSUME Allocation, NEW a \in DOMAIN loc, NEW b \in DOMAIN loc, a # b
               PROVE  loc[a] \notin {loc[b], PairingTX(loc[b])}
    BY DEF OneAnchorPerSLL
  <2>1. loc[a] # loc[b]
    BY DEF Allocation, OwnRegisters
  <2>2. PICK c, d : c = assigned[a] /\ d = assigned[b]
    OBVIOUS
  <2>3. c \in Channels /\ d \in Channels /\ ChannelWidth \in Int
    BY <2>2, DeviceAssumption DEF Allocation, TypeOK, Feasible, ChannelWidth, EnoughRegisters
  <2>4. dir[a] = "UP" => \E k \in (Len(top[c]) + 1)..ChannelWidth : loc[a] = TopRX(c, k)
    BY <2>2 DEF Allocation, AnchorsInEatenParts
  <2>5. dir[a] # "UP" => \E k \in 1..(ChannelWidth - Len(bottom[c])) : loc[a] = BottomRX(c, k)
    BY <2>2 DEF Allocation, AnchorsInEatenParts
  <2>6. dir[b] = "UP" => \E k \in (Len(top[d]) + 1)..ChannelWidth : loc[b] = TopRX(d, k)
    BY <2>2 DEF Allocation, AnchorsInEatenParts
  <2>7. dir[b] # "UP" => \E k \in 1..(ChannelWidth - Len(bottom[d])) : loc[b] = BottomRX(d, k)
    BY <2>2 DEF Allocation, AnchorsInEatenParts
  <2>8. ASSUME NEW e \in Channels
        PROVE  /\ Len(top[e]) \in Nat /\ Len(bottom[e]) \in Nat
               /\ ChannelWidth - Len(bottom[e]) < Len(top[e]) + 1
    <3>1. Len(top[e]) \in Nat /\ Len(bottom[e]) \in Nat
      BY DEF Allocation, TypeOK
    <3>2. /\ Len(top[e]) + Cardinality(Upward(e)) = ChannelWidth
          /\ Len(bottom[e]) + Cardinality(Downward(e)) = ChannelWidth
      BY DEF Allocation, ListsShrink
    <3>3. /\ Cardinality(Upward(e)) \in Nat /\ Cardinality(Downward(e)) \in Nat
          /\ Cardinality(Upward(e)) + Cardinality(Downward(e)) <= ChannelWidth
      BY ChannelHasRoom
    <3> QED
      BY <2>3, <3>1, <3>2, <3>3
  <2>9. CASE dir[a] = "UP" /\ dir[b] = "UP"
    <3>1. PICK k \in (Len(top[c]) + 1)..ChannelWidth : loc[a] = TopRX(c, k)
      BY <2>4, <2>9
    <3>2. PICK l \in (Len(top[d]) + 1)..ChannelWidth : loc[b] = TopRX(d, l)
      BY <2>6, <2>9
    <3> QED
      BY <2>1, <2>3, <3>1, <3>2, PairedEnds, OwnSites
  <2>10. CASE dir[a] = "UP" /\ dir[b] # "UP"
    <3>1. PICK k \in (Len(top[c]) + 1)..ChannelWidth : loc[a] = TopRX(c, k)
      BY <2>4, <2>10
    <3>2. PICK l \in 1..(ChannelWidth - Len(bottom[d])) : loc[b] = BottomRX(d, l)
      BY <2>7, <2>10
    <3>3. k \in Int /\ l \in Int /\ ~(c = d /\ k = l)
      BY <2>3, <2>8, <3>1, <3>2
    <3> QED
      BY <2>1, <2>3, <3>1, <3>2, <3>3, PairedEnds, OwnSites
  <2>11. CASE dir[a] # "UP" /\ dir[b] = "UP"
    <3>1. PICK k \in 1..(ChannelWidth - Len(bottom[c])) : loc[a] = BottomRX(c, k)
      BY <2>5, <2>11
    <3>2. PICK l \in (Len(top[d]) + 1)..ChannelWidth : loc[b] = TopRX(d, l)
      BY <2>6, <2>11
    <3>3. k \in Int /\ l \in Int /\ ~(c = d /\ k = l)
      BY <2>3, <2>8, <3>1, <3>2
    <3> QED
      BY <2>1, <2>3, <3>1, <3>2, <3>3, PairedEnds, OwnSites
  <2>12. CASE dir[a] # "UP" /\ dir[b] # "UP"
    <3>1. PICK k \in 1..(ChannelWidth - Len(bottom[c])) : loc[a] = BottomRX(c, k)
      BY <2>5, <2>12
    <3>2. PICK l \in 1..(ChannelWidth - Len(bottom[d])) : loc[b] = BottomRX(d, l)
      BY <2>7, <2>12
    <3> QED
      BY <2>1, <2>3, <3>1, <3>2, PairedEnds, OwnSites
  <2> QED
    BY <2>9, <2>10, <2>11, <2>12
<1> QED
  BY <1>1, Eaten, PTL

\* The two ends of the SLLs of a channel lie in the two SLRs of the boundary.
LEMMA SlrsOfEnds ==
  ASSUME NEW c \in Channels, NEW k \in Int
  PROVE  SlrIndex(BottomRX(c, k)) = Boundary /\ SlrIndex(TopRX(c, k)) = Boundary + 1
<1> DEFINE low == Low(c) + Row(k)
<1>1. low \in Int /\ low >= 120 + 240 * Boundary /\ low <= 239 + 240 * Boundary
  <2>1. Row(k) \in 0..1 /\ Boundary \in 0..2
    BY Places, DeviceAssumption
  <2>2. Low(c) \in Int /\ Low(c) >= 120 + 240 * Boundary /\ Low(c) <= 238 + 240 * Boundary
    BY RowsOfChannel
  <2> QED
    BY <2>1, <2>2
<1>2. BottomRX(c, k).y = low /\ TopRX(c, k).y = low + 120
  <2>1. Low(c) + 120 + Row(k) = low + 120
    BY Places, RowsOfChannel
  <2> QED
    BY <2>1, RegistersOfChannel DEF Register
<1> HIDE DEF low
<1>3. CASE Boundary = 0
  BY <1>1, <1>2, <1>3 DEF SlrIndex
<1>4. CASE Boundary = 1
  BY <1>1, <1>2, <1>4 DEF SlrIndex
<1>5. CASE Boundary = 2
  BY <1>1, <1>2, <1>5 DEF SlrIndex
<1> QED
  BY <1>3, <1>4, <1>5, DeviceAssumption

\* Every anchor is received in the SLR its signal travels to and driven from the
\* other one, on every boundary and row (_get_nearest_laguna_y, get_pairing_laguna_TX).
THEOREM CrossesAsItShould == Spec => []CrossesInItsDirection
<1>1. Allocation => CrossesInItsDirection
  <2> SUFFICES ASSUME Allocation, NEW a \in DOMAIN loc
               PROVE  LET from == IF dir[a] = "UP" THEN Boundary ELSE Boundary + 1
                      IN  /\ SlrIndex(PairingTX(loc[a])) = from
                          /\ SlrIndex(loc[a]) = 2 * Boundary + 1 - from
    BY DEF CrossesInItsDirection
  <2>1. PICK c : c = assigned[a]
    OBVIOUS
  <2>2. c \in Channels /\ Boundary \in Int
    BY <2>1, DeviceAssumption DEF Allocation, TypeOK, Feasible, EnoughRegisters
  <2>3. CASE dir[a] = "UP"
    <3>1. PICK k \in (Len(top[c]) + 1)..ChannelWidth : loc[a] = TopRX(c, k)
      BY <2>1, <2>3 DEF Allocation, AnchorsInEatenParts
    <3>2. k \in Int
      OBVIOUS
    <3>3. SlrIndex(loc[a]) = Boundary + 1 /\ SlrIndex(PairingTX(loc[a])) = Boundary
      BY <2>2, <3>1, <3>2, SlrsOfEnds, PairedEnds
    <3> QED
      BY <2>2, <2>3, <3>3
  <2>4. CASE dir[a] # "UP"
    <3>1. PICK k \in 1..(ChannelWidth - Len(bottom[c])) : loc[a] = BottomRX(c, k)
      BY <2>1, <2>4 DEF Allocation, AnchorsInEatenParts
    <3>2. k \in Int
      OBVIOUS
    <3>3. SlrIndex(loc[a]) = Boundary /\ SlrIndex(PairingTX(loc[a])) = Boundary + 1
      BY <2>2, <3>1, <3>2, SlrsOfEnds, PairedEnds
    <3> QED
      BY <2>2, <2>4, <3>3
  <2> QED
    BY <2>3, <2>4
<1> QED
  BY <1>1, Eaten, PTL
=============================================================================
