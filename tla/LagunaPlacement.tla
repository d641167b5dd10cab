-------------------------- MODULE LagunaPlacement --------------------------
(***************************************************************************)
(* Anchors of a pair of slots that lie in two SLRs are placed on Laguna    *)
(* receive registers (RX) at the ends of the super long lines (SLLs).  An  *)
(* SLL joins two Laguna sites that are 120 rows apart and can be used in   *)
(* one direction only.                                                     *)
(*                                                                         *)
(* The SLLs are grouped in channels.  An ILP assigns each anchor a channel *)
(* of limited capacity; then each anchor takes a register from one of the  *)
(* channel's two lists: the list at the top if its signal travels up, the  *)
(* list at the bottom if it travels down.  Nothing else keeps an upward    *)
(* and a downward anchor from meeting on the two ends of one SLL.          *)
(***************************************************************************)
EXTENDS Integers, Sequences, FiniteSets

CONSTANTS
  Anchors,      \* common anchors of the two slots
  Columns,      \* indices of the Laguna columns between the slots
  Boundary,     \* the SLRs are Boundary and Boundary + 1 (0, 1 or 2)
  Rows,         \* offsets of sll_bottom_y_range, all of 0..59
  RegsPerSite,  \* RX registers of a Laguna site (6)
  Capacity      \* SLLChannel.capacity (20)

ChannelWidth == 4 * RegsPerSite   \* SLLs of a channel

ASSUME DeviceAssumption ==
  /\ Columns \subseteq Nat
  /\ Boundary \in 0..2
  /\ Rows \subseteq 0..59
  /\ RegsPerSite \in Nat

ASSUME LoadAssumption ==
  /\ IsFiniteSet(Anchors)
  /\ Capacity \in 0..ChannelWidth

(***************************************************************************)
(* Registers of a channel.  A register is [x, y, reg]; the two SLICE rows  *)
(* of a channel are 60 apart.                                              *)
(***************************************************************************)
Channels == Columns \X {180 + 240 * Boundary + r : r \in Rows}

\* _get_nearest_laguna_y; a SLICE row stands for two Laguna rows.
LagunaY(sliceY) ==
  CASE sliceY \in 180..299 -> (sliceY - 180) * 2 + 120
    [] sliceY \in 420..539 -> (sliceY - 420) * 2 + 360
    [] sliceY \in 660..779 -> (sliceY - 660) * 2 + 600

\* The list goes through the four sites first and through their registers last.
RX(column, sliceY, k) ==
  [x   |-> column * 2 + ((k - 1) % 4) \div 2,
   y   |-> LagunaY(sliceY) + ((k - 1) % 2),
   reg |-> (k - 1) \div 4]

BottomRX(c, k) == RX(c[1], c[2], k)
\* Faulty variant: an SLL is 59 SLICE rows high.
TopRXTooLow(c, k) == RX(c[1], c[2] + 59, k)
TopRX(c, k)    == RX(c[1], c[2] + 60, k)

\* get_ith_slr_boundary; 3 stands for None
SlrBoundary(y) ==
  CASE y \in 120..359 -> 0 [] y \in 360..599 -> 1 [] y \in 600..839 -> 2
    [] OTHER -> 3

\* The transmit register at the other end of the SLL of a receive register.
PairingTX(rx) ==
  IF SlrBoundary(rx.y) = SlrBoundary(rx.y + 120)
    THEN [rx EXCEPT !.y = @ + 120] ELSE [rx EXCEPT !.y = @ - 120]

\* getSLRIndexOfLaguna
SlrIndex(r) ==
  CASE r.y \in 120..239 -> 0
    [] r.y \in 240..479 -> 1
    [] r.y \in 480..719 -> 2
    [] r.y \in 720..839 -> 3

-----------------------------------------------------------------------------
VARIABLES
  dir,       \* [Anchors -> {"UP", "DOWN"}], anchor_2_sll_dir
  assigned,  \* [Anchors -> Channels], the result of the ILP, once solved
  bottom,    \* [Channels -> Seq(registers)], bottom_laguna_RX
  top,       \* [Channels -> Seq(registers)], top_laguna_RX
  loc,       \* anchor_to_laguna_reg, a function on the anchors placed so far
  phase      \* "solve" | "place" | "AssertionError" | "IndexError"

vars == <<dir, assigned, bottom, top, loc, phase>>

\* Faulty variant: both lists are made for the lower ends.
InitBottomTwice ==
  /\ dir \in [Anchors -> {"UP", "DOWN"}]
  /\ assigned = <<>>
  /\ bottom = [c \in Channels |-> [k \in 1..ChannelWidth |-> BottomRX(c, k)]]
  /\ top = bottom
  /\ loc = <<>>
  /\ phase = "solve"
Init ==
  /\ dir \in [Anchors -> {"UP", "DOWN"}]
  /\ assigned = <<>>
  /\ bottom = [c \in Channels |-> [k \in 1..ChannelWidth |-> BottomRX(c, k)]]
  /\ top = [c \in Channels |-> [k \in 1..ChannelWidth |-> TopRX(c, k)]]
  /\ loc = <<>>
  /\ phase = "solve"

\* Faulty variant: the ILP has no capacities.
FeasibleUnlimited == [Anchors -> Channels]

\* The constraints of the ILP: each anchor in one channel, channels not too full.
Feasible ==
  {f \in [Anchors -> Channels] :
     \A c \in Channels : Cardinality({a \in Anchors : f[a] = c}) <= Capacity}

\* The solver returns any feasible assignment (an optimal one); without a
\* feasible one the script stops.
Solve ==
  /\ phase = "solve"
  /\ IF Feasible = {}
       THEN /\ phase' = "AssertionError"
            /\ UNCHANGED assigned
       ELSE /\ assigned' \in Feasible
            /\ phase' = "place"
  /\ UNCHANGED <<dir, bottom, top, loc>>

\* An anchor, in the arbitrary order of the set shared_anchors, takes a register
\* of its channel; pop on an empty list would raise an IndexError.
Takes(a, register) ==
  loc' = [b \in DOMAIN loc \cup {a} |-> IF b = a THEN register ELSE loc[b]]

\* Faulty variant: upward anchors take the first register of their list, too.
PlaceUpFromBelow(a) ==
  LET c == assigned[a]
  IN  /\ phase = "place" /\ a \in Anchors \ DOMAIN loc /\ dir[a] = "UP"
      /\ IF top[c] = <<>>
           THEN phase' = "IndexError" /\ UNCHANGED <<top, loc>>
           ELSE /\ Takes(a, Head(top[c]))
                /\ top' = [top EXCEPT ![c] = Tail(@)]
                /\ UNCHANGED phase
      /\ UNCHANGED <<dir, assigned, bottom>>

\* top_laguna_RX.pop()
PlaceUp(a) ==
  LET c == assigned[a]
  IN  /\ phase = "place" /\ a \in Anchors \ DOMAIN loc /\ dir[a] = "UP"
      /\ IF top[c] = <<>>
           THEN phase' = "IndexError" /\ UNCHANGED <<top, loc>>
           ELSE /\ Takes(a, top[c][Len(top[c])])
                /\ top' = [top EXCEPT ![c] = SubSeq(@, 1, Len(@) - 1)]
                /\ UNCHANGED phase
      /\ UNCHANGED <<dir, assigned, bottom>>

\* bottom_laguna_RX.pop(0)
PlaceDown(a) ==
  LET c == assigned[a]
  IN  /\ phase = "place" /\ a \in Anchors \ DOMAIN loc /\ dir[a] = "DOWN"
      /\ IF bottom[c] = <<>>
           THEN phase' = "IndexError" /\ UNCHANGED <<bottom, loc>>
           ELSE /\ Takes(a, Head(bottom[c]))
                /\ bottom' = [bottom EXCEPT ![c] = Tail(@)]
                /\ UNCHANGED phase
      /\ UNCHANGED <<dir, assigned, top>>

Next == Solve \/ \E a \in Anchors : PlaceUp(a) \/ PlaceDown(a)
Spec == Init /\ [][Next]_vars

-----------------------------------------------------------------------------
BottomRegisters(c) == {BottomRX(c, k) : k \in 1..ChannelWidth}
TopRegisters(c)    == {TopRX(c, k) : k \in 1..ChannelWidth}

TypeOK ==
  /\ dir \in [Anchors -> {"UP", "DOWN"}]
  /\ IF phase \in {"place", "IndexError"} THEN assigned \in Feasible ELSE assigned = <<>>
  /\ DOMAIN top = Channels /\ DOMAIN bottom = Channels
  /\ \A c \in Channels : /\ top[c] \in Seq(TopRegisters(c))
                         /\ bottom[c] \in Seq(BottomRegisters(c))
  /\ DOMAIN loc \subseteq Anchors
  /\ \A a \in DOMAIN loc :
       loc[a] \in IF dir[a] = "UP" THEN TopRegisters(assigned[a])
                                   ELSE BottomRegisters(assigned[a])
  /\ phase \in {"solve", "place", "AssertionError", "IndexError"}

\* "each SLL is only used by one anchor register": no two anchors get the same
\* register, and no anchor sits on the end of an SLL through which another one is
\* driven.  It takes both directions in one channel, and a full one, to go wrong.
OneAnchorPerSLL ==
  \A a, b \in DOMAIN loc : a # b => loc[a] \notin {loc[b], PairingTX(loc[b])}

\* The signal of an anchor crosses the SLRs in its direction: it is received in
\* the SLR it travels to and driven, by the paired register, in the other one.
CrossesInItsDirection ==
  \A a \in DOMAIN loc :
    LET from == IF dir[a] = "UP" THEN Boundary ELSE Boundary + 1
    IN  /\ SlrIndex(PairingTX(loc[a])) = from
        /\ SlrIndex(loc[a]) = 2 * Boundary + 1 - from

\* No anchor finds the list of its channel empty.
EnoughRegisters == phase # "IndexError"

(***************************************************************************)
(* The two lists of a channel are eaten from opposite ends, one entry for  *)
(* each anchor of its direction; the eaten parts hold the anchors.  As the *)
(* capacity bounds both parts together, they cannot overlap.               *)
(***************************************************************************)
Upward(c)   == {a \in DOMAIN loc : assigned[a] = c /\ dir[a] = "UP"}
Downward(c) == {a \in DOMAIN loc : assigned[a] = c /\ dir[a] = "DOWN"}

ListsShrink ==
  \A c \in Channels :
    /\ Len(top[c]) + Cardinality(Upward(c)) = ChannelWidth
    /\ \A k \in 1..Len(top[c]) : top[c][k] = TopRX(c, k)
    /\ Len(bottom[c]) + Cardinality(Downward(c)) = ChannelWidth
    /\ \A k \in 1..Len(bottom[c]) :
         bottom[c][k] = BottomRX(c, k + ChannelWidth - Len(bottom[c]))

AnchorsInEatenParts ==
  \A a \in DOMAIN loc :
    IF dir[a] = "UP"
      THEN \E k \in (Len(top[assigned[a]]) + 1)..ChannelWidth :
             loc[a] = TopRX(assigned[a], k)
      ELSE \E k \in 1..(ChannelWidth - Len(bottom[assigned[a]])) :
             loc[a] = BottomRX(assigned[a], k)

OwnRegisters == \A a, b \in DOMAIN loc : a # b => loc[a] # loc[b]

Allocation ==
  /\ TypeOK /\ EnoughRegisters
  /\ phase # "place" => DOMAIN loc = {}
  /\ ListsShrink
  /\ AnchorsInEatenParts
  /\ OwnRegisters
=============================================================================
