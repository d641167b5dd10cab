-------------------------- MODULE CtrlTree_proofs ---------------------------
(***************************************************************************)
(* Theorems about CtrlTree, for every set of slots that passes the         *)
(* assertion of the code, every number of kernels and every pipeline style.*)
(***************************************************************************)
EXTENDS CtrlTree, WellFoundedInduction, TLAPS

(***************************************************************************)
(* The grid.                                                               *)
(***************************************************************************)
LEMMA Smallest ==
  ASSUME NEW T \in SUBSET Nat, T # {}
  PROVE  \E n \in T : \A m \in T : ~ (m < n)
<1>1. PICK n \in T : \A m \in T : ~ (<<m, n>> \in OpToRel(<, Nat))
  BY WFMin, NatLessThanWellFounded
<1>2. \A m \in T : ~ (m < n)
  BY <1>1 DEF OpToRel
<1> QED
  BY <1>2

\* Slots are pairs of integers.
LEMMA Positions ==
  ASSUME NEW s \in Slots
  PROVE  /\ s[1] \in Int /\ s[2] \in Int /\ s = <<s[1], s[2]>>
         /\ Root[1] \in Int /\ Root[2] \in Int /\ Root = <<Root[1], Root[2]>>
BY GridAssumption

\* Each active slot off the root's row is reached by a column of active slots.
LEMMA ColumnUp ==
  ASSUME NEW t \in Slots, NEW y \in Int, Root[2] <= y, y <= t[2]
  PROVE  <<t[1], y>> \in Slots
<1> DEFINE T == {n \in Nat : n <= t[2] - Root[2] /\ <<t[1], t[2] - n>> \notin Slots}
<1>1. t[1] \in Int /\ t[2] \in Int /\ t = <<t[1], t[2]>> /\ Root[2] \in Int /\ Root[1] \in Int
  BY Positions
<1>2. SUFFICES T = {}
  <2>1. t[2] - y \in Nat /\ t[2] - y <= t[2] - Root[2] /\ t[2] - (t[2] - y) = y
    BY <1>1
  <2> QED
    BY <2>1, <1>2
<1>3. SUFFICES ASSUME T # {} PROVE FALSE
  OBVIOUS
<1>4. PICK n \in T : \A m \in T : ~ (m < n)
  BY <1>3, Smallest
<1>5. n # 0
  BY <1>1, <1>4
<1>6. n - 1 \in Nat /\ n - 1 < n /\ n - 1 <= t[2] - Root[2]
  BY <1>1, <1>4, <1>5
<1>7. <<t[1], t[2] - (n - 1)>> \in Slots
  BY <1>4, <1>6
<1> DEFINE u == <<t[1], t[2] - (n - 1)>>
<1>8. u[2] > Root[2] /\ u \in Others
  BY <1>1, <1>4, <1>6, <1>7 DEF Others
<1>9. Parent(u) = <<t[1], t[2] - n>>
  BY <1>1, <1>8, <1>4 DEF Parent, SourceDir, InRootRow, Neighbor
<1> QED
  BY <1>8, <1>9, <1>4, GridAssumption

LEMMA ColumnDown ==
  ASSUME NEW t \in Slots, NEW y \in Int, t[2] <= y, y <= Root[2]
  PROVE  <<t[1], y>> \in Slots
<1> DEFINE T == {n \in Nat : n <= Root[2] - t[2] /\ <<t[1], t[2] + n>> \notin Slots}
<1>1. t[1] \in Int /\ t[2] \in Int /\ t = <<t[1], t[2]>> /\ Root[2] \in Int /\ Root[1] \in Int
  BY Positions
<1>2. SUFFICES T = {}
  <2>1. y - t[2] \in Nat /\ y - t[2] <= Root[2] - t[2] /\ t[2] + (y - t[2]) = y
    BY <1>1
  <2> QED
    BY <2>1, <1>2
<1>3. SUFFICES ASSUME T # {} PROVE FALSE
  OBVIOUS
<1>4. PICK n \in T : \A m \in T : ~ (m < n)
  BY <1>3, Smallest
<1>5. n # 0
  BY <1>1, <1>4
<1>6. n - 1 \in Nat /\ n - 1 < n /\ n - 1 <= Root[2] - t[2]
  BY <1>1, <1>4, <1>5
<1>7. <<t[1], t[2] + (n - 1)>> \in Slots
  BY <1>4, <1>6
<1> DEFINE u == <<t[1], t[2] + (n - 1)>>
<1>8. u[2] < Root[2] /\ u \in Others
  BY <1>1, <1>4, <1>6, <1>7 DEF Others
<1>9. Parent(u) = <<t[1], t[2] + n>>
  BY <1>1, <1>8, <1>4 DEF Parent, SourceDir, InRootRow, Neighbor
<1> QED
  BY <1>8, <1>9, <1>4, GridAssumption

\* Each slot of the root's row is reached along the row.
LEMMA RowRight ==
  ASSUME NEW t \in Slots, InRootRow(t), NEW x \in Int, Root[1] <= x, x <= t[1]
  PROVE  <<x, t[2]>> \in Slots
<1> DEFINE T == {n \in Nat : n <= t[1] - Root[1] /\ <<t[1] - n, t[2]>> \notin Slots}
<1>1. t[1] \in Int /\ t[2] \in Int /\ t = <<t[1], t[2]>> /\ Root[2] \in Int /\ Root[1] \in Int
  BY Positions
<1>2. SUFFICES T = {}
  <2>1. t[1] - x \in Nat /\ t[1] - x <= t[1] - Root[1] /\ t[1] - (t[1] - x) = x
    BY <1>1
  <2> QED
    BY <2>1, <1>2
<1>3. SUFFICES ASSUME T # {} PROVE FALSE
  OBVIOUS
<1>4. PICK n \in T : \A m \in T : ~ (m < n)
  BY <1>3, Smallest
<1>5. n # 0
  BY <1>1, <1>4
<1>6. n - 1 \in Nat /\ n - 1 < n /\ n - 1 <= t[1] - Root[1]
  BY <1>1, <1>4, <1>5
<1>7. <<t[1] - (n - 1), t[2]>> \in Slots
  BY <1>4, <1>6
<1> DEFINE u == <<t[1] - (n - 1), t[2]>>
<1>8. u[1] > Root[1] /\ u \in Others
  BY <1>1, <1>4, <1>6, <1>7 DEF Others
<1>9. Parent(u) = <<t[1] - n, t[2]>>
  BY <1>1, <1>8, <1>4 DEF Parent, SourceDir, InRootRow, Neighbor
<1> QED
  BY <1>8, <1>9, <1>4, GridAssumption

LEMMA RowLeft ==
  ASSUME NEW t \in Slots, InRootRow(t), NEW x \in Int, t[1] <= x, x <= Root[1]
  PROVE  <<x, t[2]>> \in Slots
<1> DEFINE T == {n \in Nat : n <= Root[1] - t[1] /\ <<t[1] + n, t[2]>> \notin Slots}
<1>1. t[1] \in Int /\ t[2] \in Int /\ t = <<t[1], t[2]>> /\ Root[2] \in Int /\ Root[1] \in Int
  BY Positions
<1>2. SUFFICES T = {}
  <2>1. x - t[1] \in Nat /\ x - t[1] <= Root[1] - t[1] /\ t[1] + (x - t[1]) = x
    BY <1>1
  <2> QED
    BY <2>1, <1>2
<1>3. SUFFICES ASSUME T # {} PROVE FALSE
  OBVIOUS
<1>4. PICK n \in T : \A m \in T : ~ (m < n)
  BY <1>3, Smallest
<1>5. n # 0
  BY <1>1, <1>4
<1>6. n - 1 \in Nat /\ n - 1 < n /\ n - 1 <= Root[1] - t[1]
  BY <1>1, <1>4, <1>5
<1>7. <<t[1] + (n - 1), t[2]>> \in Slots
  BY <1>4, <1>6
<1> DEFINE u == <<t[1] + (n - 1), t[2]>>
<1>8. u[1] < Root[1] /\ u \in Others
  BY <1>1, <1>4, <1>6, <1>7 DEF Others
<1>9. Parent(u) = <<t[1] + n, t[2]>>
  BY <1>1, <1>8, <1>4 DEF Parent, SourceDir, InRootRow, Neighbor
<1> QED
  BY <1>8, <1>9, <1>4, GridAssumption

LEMMA Neighbors ==
  ASSUME NEW s
  PROVE  /\ Neighbor(s, "UP") = <<s[1], s[2] + 1>>
         /\ Neighbor(s, "DOWN") = <<s[1], s[2] - 1>>
         /\ Neighbor(s, "RIGHT") = <<s[1] + 1, s[2]>>
         /\ Neighbor(s, "LEFT") = <<s[1] - 1, s[2]>>
BY DEF Neighbor

\* Parents and children by their positions.
LEMMA ParentAt ==
  ASSUME NEW x \in Int, NEW y \in Int
  PROVE  Parent(<<x, y>>) =
           IF y = Root[2] THEN IF x < Root[1] THEN <<x + 1, y>> ELSE <<x - 1, y>>
                          ELSE IF y < Root[2] THEN <<x, y + 1>> ELSE <<x, y - 1>>
<1> DEFINE s == <<x, y>>
<1>1. s[1] = x /\ s[2] = y
  OBVIOUS
<1> HIDE DEF s
<1>2. CASE y = Root[2] /\ x < Root[1]
  <2>1. SourceDir(s) = "RIGHT"
    BY <1>1, <1>2 DEF SourceDir, InRootRow
  <2>2. Parent(s) = <<x + 1, y>>
    BY <1>1, <2>1, Neighbors DEF Parent
  <2> QED
    BY <1>2, <2>2 DEF s
<1>3. CASE y = Root[2] /\ ~(x < Root[1])
  <2>1. SourceDir(s) = "LEFT"
    BY <1>1, <1>3 DEF SourceDir, InRootRow
  <2>2. Parent(s) = <<x - 1, y>>
    BY <1>1, <2>1, Neighbors DEF Parent
  <2> QED
    BY <1>3, <2>2 DEF s
<1>4. CASE y # Root[2] /\ y < Root[2]
  <2>1. SourceDir(s) = "UP"
    BY <1>1, <1>4 DEF SourceDir, InRootRow
  <2>2. Parent(s) = <<x, y + 1>>
    BY <1>1, <2>1, Neighbors DEF Parent
  <2> QED
    BY <1>4, <2>2 DEF s
<1>5. CASE y # Root[2] /\ ~(y < Root[2])
  <2>1. SourceDir(s) = "DOWN"
    BY <1>1, <1>5 DEF SourceDir, InRootRow
  <2>2. Parent(s) = <<x, y - 1>>
    BY <1>1, <2>1, Neighbors DEF Parent
  <2> QED
    BY <1>5, <2>2 DEF s
<1> QED
  BY <1>2, <1>3, <1>4, <1>5

LEMMA FanoutAt ==
  ASSUME NEW x \in Int, NEW y \in Int, <<x, y>> \in Slots, NEW dir
  PROVE  dir \in FanoutDir(<<x, y>>) <=>
           /\ Neighbor(<<x, y>>, dir) \in Slots
           /\ \/ dir = "UP"    /\ y >= Root[2]
              \/ dir = "DOWN"  /\ y <= Root[2]
              \/ dir = "RIGHT" /\ y = Root[2] /\ x >= Root[1]
              \/ dir = "LEFT"  /\ y = Root[2] /\ x <= Root[1]
<1> DEFINE s == <<x, y>>
<1>1. s[1] = x /\ s[2] = y /\ s \in Slots
  OBVIOUS
<1>2. Root[1] \in Int /\ Root[2] \in Int /\ (s = Root <=> x = Root[1] /\ y = Root[2])
  BY Positions
<1> HIDE DEF s
<1>3. CASE s = Root
  BY <1>1, <1>2, <1>3 DEF FanoutDir, Directions, s
<1>4. CASE s # Root /\ y = Root[2] /\ x < Root[1]
  <2>1. SourceDir(s) = "RIGHT"
    BY <1>1, <1>4 DEF SourceDir, InRootRow
  <2> QED
    BY <1>1, <1>2, <1>4, <2>1 DEF FanoutDir, Directions, InRootRow, s
<1>5. CASE s # Root /\ y = Root[2] /\ x > Root[1]
  <2>1. SourceDir(s) = "LEFT"
    BY <1>1, <1>2, <1>5 DEF SourceDir, InRootRow
  <2> QED
    BY <1>1, <1>2, <1>5, <2>1 DEF FanoutDir, Directions, InRootRow, s
<1>6. CASE y < Root[2]
  BY <1>1, <1>2, <1>6 DEF FanoutDir, InRootRow, s
<1>7. CASE y > Root[2]
  BY <1>1, <1>2, <1>7 DEF FanoutDir, InRootRow, s
<1> QED
  BY <1>2, <1>3, <1>4, <1>5, <1>6, <1>7

\* A slot takes its control signals from s exactly if s sends them its way: the
\* input of one wrapper and the output of the other have the same name.
THEOREM WiresMeet ==
  ASSUME NEW s \in Slots, NEW t \in Slots
  PROVE  t \in Children(s) <=> t # Root /\ s = Parent(t)
<1>1. PICK sx \in Int, sy \in Int : s = <<sx, sy>>
  BY Positions
<1>2. PICK tx \in Int, ty \in Int : t = <<tx, ty>>
  BY Positions
<1>3. Root[1] \in Int /\ Root[2] \in Int /\ Root = <<Root[1], Root[2]>>
  BY Positions
<1> DEFINE rx == Root[1]
           ry == Root[2]
<1>4. t \in Children(s) <=>
        \/ tx = sx /\ ty = sy + 1 /\ sy >= ry
        \/ tx = sx /\ ty = sy - 1 /\ sy <= ry
        \/ tx = sx + 1 /\ ty = sy /\ sy = ry /\ sx >= rx
        \/ tx = sx - 1 /\ ty = sy /\ sy = ry /\ sx <= rx
  <2> DEFINE Fans(dir) == dir \in FanoutDir(s) /\ t = Neighbor(s, dir)
  <2>1. t \in Children(s) <=> \E dir : Fans(dir)
    BY DEF Children
  <2>2. ASSUME NEW dir, Fans(dir) PROVE dir \in {"UP", "DOWN", "RIGHT", "LEFT"}
    BY <1>1, <2>2, FanoutAt
  <2>3. Fans("UP") <=> tx = sx /\ ty = sy + 1 /\ sy >= ry
    <3>1. Neighbor(s, "UP") = <<sx, sy + 1>>
      BY <1>1, Neighbors
    <3> QED
      BY <1>1, <1>2, <3>1, FanoutAt
  <2>4. Fans("DOWN") <=> tx = sx /\ ty = sy - 1 /\ sy <= ry
    <3>1. Neighbor(s, "DOWN") = <<sx, sy - 1>>
      BY <1>1, Neighbors
    <3> QED
      BY <1>1, <1>2, <3>1, FanoutAt
  <2>5. Fans("RIGHT") <=> tx = sx + 1 /\ ty = sy /\ sy = ry /\ sx >= rx
    <3>1. Neighbor(s, "RIGHT") = <<sx + 1, sy>>
      BY <1>1, Neighbors
    <3> QED
      BY <1>1, <1>2, <3>1, FanoutAt
  <2>6. Fans("LEFT") <=> tx = sx - 1 /\ ty = sy /\ sy = ry /\ sx <= rx
    <3>1. Neighbor(s, "LEFT") = <<sx - 1, sy>>
      BY <1>1, Neighbors
    <3> QED
      BY <1>1, <1>2, <3>1, FanoutAt
  <2> HIDE DEF Fans
  <2> QED
    BY <2>1, <2>2, <2>3, <2>4, <2>5, <2>6
<1>5. s = Parent(t) <=>
        \/ ty = ry /\ tx < rx /\ sx = tx + 1 /\ sy = ty
        \/ ty = ry /\ ~(tx < rx) /\ sx = tx - 1 /\ sy = ty
        \/ ty < ry /\ sx = tx /\ sy = ty + 1
        \/ ty > ry /\ sx = tx /\ sy = ty - 1
  <2>1. Parent(t) = IF ty = ry THEN IF tx < rx THEN <<tx + 1, ty>> ELSE <<tx - 1, ty>>
                               ELSE IF ty < ry THEN <<tx, ty + 1>> ELSE <<tx, ty - 1>>
    BY <1>2, ParentAt
  <2> QED
    BY <1>1, <1>3, <2>1
<1>6. t = Root <=> tx = rx /\ ty = ry
  BY <1>2, <1>3
<1> HIDE DEF rx, ry
<1> QED
  BY <1>3, <1>4, <1>5, <1>6 DEF rx, ry

LEMMA SubtreeAt ==
  ASSUME NEW x \in Int, NEW y \in Int, <<x, y>> \in Slots,
         NEW tx \in Int, NEW ty \in Int, <<tx, ty>> \in Slots
  PROVE  <<tx, ty>> \in Subtree(<<x, y>>) <=>
           \/ x = Root[1] /\ y = Root[2]
           \/ y = Root[2] /\ x < Root[1] /\ tx <= x
           \/ y = Root[2] /\ x > Root[1] /\ tx >= x
           \/ y < Root[2] /\ tx = x /\ ty <= y
           \/ y > Root[2] /\ tx = x /\ ty >= y
<1> DEFINE s == <<x, y>>
           t == <<tx, ty>>
<1>1. s[1] = x /\ s[2] = y /\ t[1] = tx /\ t[2] = ty /\ t \in Slots
  OBVIOUS
<1>2. Root[1] \in Int /\ Root[2] \in Int /\ (s = Root <=> x = Root[1] /\ y = Root[2])
  BY Positions
<1> HIDE DEF s, t
<1>3. t \in Subtree(s) <=>
        IF s = Root THEN TRUE
        ELSE IF y = Root[2] THEN IF x < Root[1] THEN tx <= x ELSE tx >= x
        ELSE tx = x /\ IF y < Root[2] THEN ty <= y ELSE ty >= y
  BY <1>1 DEF Subtree, InRootRow
<1>4. t \in Subtree(s) <=>
        \/ x = Root[1] /\ y = Root[2]
        \/ y = Root[2] /\ x < Root[1] /\ tx <= x
        \/ y = Root[2] /\ x > Root[1] /\ tx >= x
        \/ y < Root[2] /\ tx = x /\ ty <= y
        \/ y > Root[2] /\ tx = x /\ ty >= y
  BY <1>2, <1>3
<1> QED
  BY <1>4 DEF s, t

\* Every slot of a subtree other than its top is in the subtree of a child.
LEMMA SubtreeOfChild ==
  ASSUME NEW s \in Slots, NEW t \in Subtree(s), t # s
  PROVE  \E c \in Children(s) : c \in Others /\ t \in Subtree(c)
<1> DEFINE rx == Root[1]
           ry == Root[2]
<1>0. t \in Slots
  BY DEF Subtree
<1>1. PICK sx \in Int, sy \in Int : s = <<sx, sy>>
  BY Positions
<1>2. PICK tx \in Int, ty \in Int : t = <<tx, ty>>
  BY <1>0, Positions
<1>3. rx \in Int /\ ry \in Int /\ Root = <<rx, ry>>
  BY Positions
<1>4. tx # sx \/ ty # sy
  BY <1>1, <1>2
<1>5. \/ sx = rx /\ sy = ry
      \/ sy = ry /\ sx < rx /\ tx <= sx
      \/ sy = ry /\ sx > rx /\ tx >= sx
      \/ sy < ry /\ tx = sx /\ ty <= sy
      \/ sy > ry /\ tx = sx /\ ty >= sy
  BY <1>0, <1>1, <1>2, SubtreeAt
\* Columns lead to t, and the row to the foot of its column.
<1>6. ASSUME NEW y \in Int, (ry <= y /\ y <= ty) \/ (ty <= y /\ y <= ry)
      PROVE  <<tx, y>> \in Slots
  BY <1>0, <1>2, <1>6, ColumnUp, ColumnDown
<1>7. ASSUME NEW x \in Int, (rx <= x /\ x <= tx) \/ (tx <= x /\ x <= rx)
      PROVE  <<x, ry>> \in Slots
  <2> DEFINE foot == <<tx, ry>>
  <2>1. foot \in Slots
    BY <1>3, <1>6
  <2>2. foot[1] = tx /\ foot[2] = ry /\ InRootRow(foot)
    BY DEF InRootRow
  <2> HIDE DEF foot
  <2> QED
    BY <1>7, <2>1, <2>2, RowRight, RowLeft
<1>8. ASSUME NEW cx \in Int, NEW cy \in Int, <<cx, cy>> \in Slots,
             \/ cy = ry /\ cx < rx /\ sx = cx + 1 /\ sy = cy /\ tx <= cx
             \/ cy = ry /\ cx > rx /\ sx = cx - 1 /\ sy = cy /\ tx >= cx
             \/ cy < ry /\ sx = cx /\ sy = cy + 1 /\ tx = cx /\ ty <= cy
             \/ cy > ry /\ sx = cx /\ sy = cy - 1 /\ tx = cx /\ ty >= cy
      PROVE  \E c \in Children(s) : c \in Others /\ t \in Subtree(c)
  <2> DEFINE c == <<cx, cy>>
  <2>1. c # Root
    BY <1>3, <1>8
  <2>2. Parent(c) = <<sx, sy>>
    <3>1. Parent(c) = IF cy = ry THEN IF cx < rx THEN <<cx + 1, cy>> ELSE <<cx - 1, cy>>
                                 ELSE IF cy < ry THEN <<cx, cy + 1>> ELSE <<cx, cy - 1>>
      BY ParentAt
    <3> HIDE DEF c
    <3> QED
      BY <1>3, <1>8, <3>1
  <2>3. t \in Subtree(c)
    BY <1>0, <1>2, <1>3, <1>8, SubtreeAt
  <2>4. c \in Children(s) /\ c \in Others
    BY <1>1, <1>8, <2>1, <2>2, WiresMeet DEF Others
  <2> QED
    BY <2>3, <2>4
<1> HIDE DEF rx, ry
<1>9. CASE sy >= ry /\ tx = sx /\ ty > sy
  <2>1. sy + 1 \in Int /\ <<tx, sy + 1>> \in Slots
    BY <1>3, <1>6, <1>9
  <2> QED
    BY <1>3, <1>8, <1>9, <2>1
<1>10. CASE sy <= ry /\ tx = sx /\ ty < sy
  <2>1. sy - 1 \in Int /\ <<tx, sy - 1>> \in Slots
    BY <1>3, <1>6, <1>10
  <2> QED
    BY <1>3, <1>8, <1>10, <2>1
<1>11. CASE sy = ry /\ sx >= rx /\ tx > sx
  <2>1. sx + 1 \in Int /\ <<sx + 1, ry>> \in Slots
    BY <1>3, <1>7, <1>11
  <2> QED
    BY <1>3, <1>8, <1>11, <2>1
<1>12. CASE sy = ry /\ sx <= rx /\ tx < sx
  <2>1. sx - 1 \in Int /\ <<sx - 1, ry>> \in Slots
    BY <1>3, <1>7, <1>12
  <2> QED
    BY <1>3, <1>8, <1>12, <2>1
<1> QED
  BY <1>3, <1>4, <1>5, <1>9, <1>10, <1>11, <1>12

(***************************************************************************)
(* Registers in a row.                                                     *)
(***************************************************************************)
LEMMA Lengths ==
  /\ OutLength \in Nat /\ OutLength >= 3
  /\ \A s \in Others : BackLength(s) \in Nat /\ BackLength(s) >= 1
BY DEF OutLength, BackLength, BetweenSlots

LEMMA ShiftedLine ==
  ASSUME NEW n \in Nat, NEW line \in Line(n), NEW in \in BOOLEAN
  PROVE  /\ Shift(line, in) \in Line(n)
         /\ \A i \in 1..n : Shift(line, in)[i] => in \/ \E j \in 1..n : line[j]
         /\ line = Low(n) /\ ~in => Shift(line, in) = Low(n)
<1>1. DOMAIN line = 1..n /\ \A i \in 1..n : line[i] \in BOOLEAN
  BY DEF Line
<1>2. \A i \in 1..n : i # 1 => i - 1 \in 1..n
  OBVIOUS
<1>3. \A i \in 1..n : Shift(line, in)[i] = IF i = 1 THEN in ELSE line[i - 1]
  BY <1>1 DEF Shift
<1>4. Shift(line, in) \in Line(n)
  BY <1>1, <1>2 DEF Shift, Line
<1>5. \A i \in 1..n : Shift(line, in)[i] => in \/ \E j \in 1..n : line[j]
  BY <1>2, <1>3
<1>6. ASSUME line = Low(n), ~in PROVE Shift(line, in) = Low(n)
  <2>1. \A i \in 1..n : line[i] = FALSE
    BY <1>6 DEF Low
  <2>2. \A i \in 1..n : Shift(line, in)[i] = FALSE
    BY <1>2, <1>3, <1>6, <2>1
  <2> QED
    BY <1>1, <2>2 DEF Shift, Low
<1> QED
  BY <1>4, <1>5, <1>6

LEMMA LowLine ==
  ASSUME NEW n \in Nat
  PROVE  Low(n) \in Line(n) /\ \A i \in 1..n : Low(n)[i] = FALSE
BY DEF Low, Line

LEMMA LowStays ==
  ASSUME NEW n \in Nat
  PROVE  Shift(Low(n), FALSE) = Low(n)
<1>1. Low(n) \in Line(n)
  BY LowLine
<1> QED
  BY <1>1, ShiftedLine

(***************************************************************************)
(* Type correctness.                                                       *)
(***************************************************************************)
LEMMA Bounds == ResetCycles \in Nat /\ ResetCycles > 0 /\ MaxRuns \in Nat
BY ConstantsAssumption

LEMMA SignalTypes ==
  ASSUME TypeOK
  PROVE  /\ \A s \in Slots : SlotStart(s) \in BOOLEAN /\ SlotRstN(s) \in BOOLEAN
         /\ \A s \in Slots : SlotDone(s) \in BOOLEAN
         /\ ApDoneFinal \in BOOLEAN /\ InReset(Root) \in BOOLEAN
<1>1. \A s \in Slots : SlotStart(s) \in BOOLEAN /\ SlotRstN(s) \in BOOLEAN
  <2>1. OutLength \in 1..OutLength
    BY Lengths
  <2>2. \A s \in Others : start[s] \in Line(OutLength) /\ rst_n[s] \in Line(OutLength)
    BY DEF TypeOK
  <2>3. \A s \in Others : start[s][OutLength] \in BOOLEAN /\ rst_n[s][OutLength] \in BOOLEAN
    BY <2>1, <2>2 DEF Line
  <2>4. \A s \in Slots : s = Root \/ s \in Others
    BY DEF Others
  <2>5. ap_start_orig \in BOOLEAN
    BY DEF TypeOK
  <2> QED
    BY <2>3, <2>4, <2>5 DEF SlotStart, SlotRstN, ap_rst_n
<1>2. InReset(Root) \in BOOLEAN
  BY GridAssumption DEF TypeOK, InReset, Line
<1> QED
  BY <1>1, <1>2 DEF SlotDone, ApDoneFinal

LEMMA TypeInit == Init => TypeOK
<1> SUFFICES ASSUME Init PROVE TypeOK
  OBVIOUS
<1>1. \A s \in Others : BackLength(s) \in Nat
  BY Lengths
<1>2. OutLength \in Nat
  BY Lengths
<1>3. Low(3) \in Line(3) /\ Low(OutLength) \in Line(OutLength)
  BY <1>2, LowLine
<1>4. \A s \in Others : Low(BackLength(s)) \in Line(BackLength(s))
  BY <1>1, LowLine
<1>5. /\ host \in {"idle", "waiting"} /\ runs \in 0..MaxRuns /\ fresh \in BOOLEAN
      /\ resetLeft \in 0..ResetCycles
      /\ ap_start_orig \in BOOLEAN /\ int_ap_done \in BOOLEAN
  <2>1. 0 \in 0..MaxRuns /\ ResetCycles \in 0..ResetCycles
    BY Bounds
  <2>2. /\ host = "idle" /\ runs = 0 /\ fresh = TRUE
        /\ resetLeft = ResetCycles
        /\ ap_start_orig = FALSE /\ int_ap_done = FALSE
    BY DEF Init
  <2> QED
    BY <2>1, <2>2
<1>6. /\ start \in [Others -> Line(OutLength)] /\ rst_n \in [Others -> Line(OutLength)]
      /\ ap_start_p \in [Slots -> Line(3)] /\ ap_rst_p \in [Slots -> Line(3)]
  BY <1>3 DEF Init
<1>7. /\ kernel \in [Kernels -> {"idle", "running", "done"}]
      /\ ap_done_p \in [Kernels -> Line(3)] /\ backup \in [Kernels -> BOOLEAN]
      /\ ap_done_reg_ \in [Slots -> BOOLEAN]
      /\ held \in [Others -> BOOLEAN]
      /\ finished \subseteq Kernels
  BY <1>3 DEF Init
<1>8. DOMAIN done = Others /\ \A s \in Others : done[s] \in Line(BackLength(s))
  BY <1>4 DEF Init
<1> QED
  BY <1>5, <1>6, <1>7, <1>8 DEF TypeOK

LEMMA TypeControl ==
  ASSUME TypeOK, StartRun \/ ReadDone \/ NoAccess \/ AssertReset \/ KeepReset
  PROVE  /\ (host \in {"idle", "waiting"} /\ runs \in 0..MaxRuns /\ fresh \in BOOLEAN)'
         /\ (resetLeft \in 0..ResetCycles)'
         /\ (ap_start_orig \in BOOLEAN /\ int_ap_done \in BOOLEAN)'
<1>1. (ap_start_orig \in BOOLEAN /\ int_ap_done \in BOOLEAN)'
  BY DEF StartRun, ReadDone, NoAccess, AssertReset, KeepReset, SAxiControl
<1>2. host \in {"idle", "waiting"} /\ runs \in 0..MaxRuns /\ fresh \in BOOLEAN
      /\ resetLeft \in 0..ResetCycles
  BY DEF TypeOK
<1>3. CASE StartRun
  <2>1. runs + 1 \in 0..MaxRuns
    BY <1>2, <1>3, Bounds DEF StartRun
  <2> QED
    BY <1>1, <1>2, <1>3, <2>1 DEF StartRun
<1>4. CASE ReadDone
  BY <1>1, <1>2, <1>4 DEF ReadDone
<1>5. CASE NoAccess
  BY <1>1, <1>2, <1>5 DEF NoAccess
<1>6. CASE AssertReset
  BY <1>1, <1>2, <1>6, Bounds DEF AssertReset
<1>7. CASE KeepReset
  <2>1. resetLeft # 0
    BY <1>7 DEF KeepReset, ap_rst_n
  <2>2. resetLeft - 1 \in 0..ResetCycles
    BY <1>2, <2>1, Bounds
  <2> QED
    BY <1>1, <1>2, <1>7, <2>2 DEF KeepReset
<1> QED
  BY <1>3, <1>4, <1>5, <1>6, <1>7

LEMMA TypeCycle ==
  ASSUME TypeOK, Cycle
  PROVE  /\ (start \in [Others -> Line(OutLength)] /\ rst_n \in [Others -> Line(OutLength)])'
         /\ (ap_start_p \in [Slots -> Line(3)] /\ ap_rst_p \in [Slots -> Line(3)])'
         /\ (kernel \in [Kernels -> {"idle", "running", "done"}])'
         /\ (ap_done_p \in [Kernels -> Line(3)] /\ backup \in [Kernels -> BOOLEAN])'
         /\ (ap_done_reg_ \in [Slots -> BOOLEAN])'
         /\ (DOMAIN done = Others /\ \A s \in Others : done[s] \in Line(BackLength(s)))'
         /\ (held \in [Others -> BOOLEAN])'
         /\ (finished \subseteq Kernels)'
<1>0. \A s \in Others : s \in Slots /\ Parent(s) \in Slots
  BY GridAssumption DEF Others
<1>1. (start \in [Others -> Line(OutLength)] /\ rst_n \in [Others -> Line(OutLength)])'
  <2>1. \A s \in Others : /\ Shift(start[s], SlotStart(Parent(s))) \in Line(OutLength)
                          /\ Shift(rst_n[s], SlotRstN(Parent(s))) \in Line(OutLength)
    BY <1>0, Lengths, SignalTypes, ShiftedLine DEF TypeOK
  <2> QED
    BY <2>1 DEF Cycle, SendOutward
<1>2. (ap_start_p \in [Slots -> Line(3)] /\ ap_rst_p \in [Slots -> Line(3)])'
  <2>1. \A s \in Slots : /\ Shift(ap_start_p[s], SlotStart(s)) \in Line(3)
                         /\ Shift(ap_rst_p[s], ~SlotRstN(s)) \in Line(3)
    BY SignalTypes, ShiftedLine DEF TypeOK
  <2> QED
    BY <2>1 DEF Cycle, SendOutward
<1>3. (kernel \in [Kernels -> {"idle", "running", "done"}])' /\ (finished \subseteq Kernels)'
  BY DEF Cycle, RunKernels, TypeOK
<1>4. (ap_done_p \in [Kernels -> Line(3)])'
  <2>1. \A k \in Kernels : Shift(ap_done_p[k], kernel[k] = "done") \in Line(3)
    BY ShiftedLine DEF TypeOK
  <2> QED
    BY <2>1 DEF Cycle, JoinKernels
<1>5. (backup \in [Kernels -> BOOLEAN] /\ ap_done_reg_ \in [Slots -> BOOLEAN])'
  <2>1. \A k \in Kernels : ap_done_p[k][3] \in BOOLEAN
    BY DEF TypeOK, Line
  <2> QED
    BY <2>1 DEF Cycle, JoinKernels
<1>6. (DOMAIN done = Others /\ \A s \in Others : done[s] \in Line(BackLength(s)))'
  <2>1. \A s \in Others :
          Shift(done[s], SlotDone(s) /\ \A c \in Children(s) : held[c]) \in Line(BackLength(s))
    BY Lengths, ShiftedLine DEF TypeOK
  <2> QED
    BY <2>1 DEF Cycle, SendBack
<1>7. (held \in [Others -> BOOLEAN])'
  BY DEF Cycle, SendBack
<1> QED
  BY <1>1, <1>2, <1>3, <1>4, <1>5, <1>6, <1>7

LEMMA TypeNext == TypeOK /\ [Next]_vars => TypeOK'
<1> SUFFICES ASSUME TypeOK, [Next]_vars PROVE TypeOK'
  OBVIOUS
<1>1. CASE UNCHANGED vars
  BY <1>1 DEF TypeOK, vars, control, outward, inside
<1>2. CASE Next
  <2>1. Cycle /\ (StartRun \/ ReadDone \/ NoAccess \/ AssertReset \/ KeepReset)
    BY <1>2 DEF Next
  <2> QED
    BY <2>1, TypeControl, TypeCycle DEF TypeOK
<1> QED
  BY <1>1, <1>2

\* TypeOK of every reachable state.
THEOREM TypeCorrect == Spec => []TypeOK
BY TypeInit, TypeNext, PTL DEF Spec

(***************************************************************************)
(* The first run.  Earned is inductive: a register on the way back goes    *)
(* high only if the one before it was, and a slot sends its own ap_done    *)
(* only together with those of all its children.                           *)
(***************************************************************************)
\* A slot that is done and hears that its children are, speaks for its subtree.
LEMMA SpeaksForSubtree ==
  ASSUME SlotsEarned, BackEarned,
         NEW s \in Slots, SlotDone(s), \A c \in Children(s) : held[c],
         NEW k \in Kernels, SlotOf[k] \in Subtree(s)
  PROVE  k \in finished
<1>1. CASE SlotOf[k] = s
  <2>1. k \in KernelsIn(s)
    BY <1>1 DEF KernelsIn
  <2>2. ap_done_reg_[s]
    BY <2>1 DEF SlotDone
  <2> QED
    BY <2>1, <2>2 DEF SlotsEarned
<1>2. CASE SlotOf[k] # s
  <2>1. PICK c \in Children(s) : c \in Others /\ SlotOf[k] \in Subtree(c)
    BY <1>2, SubtreeOfChild
  <2> QED
    BY <2>1 DEF BackEarned
<1> QED
  BY <1>1, <1>2

LEMMA EarnedInit == Init => Earned
<1> SUFFICES ASSUME Init PROVE Earned
  OBVIOUS
<1>1. NothingStarted
  BY DEF Init, NothingStarted
<1>2. KernelsEarned
  <2>1. \A k \in Kernels : \A i \in 1..3 : ap_done_p[k][i] = FALSE
    BY LowLine DEF Init
  <2>2. \A k \in Kernels : kernel[k] = "idle" /\ backup[k] = FALSE
    BY DEF Init
  <2> QED
    BY <2>1, <2>2 DEF KernelsEarned
<1>3. SlotsEarned
  BY DEF Init, SlotsEarned
<1>4. BackEarned
  <2>1. \A s \in Others : \A i \in 1..BackLength(s) : done[s][i] = FALSE
    BY Lengths, LowLine DEF Init
  <2>2. \A s \in Others : held[s] = FALSE
    BY DEF Init
  <2> QED
    BY <2>1, <2>2 DEF BackEarned
<1> QED
  BY <1>1, <1>2, <1>3, <1>4 DEF Earned

\* How the number of runs and the history of ended kernels change.
LEMMA RunsNext ==
  ASSUME TypeOK, Earned, Next, runs' <= 1
  PROVE  /\ runs <= 1 /\ finished \subseteq finished'
         /\ runs' = 0 => runs = 0 /\ ~StartRun
<1>1. runs \in Nat
  BY Bounds DEF TypeOK
<1>2. CASE StartRun
  <2>1. runs' = runs + 1
    BY <1>2 DEF StartRun
  <2>2. runs = 0
    BY <1>1, <2>1
  <2>3. finished = {}
    BY <2>2 DEF Earned, NothingStarted
  <2> QED
    BY <1>1, <2>1, <2>2, <2>3
<1>3. CASE ~StartRun
  <2>1. runs' = runs /\ ~(host = "idle" /\ host' = "waiting")
    BY <1>3 DEF Next, ReadDone, NoAccess, AssertReset, KeepReset
  <2>2. finished \subseteq finished'
    BY <2>1 DEF Next, Cycle, RunKernels
  <2> QED
    BY <1>3, <2>1, <2>2
<1> QED
  BY <1>2, <1>3

LEMMA StartNext ==
  ASSUME TypeOK, NothingStarted, Next, ~StartRun
  PROVE  NothingStarted'
<1>0. Cycle /\ (SAxiControl(FALSE, FALSE) \/ SAxiControl(FALSE, TRUE))
  BY DEF Next, ReadDone, NoAccess, AssertReset, KeepReset
<1>1. ~ap_start_orig'
  BY <1>0 DEF SAxiControl, NothingStarted
<1>2. \A s \in Slots : SlotStart(s) = FALSE
  <2>1. OutLength \in 1..OutLength
    BY Lengths
  <2>2. \A s \in Others : start[s][OutLength] = FALSE
    BY <2>1, Lengths, LowLine DEF NothingStarted
  <2>3. ap_start_orig = FALSE
    BY DEF NothingStarted, TypeOK
  <2> QED
    BY <2>2, <2>3 DEF SlotStart, Others
<1>3. \A s \in Others : start'[s] = Low(OutLength)
  <2>1. \A s \in Others : s \in Slots /\ Parent(s) \in Slots
    BY GridAssumption DEF Others
  <2>2. Shift(Low(OutLength), FALSE) = Low(OutLength)
    BY Lengths, LowStays
  <2>3. \A s \in Others : Shift(start[s], FALSE) = Low(OutLength)
    BY <2>2 DEF NothingStarted
  <2> QED
    BY <1>0, <1>2, <2>1, <2>3 DEF Cycle, SendOutward
<1>4. \A s \in Slots : ap_start_p'[s] = Low(3)
  <2>1. \A s \in Slots : Shift(ap_start_p[s], FALSE) = Low(3)
    <3>1. Shift(Low(3), FALSE) = Low(3)
      BY LowStays
    <3> QED
      BY <3>1 DEF NothingStarted
  <2> QED
    BY <1>0, <1>2, <2>1 DEF Cycle, SendOutward
<1>5. \A k \in Kernels : kernel'[k] = "idle"
  <2>1. \A k \in Kernels : ap_start_p[SlotOf[k]][3] = FALSE
    <3>1. Low(3)[3] = FALSE
      BY DEF Low
    <3> QED
      BY <3>1, ConstantsAssumption DEF NothingStarted
  <2>2. \A k \in Kernels : KernelNext(k) = {"idle"}
    BY <2>1 DEF KernelNext, NothingStarted
  <2> QED
    BY <1>0, <2>2 DEF Cycle, RunKernels
<1>6. finished' = {}
  BY <1>0, <1>5 DEF Cycle, RunKernels, NothingStarted
<1> QED
  BY <1>1, <1>3, <1>4, <1>5, <1>6 DEF NothingStarted

LEMMA KernelsNext ==
  ASSUME TypeOK, KernelsEarned, Cycle, finished \subseteq finished'
  PROVE  KernelsEarned' /\ SlotsEarned'
<1>1. ASSUME NEW k \in Kernels, kernel'[k] = "done" PROVE k \in finished'
  BY <1>1 DEF Cycle, RunKernels
<1>2. ASSUME NEW k \in Kernels, NEW i \in 1..3, ap_done_p'[k][i] PROVE k \in finished'
  <2>1. Shift(ap_done_p[k], kernel[k] = "done")[i]
    BY <1>2 DEF Cycle, JoinKernels
  <2>2. ap_done_p[k] \in Line(3)
    BY DEF TypeOK
  <2>3. kernel[k] = "done" \/ \E j \in 1..3 : ap_done_p[k][j]
    BY <2>1, <2>2, ShiftedLine
  <2> QED
    BY <2>3 DEF KernelsEarned
<1>3. ASSUME NEW k \in Kernels, backup'[k] PROVE k \in finished'
  <2>1. ap_done_p[k][3] \/ backup[k]
    BY <1>3 DEF Cycle, JoinKernels
  <2>2. 3 \in 1..3
    OBVIOUS
  <2> QED
    BY <2>1, <2>2 DEF KernelsEarned
<1>4. SlotsEarned'
  BY DEF Cycle, JoinKernels, KernelsEarned, SlotsEarned, KernelsIn
<1> QED
  BY <1>1, <1>2, <1>3, <1>4 DEF KernelsEarned

LEMMA BackNext ==
  ASSUME TypeOK, SlotsEarned, BackEarned, Cycle, finished \subseteq finished'
  PROVE  BackEarned'
<1> SUFFICES ASSUME NEW s \in Others, NEW k \in Kernels, SlotOf[k] \in Subtree(s),
                    held'[s] \/ \E i \in 1..BackLength(s) : done'[s][i]
             PROVE  k \in finished
  BY DEF BackEarned
<1>1. BackLength(s) \in 1..BackLength(s) /\ BackLength(s) \in Nat
  BY Lengths
<1>2. CASE held'[s]
  <2>1. held[s] \/ done[s][BackLength(s)]
    BY <1>2 DEF Cycle, SendBack
  <2> QED
    BY <1>1, <2>1 DEF BackEarned
<1>3. ASSUME NEW i \in 1..BackLength(s), done'[s][i] PROVE k \in finished
  <2> DEFINE in == SlotDone(s) /\ \A c \in Children(s) : held[c]
  <2>1. Shift(done[s], in)[i]
    BY <1>3 DEF Cycle, SendBack
  <2>2. done[s] \in Line(BackLength(s)) /\ in \in BOOLEAN
    BY DEF TypeOK
  <2>3. in \/ \E j \in 1..BackLength(s) : done[s][j]
    <3> HIDE DEF in
    <3> QED
      BY <1>1, <1>3, <2>1, <2>2, ShiftedLine
  <2>4. CASE in
    BY <2>4, SpeaksForSubtree DEF Others
  <2>5. CASE \E j \in 1..BackLength(s) : done[s][j]
    BY <2>5 DEF BackEarned
  <2> QED
    BY <2>3, <2>4, <2>5
<1> QED
  BY <1>2, <1>3

LEMMA EarnedNext == TypeOK /\ Earned /\ [Next]_vars => Earned'
<1> SUFFICES ASSUME TypeOK, Earned, [Next]_vars PROVE Earned'
  OBVIOUS
<1>1. CASE UNCHANGED vars
  BY <1>1 DEF Earned, NothingStarted, KernelsEarned, SlotsEarned, BackEarned,
              vars, control, outward, inside
<1>2. CASE Next
  <2>1. ASSUME runs' = 0 PROVE NothingStarted'
    BY <1>2, <2>1, RunsNext, StartNext DEF Earned
  <2>2. ASSUME runs' <= 1 PROVE (KernelsEarned /\ SlotsEarned /\ BackEarned)'
    BY <1>2, <2>2, RunsNext, KernelsNext, BackNext DEF Earned, Next
  <2> QED
    BY <2>1, <2>2 DEF Earned
<1> QED
  BY <1>1, <1>2

\* In the first run each high register on the way back stands for kernels that
\* have all ended: proved for every grid, every kernel count and pipeline style.
THEOREM EarnedHolds == Spec => []Earned
BY TypeInit, TypeNext, EarnedInit, EarnedNext, PTL DEF Spec

LEMMA RootSpeaks == TypeOK /\ Earned => FirstRunComplete
<1> SUFFICES ASSUME TypeOK, Earned, runs <= 1, ApDoneFinal PROVE finished = Kernels
  BY DEF FirstRunComplete
<1>1. ASSUME NEW k \in Kernels PROVE k \in finished
  <2>1. SlotOf[k] \in Subtree(Root) /\ Root \in Slots
    BY ConstantsAssumption, GridAssumption DEF Subtree
  <2> QED
    BY <2>1, SpeaksForSubtree DEF Earned, ApDoneFinal
<1> QED
  BY <1>1 DEF TypeOK

\* The final ap_done of the first run never comes before all kernels have ended.
THEOREM FirstRunIsComplete == Spec => []FirstRunComplete
BY TypeCorrect, EarnedHolds, RootSpeaks, PTL

(***************************************************************************)
(* Runs after a reset.  A reset that breaks off a run travels from the     *)
(* root to the slots as a window in which ap_rst_n is low.  t counts the   *)
(* cycles since the last reset began, w those for which ap_rst_n has been  *)
(* low in it.  A slot sees the window OutLength cycles after its parent;   *)
(* ten cycles later all that it keeps of the run broken off is gone, and   *)
(* what its parent still hears of it comes before the parent's window ends.*)
(***************************************************************************)
Abs(n)      == IF n < 0 THEN -n ELSE n
Distance(s) == Abs(s[1] - Root[1]) + Abs(s[2] - Root[2])
Delay(s)    == Distance(s) * OutLength

\* Cycles since the window reached a slot.
Since(t, s) == t - Delay(s)

LEMMA Delays ==
  /\ Delay(Root) = 0
  /\ \A s \in Slots : Delay(s) \in Nat
  /\ \A s \in Others : Parent(s) \in Slots /\ Delay(s) = Delay(Parent(s)) + OutLength
<1>1. OutLength \in {3, 4}
  BY DEF OutLength, BetweenSlots
<1>2. Root[1] \in Int /\ Root[2] \in Int
  BY GridAssumption
<1>3. Distance(Root) = 0
  BY <1>2 DEF Distance, Abs
<1>4. ASSUME NEW s \in Slots PROVE Distance(s) \in Nat
  BY Positions DEF Distance, Abs
<1>5. ASSUME NEW s \in Others
      PROVE  Parent(s) \in Slots /\ Distance(s) = Distance(Parent(s)) + 1
  <2>1. s \in Slots /\ Parent(s) \in Slots /\ s # Root
    BY GridAssumption DEF Others
  <2>2. PICK x \in Int, y \in Int : s = <<x, y>>
    BY <2>1, Positions
  <2>3. Parent(s) = IF y = Root[2] THEN IF x < Root[1] THEN <<x + 1, y>> ELSE <<x - 1, y>>
                    ELSE IF y < Root[2] THEN <<x, y + 1>> ELSE <<x, y - 1>>
    BY <2>2, ParentAt
  <2>4. x # Root[1] \/ y # Root[2]
    BY <2>1, <2>2, Positions
  <2>5. Distance(<<x, y>>) = Abs(x - Root[1]) + Abs(y - Root[2])
    BY DEF Distance
  <2>6. ASSUME NEW px \in Int, NEW py \in Int, Parent(s) = <<px, py>>
        PROVE  Distance(Parent(s)) = Abs(px - Root[1]) + Abs(py - Root[2])
    BY <2>6 DEF Distance
  <2>7. PICK px \in Int, py \in Int :
          /\ Parent(s) = <<px, py>>
          /\ \/ y = Root[2] /\ x < Root[1] /\ px = x + 1 /\ py = y
             \/ y = Root[2] /\ ~(x < Root[1]) /\ px = x - 1 /\ py = y
             \/ y < Root[2] /\ px = x /\ py = y + 1
             \/ y > Root[2] /\ px = x /\ py = y - 1
    BY <1>2, <2>3
  <2>8. Abs(x - Root[1]) + Abs(y - Root[2]) = Abs(px - Root[1]) + Abs(py - Root[2]) + 1
    BY <1>2, <2>4, <2>7 DEF Abs
  <2> QED
    BY <2>1, <2>2, <2>5, <2>6, <2>7, <2>8
<1>6. Delay(Root) = 0
  BY <1>1, <1>3 DEF Delay
<1>7. ASSUME NEW s \in Slots PROVE Delay(s) \in Nat
  BY <1>1, <1>4, <1>7 DEF Delay
<1>8. ASSUME NEW s \in Others
      PROVE  Parent(s) \in Slots /\ Delay(s) = Delay(Parent(s)) + OutLength
  <2>1. Distance(Parent(s)) \in Nat /\ Distance(s) = Distance(Parent(s)) + 1
    BY <1>4, <1>5
  <2> QED
    BY <1>1, <1>5, <2>1 DEF Delay
<1> QED
  BY <1>6, <1>7, <1>8

LEMMA SinceAt ==
  ASSUME NEW t \in Nat, NEW s \in Slots
  PROVE  /\ Since(t, s) \in Int /\ Since(t, s) <= t
         /\ Since(t + 1, s) = Since(t, s) + 1
         /\ s = Root => Since(t, s) = t
         /\ s \in Others => /\ Parent(s) \in Slots
                            /\ Since(t, Parent(s)) \in Int
                            /\ Since(t + 1, Parent(s)) = Since(t, Parent(s)) + 1
                            /\ Since(t, s) = Since(t, Parent(s)) - OutLength
<1>1. OutLength \in Nat
  BY Lengths
<1>2. Delay(s) \in Nat /\ (s = Root => Delay(s) = 0)
  BY Delays
<1>3. s \in Others => /\ Parent(s) \in Slots /\ Delay(Parent(s)) \in Nat
                      /\ Delay(s) = Delay(Parent(s)) + OutLength
  BY Delays
<1> QED
  BY <1>1, <1>2, <1>3 DEF Since

LEMMA ShiftAt ==
  ASSUME NEW n \in Nat, NEW line \in Line(n), NEW in, NEW i \in 1..n
  PROVE  Shift(line, in)[i] = IF i = 1 THEN in ELSE line[i - 1]
BY DEF Shift, Line

\* k has ended in the run that the host waits for.
Ended(k) == ~fresh /\ k \in finished

SubtreeEnded(s) == \A k \in Kernels : SlotOf[k] \in Subtree(s) => Ended(k)

\* The window at the root: still open, or ended after ResetCycles or more.
ResetWindow(t, w) ==
  /\ resetLeft = 0 => ResetCycles <= w /\ w <= t
  /\ resetLeft > 0 => fresh /\ w = t + 1 /\ ResetCycles <= t + resetLeft

\* The window on its way: what a register holds, the root had some cycles ago.
ResetTravels(t, w) ==
  /\ \A s \in Others : \A i \in 1..OutLength :
       Since(t, Parent(s)) - i >= 0 => (rst_n[s][i] <=> Since(t, Parent(s)) - i >= w)
  /\ \A s \in Slots : \A i \in 1..3 :
       Since(t, s) - i >= 0 => (ap_rst_p[s][i] <=> Since(t, s) - i < w)

\* No ap_start follows the window until the host writes one.
NoStartFollows(t) ==
  fresh => /\ t >= 4 => ~ap_start_orig
           /\ \A s \in Others : \A i \in 1..OutLength :
                Since(t, Parent(s)) - i >= 4 => ~start[s][i]
           /\ \A s \in Slots : \A i \in 1..3 : Since(t, s) - i >= 4 => ~ap_start_p[s][i]

\* Kernels and what is kept of their ap_done.  A pulse that backup still has when
\* its input is clear stays for one cycle more, and raises ap_done_reg_ with it.
KernelDrained(t, k) ==
  LET s == SlotOf[k]
  IN  /\ fresh /\ Since(t, s) >= 4 => kernel[k] = "idle"
      /\ \A i \in 1..3 : ap_done_p[k][i] /\ Since(t, s) - i >= 4 => Ended(k)
      /\ backup[k] /\ ~ap_done_reg_[s] /\ Since(t, s) >= 8 => Ended(k)
      /\ backup[k] /\ Since(t, s) >= 9 => Ended(k)
      /\ ap_done_reg_[s] /\ Since(t, s) >= 10 => Ended(k)

\* The way back.
BackDrained(t, s) ==
  /\ held[s] /\ Since(t, Parent(s)) >= 1 => SubtreeEnded(s)
  /\ \A i \in 1..BackLength(s) : done[s][i] /\ Since(t, s) - i >= 10 => SubtreeEnded(s)

ReportDrained(t) == int_ap_done /\ t >= 4 => \A k \in Kernels : Ended(k)

Drained(t, w) ==
  /\ ResetWindow(t, w)
  /\ ResetTravels(t, w)
  /\ NoStartFollows(t)
  /\ \A k \in Kernels : KernelDrained(t, k)
  /\ \A s \in Others : BackDrained(t, s)
  /\ ReportDrained(t)

\* Until a reset breaks off the first run, no reset need be looked at.
FirstRun == runs = 0 \/ (runs = 1 /\ ~fresh)

ReportInv ==
  /\ \A k \in Kernels : kernel[k] = "done" => k \in finished
  /\ host = "waiting" => ~fresh
  /\ runs <= 1 /\ int_ap_done => finished = Kernels
  /\ FirstRun \/ \E t, w \in Nat : Drained(t, w)

\* Two kernels of a slot may keep parts of a run broken off, see __setApDone.
OneKernelPerSlot == \A j, k \in Kernels : SlotOf[j] = SlotOf[k] => j = k

\* The way of the reset to a slot and through it, and of ap_done back from there.
LongReset == ResetCycles >= 15 + 2 * BetweenSlots

(***************************************************************************)
(* One cycle of the clock, unless a reset begins.                          *)
(***************************************************************************)
LEMMA SlotSees ==
  ASSUME TypeOK, NEW t \in Nat, NEW w \in Nat, Drained(t, w), NEW s \in Slots
  PROVE  /\ Since(t, s) >= 0 => (SlotRstN(s) <=> Since(t, s) >= w)
         /\ fresh /\ Since(t, s) >= 4 => ~SlotStart(s)
         /\ Since(t, s) >= w => w >= ResetCycles
<1>1. Since(t, s) \in Int /\ Since(t, s) <= t
  BY SinceAt
<1>2. /\ resetLeft = 0 => ResetCycles <= w /\ w <= t
      /\ resetLeft # 0 => w = t + 1
  <2>1. resetLeft \in Nat
    BY Bounds DEF TypeOK
  <2>2. resetLeft # 0 => resetLeft > 0
    BY <2>1
  <2> QED
    BY <2>2 DEF Drained, ResetWindow
<1>3. CASE s = Root
  <2>1. Since(t, s) = t
    BY <1>3, SinceAt
  <2>2. SlotRstN(s) <=> resetLeft = 0
    BY <1>3 DEF SlotRstN, ap_rst_n
  <2>3. fresh /\ t >= 4 => ~SlotStart(s)
    BY <1>3 DEF SlotStart, Drained, NoStartFollows
  <2> QED
    BY <1>2, <2>1, <2>2, <2>3, Bounds
<1>4. CASE s # Root
  <2>1. s \in Others
    BY <1>4 DEF Others
  <2>2. Since(t, s) = Since(t, Parent(s)) - OutLength /\ OutLength \in 1..OutLength
    BY <2>1, SinceAt, Lengths
  <2>3. Since(t, s) >= 0 => (rst_n[s][OutLength] <=> Since(t, s) >= w)
    BY <2>1, <2>2 DEF Drained, ResetTravels
  <2>4. fresh /\ Since(t, s) >= 4 => ~start[s][OutLength]
    BY <2>1, <2>2 DEF Drained, NoStartFollows
  <2>5. Since(t, s) >= w => w >= ResetCycles
    BY <1>1, <1>2, Bounds
  <2> QED
    BY <1>4, <2>3, <2>4, <2>5 DEF SlotRstN, SlotStart
<1> QED
  BY <1>3, <1>4

LEMMA ControlNext ==
  ASSUME TypeOK, Next, ~AssertReset, ~Reuse
  PROVE  /\ Cycle
         /\ fresh' => fresh
         /\ ~fresh => ~fresh' /\ finished \subseteq finished'
         /\ ap_start_orig' /\ fresh' => ~InReset(Root) /\ ap_start_orig
         /\ int_ap_done' => ~InReset(Root) /\ (ApDoneFinal \/ int_ap_done)
         /\ resetLeft = 0 => resetLeft' = 0
         /\ resetLeft # 0 => fresh' = fresh /\ resetLeft' \in {resetLeft, resetLeft - 1}
         /\ host' = "waiting" => ~fresh' \/ host = "waiting"
<1>1. CASE StartRun
  BY <1>1 DEF Next, StartRun, SAxiControl, ap_rst_n
<1>2. CASE ~StartRun
  <2>1. Cycle /\ (ReadDone \/ NoAccess \/ KeepReset)
    BY <1>2 DEF Next
  <2>2. ~(host = "idle" /\ host' = "waiting")
    BY <2>1 DEF ReadDone, NoAccess, KeepReset
  <2>3. finished \subseteq finished'
    BY <2>1, <2>2 DEF Cycle, RunKernels
  <2>4. CASE ReadDone
    BY <2>1, <2>2, <2>3, <2>4 DEF ReadDone, SAxiControl, ap_rst_n
  <2>5. CASE NoAccess
    BY <2>1, <2>2, <2>3, <2>5 DEF NoAccess, SAxiControl, ap_rst_n
  <2>6. CASE KeepReset
    BY <2>1, <2>2, <2>3, <2>6 DEF KeepReset, SAxiControl, ap_rst_n
  <2> QED
    BY <2>1, <2>4, <2>5, <2>6
<1> QED
  BY <1>1, <1>2

LEMMA EndedStays ==
  ASSUME TypeOK, Next, ~AssertReset, ~Reuse, NEW k, Ended(k)
  PROVE  Ended(k)'
BY ControlNext DEF Ended

LEMMA WindowNext ==
  ASSUME TypeOK, Next, ~AssertReset, ~Reuse,
         NEW t \in Nat, NEW w \in Nat, ResetWindow(t, w),
         NEW w2, w2 = IF resetLeft' = 0 THEN w ELSE w + 1
  PROVE  /\ ResetWindow(t + 1, w2)'
         /\ w2 \in Nat
         /\ \A m \in Int : m <= t => (m < w <=> m < w2)
<1>1. resetLeft \in Nat /\ ResetCycles \in Nat
  BY Bounds DEF TypeOK
<1>2. CASE resetLeft = 0
  <2>1. resetLeft' = 0 /\ w2 = w
    BY <1>2, ControlNext
  <2> QED
    BY <1>1, <1>2, <2>1 DEF ResetWindow
<1>3. CASE resetLeft # 0
  <2>1. resetLeft > 0
    BY <1>1, <1>3
  <2>2. fresh /\ w = t + 1 /\ ResetCycles <= t + resetLeft
    BY <2>1 DEF ResetWindow
  <2>3. fresh' = fresh /\ resetLeft' \in {resetLeft, resetLeft - 1}
    BY <1>3, ControlNext
  <2>4. w2 \in Nat /\ \A m \in Int : m <= t => (m < w <=> m < w2)
    BY <2>2
  <2>5. resetLeft' = 0 => ResetCycles <= w2 /\ w2 <= t + 1
    BY <1>1, <2>1, <2>2, <2>3
  <2>6. resetLeft' > 0 => w2 = (t + 1) + 1 /\ ResetCycles <= (t + 1) + resetLeft'
    <3>1. ASSUME NEW r \in {resetLeft, resetLeft - 1}
          PROVE  r \in Nat /\ ResetCycles <= (t + 1) + r
      BY <1>1, <2>1, <2>2
    <3> HIDE <2>2
    <3>2. resetLeft' \in Nat /\ ResetCycles <= (t + 1) + resetLeft'
      BY <2>3, <3>1
    <3>3. resetLeft' > 0 => w2 = w + 1
      BY <3>2
    <3> QED
      BY <2>2, <3>2, <3>3
  <2>7. fresh'
    BY <2>2, <2>3, Zenon
  <2> QED
    BY <2>4, <2>5, <2>6, <2>7 DEF ResetWindow
<1> QED
  BY <1>2, <1>3

LEMMA TravelsNext ==
  ASSUME TypeOK, Next, ~AssertReset, ~Reuse, NEW t \in Nat, NEW w \in Nat, Drained(t, w),
         NEW w2, w2 = IF resetLeft' = 0 THEN w ELSE w + 1
  PROVE  ResetTravels(t + 1, w2)'
<1>1. w2 \in Nat /\ \A m \in Int : m <= t => (m < w <=> m < w2)
  BY WindowNext DEF Drained
<1>2. Cycle
  BY ControlNext
<1>3. ASSUME NEW s \in Others, NEW i \in 1..OutLength, Since(t + 1, Parent(s)) - i >= 0
      PROVE  rst_n'[s][i] <=> Since(t + 1, Parent(s)) - i >= w2
  <2> DEFINE m == Since(t + 1, Parent(s)) - i
  <2>1. /\ Parent(s) \in Slots /\ Since(t, Parent(s)) \in Int /\ Since(t, Parent(s)) <= t
        /\ Since(t + 1, Parent(s)) = Since(t, Parent(s)) + 1 /\ OutLength \in Nat
    BY SinceAt, Lengths, GridAssumption DEF Others
  <2>2. m \in Int /\ m <= t
    BY <2>1
  <2>3. rst_n'[s][i] = IF i = 1 THEN SlotRstN(Parent(s)) ELSE rst_n[s][i - 1]
    <3>1. rst_n[s] \in Line(OutLength)
      BY DEF TypeOK
    <3> QED
      BY <1>2, <2>1, <3>1, ShiftAt DEF Cycle, SendOutward
  <2>4. CASE i = 1
    <3>1. m = Since(t, Parent(s))
      BY <2>1, <2>4
    <3>2. SlotRstN(Parent(s)) <=> m >= w
      BY <1>3, <2>1, <3>1, SlotSees
    <3> QED
      BY <1>1, <2>2, <2>3, <2>4, <3>2
  <2>5. CASE i # 1
    <3>1. i - 1 \in 1..OutLength /\ Since(t, Parent(s)) - (i - 1) = m
      BY <2>1, <2>5
    <3>2. rst_n[s][i - 1] <=> m >= w
      BY <1>3, <3>1 DEF Drained, ResetTravels
    <3> QED
      BY <1>1, <2>2, <2>3, <2>5, <3>2
  <2> QED
    BY <2>4, <2>5
<1>4. ASSUME NEW s \in Slots, NEW i \in 1..3, Since(t + 1, s) - i >= 0
      PROVE  ap_rst_p'[s][i] <=> Since(t + 1, s) - i < w2
  <2> DEFINE m == Since(t + 1, s) - i
  <2>1. Since(t, s) \in Int /\ Since(t, s) <= t /\ Since(t + 1, s) = Since(t, s) + 1
    BY SinceAt
  <2>2. m \in Int /\ m <= t
    BY <2>1
  <2>3. ap_rst_p'[s][i] = IF i = 1 THEN ~SlotRstN(s) ELSE ap_rst_p[s][i - 1]
    <3>1. ap_rst_p[s] \in Line(3)
      BY DEF TypeOK
    <3> QED
      BY <1>2, <3>1, ShiftAt DEF Cycle, SendOutward
  <2>4. CASE i = 1
    <3>1. m = Since(t, s)
      BY <2>1, <2>4
    <3>2. SlotRstN(s) <=> m >= w
      BY <1>4, <3>1, SlotSees
    <3>3. ap_rst_p'[s][i] <=> ~SlotRstN(s)
      BY <2>3, <2>4, Zenon
    <3> QED
      BY <1>1, <2>2, <3>2, <3>3
  <2>5. CASE i # 1
    <3>1. i - 1 \in 1..3 /\ Since(t, s) - (i - 1) = m
      BY <2>1, <2>5
    <3>2. ap_rst_p[s][i - 1] <=> m < w
      BY <1>4, <3>1 DEF Drained, ResetTravels
    <3> QED
      BY <1>1, <2>2, <2>3, <2>5, <3>2
  <2> QED
    BY <2>4, <2>5
<1> QED
  BY <1>3, <1>4 DEF ResetTravels

LEMMA QuietNext ==
  ASSUME TypeOK, Next, ~AssertReset, ~Reuse, LongReset,
         NEW t \in Nat, NEW w \in Nat, Drained(t, w)
  PROVE  NoStartFollows(t + 1)'
<1> SUFFICES ASSUME fresh'
             PROVE  /\ t + 1 >= 4 => ~ap_start_orig'
                    /\ \A s \in Others : \A i \in 1..OutLength :
                         Since(t + 1, Parent(s)) - i >= 4 => ~start'[s][i]
                    /\ \A s \in Slots : \A i \in 1..3 :
                         Since(t + 1, s) - i >= 4 => ~ap_start_p'[s][i]
  BY Zenon DEF NoStartFollows
<1>1. Cycle /\ fresh
  BY ControlNext
<1>2. ASSUME t + 1 >= 4, ap_start_orig' PROVE FALSE
  <2>1. ap_start_orig /\ ~ap_rst_p[Root][3]
    BY <1>2, ControlNext DEF InReset
  <2>2. Root \in Slots /\ Since(t, Root) = t
    BY SinceAt, GridAssumption
  <2>3. t - 3 >= 0 /\ t - 3 \in Int
    BY <1>2
  <2>4. ~(t - 3 < w)
    BY <2>1, <2>2, <2>3 DEF Drained, ResetTravels
  <2>5. w >= ResetCycles
    <3>1. t >= w
      BY <2>4
    <3> QED
      BY <2>2, <3>1, SlotSees
  <2>6. BetweenSlots \in Nat
    BY DEF BetweenSlots
  <2>7. t >= 4
    BY <2>4, <2>5, <2>6, Bounds DEF LongReset
  <2> QED
    BY <1>1, <2>1, <2>7 DEF Drained, NoStartFollows
<1>3. ASSUME NEW s \in Others, NEW i \in 1..OutLength, Since(t + 1, Parent(s)) - i >= 4
      PROVE  ~start'[s][i]
  <2>1. /\ Parent(s) \in Slots /\ Since(t, Parent(s)) \in Int
        /\ Since(t + 1, Parent(s)) = Since(t, Parent(s)) + 1 /\ OutLength \in Nat
    BY SinceAt, Lengths, GridAssumption DEF Others
  <2>2. start'[s][i] = IF i = 1 THEN SlotStart(Parent(s)) ELSE start[s][i - 1]
    <3>1. start[s] \in Line(OutLength)
      BY DEF TypeOK
    <3> QED
      BY <1>1, <2>1, <3>1, ShiftAt DEF Cycle, SendOutward
  <2>3. CASE i = 1
    <3>1. Since(t, Parent(s)) >= 4
      BY <1>3, <2>1, <2>3
    <3> QED
      BY <1>1, <2>1, <2>2, <2>3, <3>1, SlotSees
  <2>4. CASE i # 1
    <3>1. i - 1 \in 1..OutLength /\ Since(t, Parent(s)) - (i - 1) >= 4
      BY <1>3, <2>1, <2>4
    <3> QED
      BY <1>1, <2>2, <2>4, <3>1 DEF Drained, NoStartFollows
  <2> QED
    BY <2>3, <2>4
<1>4. ASSUME NEW s \in Slots, NEW i \in 1..3, Since(t + 1, s) - i >= 4
      PROVE  ~ap_start_p'[s][i]
  <2>1. Since(t, s) \in Int /\ Since(t + 1, s) = Since(t, s) + 1
    BY SinceAt
  <2>2. ap_start_p'[s][i] = IF i = 1 THEN SlotStart(s) ELSE ap_start_p[s][i - 1]
    <3>1. ap_start_p[s] \in Line(3)
      BY DEF TypeOK
    <3> QED
      BY <1>1, <3>1, ShiftAt DEF Cycle, SendOutward
  <2>3. CASE i = 1
    <3>1. Since(t, s) >= 4
      BY <1>4, <2>1, <2>3
    <3> QED
      BY <1>1, <2>2, <2>3, <3>1, SlotSees
  <2>4. CASE i # 1
    <3>1. i - 1 \in 1..3 /\ Since(t, s) - (i - 1) >= 4
      BY <1>4, <2>1, <2>4
    <3> QED
      BY <1>1, <2>2, <2>4, <3>1 DEF Drained, NoStartFollows
  <2> QED
    BY <2>3, <2>4
<1> QED
  BY <1>2, <1>3, <1>4

\* A kernel sees the reset three cycles after its slot, and is not started again
\* before the host starts a run.
LEMMA KernelStaysIdle ==
  ASSUME TypeOK, Next, ~AssertReset, ~Reuse, LongReset,
         NEW t \in Nat, NEW w \in Nat, Drained(t, w),
         NEW k \in Kernels, fresh', Since(t, SlotOf[k]) >= 3
  PROVE  kernel'[k] = "idle"
<1> DEFINE s == SlotOf[k]
           m == Since(t, s) - 3
<1>1. Cycle /\ fresh /\ s \in Slots
  BY ControlNext, ConstantsAssumption
<1>2. Since(t, s) \in Int /\ m \in Int /\ m >= 0
  BY <1>1, SinceAt
<1>3. ap_rst_p[s][3] <=> m < w
  BY <1>1, <1>2 DEF Drained, ResetTravels
<1>4. CASE m < w
  <2>1. InReset(s)
    BY <1>3, <1>4 DEF InReset
  <2> QED
    BY <1>1, <2>1 DEF Cycle, RunKernels, KernelNext
<1>5. CASE ~(m < w)
  <2>1. Since(t, s) >= w
    BY <1>2, <1>5
  <2>2. w >= ResetCycles /\ BetweenSlots \in Nat
    BY <1>1, <2>1, SlotSees DEF BetweenSlots
  <2>3. m >= 4 /\ Since(t, s) >= 4
    BY <1>2, <1>5, <2>2, Bounds DEF LongReset
  <2>4. ~ap_start_p[s][3]
    BY <1>1, <2>3 DEF Drained, NoStartFollows
  <2>5. kernel[k] = "idle"
    BY <1>1, <2>3 DEF Drained, KernelDrained
  <2>6. KernelNext(k) = {"idle"}
    BY <2>4, <2>5 DEF KernelNext
  <2> QED
    BY <1>1, <2>6 DEF Cycle, RunKernels
<1> QED
  BY <1>4, <1>5

LEMMA KernelNextDrained ==
  ASSUME TypeOK, ReportInv, Next, ~AssertReset, ~Reuse, LongReset, OneKernelPerSlot,
         NEW t \in Nat, NEW w \in Nat, Drained(t, w), NEW k \in Kernels
  PROVE  KernelDrained(t + 1, k)'
<1> DEFINE s == SlotOf[k]
           n == Since(t, s)
<1>1. /\ Cycle /\ s \in Slots /\ KernelDrained(t, k)
  BY ControlNext, ConstantsAssumption DEF Drained
<1>2. n \in Int /\ Since(t + 1, s) = n + 1
  BY <1>1, SinceAt
<1>3. /\ backup'[k] <=> ap_done_p[k][3] \/ (backup[k] /\ ~ap_done_reg_[s])
      /\ ap_done_reg_'[s] => backup[k]
      /\ backup[k] => ap_done_reg_'[s]
  <2>1. \A j \in KernelsIn(s) : j = k
    BY DEF KernelsIn, OneKernelPerSlot
  <2>2. k \in KernelsIn(s)
    BY DEF KernelsIn
  <2>3. ap_done_reg_'[s] = (\A j \in KernelsIn(s) : backup[j])
    BY <1>1, Zenon DEF Cycle, JoinKernels
  <2>4. backup'[k] = (ap_done_p[k][3] \/ (backup[k] /\ ~ap_done_reg_[s]))
    BY <1>1, Zenon DEF Cycle, JoinKernels
  <2> QED
    BY <2>1, <2>2, <2>3, <2>4
<1>4. \A i \in 1..3 : ap_done_p'[k][i] = IF i = 1 THEN kernel[k] = "done" ELSE ap_done_p[k][i - 1]
  <2>1. ap_done_p[k] \in Line(3)
    BY DEF TypeOK
  <2> QED
    BY <1>1, <2>1, ShiftAt DEF Cycle, JoinKernels
<1>5. Ended(k) => Ended(k)'
  BY EndedStays
<1> HIDE DEF n
<1>6. /\ fresh /\ n >= 4 => kernel[k] = "idle"
      /\ \A i \in 1..3 : ap_done_p[k][i] /\ n - i >= 4 => Ended(k)
      /\ backup[k] /\ ~ap_done_reg_[s] /\ n >= 8 => Ended(k)
      /\ backup[k] /\ n >= 9 => Ended(k)
      /\ ap_done_reg_[s] /\ n >= 10 => Ended(k)
  BY <1>1 DEF KernelDrained, n
<1>7. ASSUME fresh', n + 1 >= 4 PROVE kernel'[k] = "idle"
  BY <1>2, <1>7, KernelStaysIdle DEF n
<1>8. ASSUME NEW i \in 1..3, ap_done_p'[k][i], (n + 1) - i >= 4 PROVE Ended(k)'
  <2>1. CASE i = 1
    <3>1. n >= 4
      BY <1>2, <1>8, <2>1
    <3>2. kernel[k] = "done"
      BY <1>4, <1>8, <2>1, Zenon
    <3>3. ~fresh /\ k \in finished
      BY <1>6, <3>1, <3>2 DEF ReportInv
    <3> QED
      BY <1>5, <3>3 DEF Ended
  <2>2. CASE i # 1
    <3>1. i - 1 \in 1..3 /\ n - (i - 1) >= 4 /\ ap_done_p[k][i - 1]
      BY <1>2, <1>4, <1>8, <2>2
    <3> QED
      BY <1>5, <1>6, <3>1
  <2> QED
    BY <2>1, <2>2
<1>9. ASSUME ap_done_p[k][3], n >= 7 PROVE Ended(k)
  <2>1. n - 3 >= 4 /\ 3 \in 1..3
    BY <1>2, <1>9
  <2> QED
    BY <1>6, <1>9, <2>1
<1>10. ASSUME backup'[k], ~ap_done_reg_'[s], n + 1 >= 8 PROVE Ended(k)'
  <2>1. ap_done_p[k][3] /\ n >= 7
    BY <1>2, <1>3, <1>10
  <2> QED
    BY <1>5, <1>9, <2>1
<1>11. ASSUME backup'[k], n + 1 >= 9 PROVE Ended(k)'
  <2>1. n >= 7 /\ n >= 8
    BY <1>2, <1>11
  <2> QED
    BY <1>3, <1>5, <1>6, <1>9, <1>11, <2>1
<1>12. ASSUME ap_done_reg_'[s], n + 1 >= 10 PROVE Ended(k)'
  <2>1. n >= 9 /\ backup[k]
    BY <1>2, <1>3, <1>12
  <2> QED
    BY <1>5, <1>6, <2>1
<1>13. (LET r == SlotOf[k]
        IN  /\ fresh /\ Since(t + 1, r) >= 4 => kernel[k] = "idle"
            /\ \A i \in 1..3 : ap_done_p[k][i] /\ Since(t + 1, r) - i >= 4 => Ended(k)
            /\ backup[k] /\ ~ap_done_reg_[r] /\ Since(t + 1, r) >= 8 => Ended(k)
            /\ backup[k] /\ Since(t + 1, r) >= 9 => Ended(k)
            /\ ap_done_reg_[r] /\ Since(t + 1, r) >= 10 => Ended(k))'
  BY <1>2, <1>7, <1>8, <1>10, <1>11, <1>12
<1> QED
  BY <1>13 DEF KernelDrained

\* A slot whose kernel and whose children are drained speaks for its subtree.
LEMMA SpeaksAfterReset ==
  ASSUME NEW t \in Nat, NEW w \in Nat, Drained(t, w),
         NEW s \in Slots, Since(t, s) >= 10,
         SlotDone(s), \A c \in Children(s) : held[c]
  PROVE  SubtreeEnded(s)
<1> SUFFICES ASSUME NEW k \in Kernels, SlotOf[k] \in Subtree(s) PROVE Ended(k)
  BY DEF SubtreeEnded
<1>1. CASE SlotOf[k] = s
  <2>1. ap_done_reg_[s]
    BY <1>1 DEF SlotDone, KernelsIn
  <2> QED
    BY <1>1, <2>1 DEF Drained, KernelDrained
<1>2. CASE SlotOf[k] # s
  <2>1. PICK c \in Children(s) : c \in Others /\ SlotOf[k] \in Subtree(c)
    BY <1>2, SubtreeOfChild
  <2>2. Parent(c) = s
    BY <2>1, WiresMeet DEF Others
  <2>3. Since(t, Parent(c)) >= 1
    BY <2>2, SinceAt
  <2> QED
    BY <2>1, <2>3 DEF Drained, BackDrained, SubtreeEnded
<1> QED
  BY <1>1, <1>2

LEMMA BackNextDrained ==
  ASSUME TypeOK, Next, ~AssertReset, ~Reuse, LongReset,
         NEW t \in Nat, NEW w \in Nat, Drained(t, w), NEW s \in Others
  PROVE  BackDrained(t + 1, s)'
<1> DEFINE p == Parent(s)
           n == Since(t, s)
           B == BackLength(s)
<1>1. Cycle /\ s \in Slots /\ p \in Slots /\ BackDrained(t, s)
  BY ControlNext, GridAssumption DEF Drained, Others
<1>2. /\ n \in Int /\ Since(t, p) \in Int /\ n = Since(t, p) - OutLength
      /\ Since(t + 1, s) = n + 1 /\ Since(t + 1, p) = Since(t, p) + 1
  BY <1>1, SinceAt
<1>3. /\ B \in Nat /\ B >= 1 /\ OutLength \in Nat /\ B + OutLength + 10 <= 15 + 2 * BetweenSlots
      /\ 15 + 2 * BetweenSlots \in Nat
  BY DEF BackLength, OutLength, BetweenSlots
<1>4. SubtreeEnded(s) => SubtreeEnded(s)'
  BY EndedStays DEF SubtreeEnded
<1>5. ASSUME held'[s], Since(t + 1, p) >= 1 PROVE SubtreeEnded(s)'
  <2>1. SlotRstN(p) /\ (held[s] \/ done[s][B])
    BY <1>1, <1>5 DEF Cycle, SendBack
  <2>2. Since(t, p) >= 0
    BY <1>2, <1>5
  <2>3. Since(t, p) >= w /\ w >= ResetCycles
    BY <1>1, <2>1, <2>2, SlotSees
  <2>4. Since(t, p) >= 1 /\ n - B >= 10
    BY <1>2, <1>3, <2>3, Bounds DEF LongReset
  <2>5. B \in 1..B
    BY <1>3
  <2>6. SubtreeEnded(s)
    BY <1>1, <2>1, <2>4, <2>5 DEF BackDrained
  <2> QED
    BY <1>4, <2>6
<1>6. ASSUME NEW i \in 1..B, done'[s][i], Since(t + 1, s) - i >= 10 PROVE SubtreeEnded(s)'
  <2>1. done'[s][i] = IF i = 1 THEN SlotDone(s) /\ \A c \in Children(s) : held[c]
                               ELSE done[s][i - 1]
    <3>1. done[s] \in Line(B)
      BY DEF TypeOK
    <3>2. done'[s] = Shift(done[s], SlotDone(s) /\ \A c \in Children(s) : held[c])
      BY <1>1 DEF Cycle, SendBack
    <3> QED
      BY <1>3, <3>1, <3>2, ShiftAt
  <2>2. CASE i = 1
    <3>1. n >= 10
      BY <1>2, <1>6, <2>2
    <3>2. SlotDone(s) /\ \A c \in Children(s) : held[c]
      BY <1>6, <2>1, <2>2, Zenon
    <3> QED
      BY <1>1, <1>4, <3>1, <3>2, SpeaksAfterReset
  <2>3. CASE i # 1
    <3>1. i - 1 \in 1..B /\ n - (i - 1) >= 10
      BY <1>2, <1>3, <1>6, <2>3
    <3>2. done[s][i - 1]
      BY <1>6, <2>1, <2>3, Zenon
    <3> QED
      BY <1>1, <1>4, <3>1, <3>2 DEF BackDrained
  <2> QED
    BY <2>2, <2>3
<1>7. (/\ held[s] /\ Since(t + 1, Parent(s)) >= 1 => SubtreeEnded(s)
       /\ \A i \in 1..BackLength(s) :
            done[s][i] /\ Since(t + 1, s) - i >= 10 => SubtreeEnded(s))'
  BY <1>5, <1>6
<1> QED
  BY <1>7 DEF BackDrained

\* After a reset the root too hears only of kernels that have ended in this run.
LEMMA RootAfterReset ==
  ASSUME NEW t \in Nat, NEW w \in Nat, Drained(t, w), t >= 10, ApDoneFinal
  PROVE  \A k \in Kernels : Ended(k)
<1>1. Root \in Slots /\ Since(t, Root) = t
  BY GridAssumption, SinceAt
<1>2. SubtreeEnded(Root)
  BY <1>1, SpeaksAfterReset DEF ApDoneFinal
<1>3. \A k \in Kernels : SlotOf[k] \in Subtree(Root)
  BY ConstantsAssumption DEF Subtree
<1> QED
  BY <1>2, <1>3 DEF SubtreeEnded

LEMMA ReportNextDrained ==
  ASSUME TypeOK, Next, ~AssertReset, ~Reuse, LongReset,
         NEW t \in Nat, NEW w \in Nat, Drained(t, w)
  PROVE  ReportDrained(t + 1)'
<1> SUFFICES ASSUME int_ap_done', t + 1 >= 4, NEW k \in Kernels PROVE Ended(k)'
  BY DEF ReportDrained
<1>1. ~ap_rst_p[Root][3] /\ (ApDoneFinal \/ int_ap_done)
  BY ControlNext DEF InReset
<1>2. Root \in Slots /\ Since(t, Root) = t
  BY GridAssumption, SinceAt
<1>3. ~(t - 3 < w)
  BY <1>1, <1>2 DEF Drained, ResetTravels
<1>4. w >= ResetCycles /\ BetweenSlots \in Nat
  <2>1. t >= w
    BY <1>3
  <2> QED
    BY <1>2, <2>1, SlotSees DEF BetweenSlots
<1>5. t >= 10
  BY <1>3, <1>4, Bounds DEF LongReset
<1>6. Ended(k)
  BY <1>1, <1>5, RootAfterReset DEF Drained, ReportDrained
<1> QED
  BY <1>6, EndedStays

LEMMA DrainedNext ==
  ASSUME TypeOK, ReportInv, Next, ~AssertReset, ~Reuse, LongReset, OneKernelPerSlot,
         NEW t \in Nat, NEW w \in Nat, Drained(t, w)
  PROVE  (\E u, v \in Nat : Drained(u, v))'
<1>1. PICK w2 \in Nat : w2 = IF resetLeft' = 0 THEN w ELSE w + 1
  OBVIOUS
<1>2. ResetWindow(t + 1, w2)'
  BY <1>1, WindowNext DEF Drained
<1>3. ResetTravels(t + 1, w2)'
  BY <1>1, TravelsNext
<1>4. NoStartFollows(t + 1)'
  BY QuietNext
<1>5. \A k \in Kernels : KernelDrained(t + 1, k)'
  BY KernelNextDrained
<1>6. \A s \in Others : BackDrained(t + 1, s)'
  BY BackNextDrained
<1>7. ReportDrained(t + 1)'
  BY ReportNextDrained
<1>8. Drained(t + 1, w2)'
  BY <1>2, <1>3, <1>4, <1>5, <1>6, <1>7 DEF Drained
<1> QED
  BY <1>8

\* Nothing is known of the slots yet when a reset begins.
LEMMA DrainedBegins ==
  ASSUME TypeOK, AssertReset
  PROVE  Drained(0, 1)'
<1>1. \A s \in Slots : Since(0, s) \in Int /\ Since(0, s) <= 0
  BY SinceAt
<1>2. \A s \in Others : s \in Slots /\ Parent(s) \in Slots
  BY GridAssumption DEF Others
<1>3. resetLeft' = ResetCycles /\ fresh' = TRUE /\ ResetCycles \in Nat /\ ResetCycles > 0
  BY Bounds DEF AssertReset
<1>4. ResetWindow(0, 1)'
  BY <1>3 DEF ResetWindow
<1>5. ResetTravels(0, 1)'
  <2>1. \A s \in Slots : \A i \in 1..OutLength : ~(Since(0, s) - i >= 0)
    BY <1>1, Lengths
  <2>2. \A s \in Slots : \A i \in 1..3 : ~(Since(0, s) - i >= 0)
    BY <1>1
  <2> QED
    BY <1>2, <2>1, <2>2 DEF ResetTravels
<1>6. NoStartFollows(0)'
  <2>1. \A s \in Slots : \A i \in 1..OutLength : ~(Since(0, s) - i >= 4)
    BY <1>1, Lengths
  <2>2. \A s \in Slots : \A i \in 1..3 : ~(Since(0, s) - i >= 4)
    BY <1>1
  <2> QED
    BY <1>2, <2>1, <2>2 DEF NoStartFollows
<1>7. \A k \in Kernels : KernelDrained(0, k)'
  <2>1. \A k \in Kernels : SlotOf[k] \in Slots
    BY ConstantsAssumption
  <2>2. ASSUME NEW k \in Kernels PROVE KernelDrained(0, k)'
    <3> DEFINE n == Since(0, SlotOf[k])
    <3>1. n \in Int /\ n <= 0
      BY <1>1, <2>1
    <3> HIDE DEF n
    <3>2. ~(n >= 4) /\ ~(n >= 8) /\ ~(n >= 9) /\ ~(n >= 10) /\ \A i \in 1..3 : ~(n - i >= 4)
      BY <3>1
    <3> QED
      BY <3>2, Zenon DEF KernelDrained, n
  <2> QED
    BY <2>2
<1>8. \A s \in Others : BackDrained(0, s)'
  <2>1. \A s \in Slots : ~(Since(0, s) >= 1)
    BY <1>1
  <2>2. \A s \in Others : \A i \in 1..BackLength(s) : ~(Since(0, s) - i >= 10)
    BY <1>1, <1>2, Lengths
  <2> QED
    BY <1>2, <2>1, <2>2 DEF BackDrained
<1>9. ReportDrained(0)'
  BY DEF ReportDrained
<1> QED
  BY <1>4, <1>5, <1>6, <1>7, <1>8, <1>9 DEF Drained

LEMMA ReportInit == Init => ReportInv
BY DEF Init, ReportInv, FirstRun

LEMMA ReportNext ==
  ASSUME TypeOK, Earned, ReportInv, [Next]_vars, ~Reuse, LongReset, OneKernelPerSlot
  PROVE  ReportInv'
<1>1. CASE UNCHANGED vars
  BY <1>1 DEF ReportInv, FirstRun, Drained, ResetWindow, ResetTravels, NoStartFollows,
              KernelDrained, BackDrained, ReportDrained, SubtreeEnded, Ended,
              vars, control, outward, inside
<1>2. CASE Next
  <2>1. \A k \in Kernels : kernel'[k] = "done" => k \in finished'
    BY <1>2 DEF Next, Cycle, RunKernels
  <2>2. host' = "waiting" => ~fresh'
    BY <1>2 DEF ReportInv, Next, StartRun, ReadDone, NoAccess, AssertReset, KeepReset
  <2>3. ASSUME runs' <= 1, int_ap_done' PROVE finished' = Kernels
    <3>1. runs <= 1 /\ finished \subseteq finished' /\ finished' \subseteq Kernels
      BY <1>2, <2>3, RunsNext, TypeNext DEF TypeOK
    <3>2. ApDoneFinal \/ int_ap_done
      BY <1>2, <2>3 DEF Next, StartRun, ReadDone, NoAccess, AssertReset, KeepReset, SAxiControl
    <3>3. finished = Kernels
      BY <3>1, <3>2, RootSpeaks DEF ReportInv, FirstRunComplete
    <3> QED
      BY <3>1, <3>3
  <2>4. CASE AssertReset
    BY <2>1, <2>2, <2>3, <2>4, DrainedBegins DEF ReportInv
  <2>5. CASE ~AssertReset
    <3>1. CASE FirstRun
      <4>1. FirstRun'
        <5>1. CASE StartRun
          BY <3>1, <5>1 DEF FirstRun, StartRun
        <5>2. CASE ~StartRun
          BY <1>2, <2>5, <3>1, <5>2 DEF FirstRun, Next, ReadDone, NoAccess, KeepReset
        <5> QED
          BY <5>1, <5>2
      <4> QED
        BY <2>1, <2>2, <2>3, <4>1 DEF ReportInv
    <3>2. CASE \E t, w \in Nat : Drained(t, w)
      <4>1. (\E t, w \in Nat : Drained(t, w))'
        BY <1>2, <2>5, <3>2, DrainedNext
      <4> QED
        BY <2>1, <2>2, <2>3, <4>1 DEF ReportInv
    <3> QED
      BY <3>1, <3>2 DEF ReportInv
  <2> QED
    BY <2>4, <2>5
<1> QED
  BY <1>1, <1>2

LEMMA ReportMeansNoEarlyDone ==
  ASSUME TypeOK, Earned, ReportInv, LongReset
  PROVE  NoEarlyDone
<1> SUFFICES ASSUME host = "waiting", ApDoneFinal \/ int_ap_done PROVE finished = Kernels
  BY DEF NoEarlyDone
<1>1. ~fresh /\ finished \subseteq Kernels
  BY DEF ReportInv, TypeOK
<1>2. CASE FirstRun
  <2>1. runs <= 1
    BY <1>1, <1>2 DEF FirstRun
  <2> QED
    BY <2>1, RootSpeaks DEF ReportInv, FirstRunComplete
<1>3. CASE \E t, w \in Nat : Drained(t, w)
  <2>1. PICK t \in Nat, w \in Nat : Drained(t, w)
    BY <1>3
  <2>2. t >= 10
    <3>1. resetLeft \in Nat /\ BetweenSlots \in Nat
      BY Bounds DEF TypeOK, BetweenSlots
    <3>2. ResetCycles <= w /\ w <= t
      BY <1>1, <2>1, <3>1 DEF Drained, ResetWindow
    <3> QED
      BY <3>1, <3>2, Bounds DEF LongReset
  <2>3. \A k \in Kernels : Ended(k)
    BY <2>1, <2>2, RootAfterReset DEF Drained, ReportDrained
  <2> QED
    BY <1>1, <2>3 DEF Ended
<1> QED
  BY <1>2, <1>3 DEF ReportInv

\* NoEarlyDone, whatever runs a reset breaks off and however far resets and runs are
\* still apart in a deep tree: the host hears of the end of a run only when each
\* kernel has ended in this run.  All three hypotheses are needed: without a reset
\* before each run, with one cycle of it less, or with two kernels in a slot there are
\* runs that end early.
THEOREM NoRunEndsEarly ==
  ~Reuse /\ LongReset /\ OneKernelPerSlot => (Spec => []NoEarlyDone)
<1> SUFFICES ASSUME ~Reuse, LongReset, OneKernelPerSlot PROVE Spec => []NoEarlyDone
  OBVIOUS
<1>1. TypeOK /\ Earned /\ ReportInv /\ [Next]_vars => ReportInv'
  BY ReportNext
<1>2. TypeOK /\ Earned /\ ReportInv => NoEarlyDone
  BY ReportMeansNoEarlyDone
<1> QED
  BY <1>1, <1>2, ReportInit, TypeCorrect, EarnedHolds, PTL DEF Spec
=============================================================================
