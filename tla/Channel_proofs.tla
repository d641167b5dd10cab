-------------------------- MODULE Channel_proofs --------------------------
(***************************************************************************)
(* The compiler and the hardware together: for every grid, set of edges,   *)
(* pipeline style, plan and depth, the link that is built for the path an  *)
(* edge got loses no item and implements a FIFO queue.                     *)
(***************************************************************************)
EXTENDS Channel, EdgeLink_proofs, GlobalRouting_proofs, SequenceTheorems

\* The link is one that the compiler makes while the hardware runs.
ChannelInv ==
  /\ on \in BOOLEAN
  /\ RoutingInv
  /\ on => OrderInv
  /\ ~on => next = 0 /\ got = 0

LEMMA ChannelInvInit == Init => ChannelInv
  BY RoutingInvInit DEF Init, Off, ChannelInv

\* What holds of the links that are built, after the step that builds one.
LEMMA OrderInvStarts == LinkInit' => OrderInv' /\ (OnTheWay = 0)'
<1>1. LinkInit => OrderInv /\ OnTheWay = 0
  BY OrderInvInit
<1> QED
  BY <1>1, PTL

(***************************************************************************)
(* The grace period is computed from the length of the path, which has at  *)
(* least two slots.                                                        *)
(***************************************************************************)
LEMMA StartMakesLink ==
  ASSUME ChannelInv, NEW e \in Edges, NEW b \in Builds, Start(e, b)
  PROVE  LinkInit'
<1> DEFINE hops == Hops(e)
           grace == GracePeriod(PipelineLevel(b.style, b.plan, hops))
           tight == IsPowerOfTwo(RealDepth(grace, HlsDepth))
           l == Link(b.style, b.plan, b.kind, hops, HlsDepth, tight)
<1>1. /\ b.style \in Styles /\ b.plan \in Nat /\ b.kind \in {"srl", "bram"}
      /\ HlsDepth \in Nat
  BY BuildsAssumption
<1>2. hops \in Nat \ {0}
  <2>1. path[e] \in Seq(Slot) /\ Len(path[e]) > 1
    BY DEF ChannelInv, RoutingInv, Start
  <2>2. Len(path[e]) \in Nat
    BY <2>1
  <2> DEFINE n == Len(path[e])
  <2>3. n \in Nat /\ n > 1
    BY <2>1, <2>2
  <2>4. hops = n - 1
    BY Zenon DEF Hops
  <2> HIDE DEF n, hops
  <2> QED
    BY <2>3, <2>4
<1>3. tight \in BOOLEAN
  BY Zenon DEF IsPowerOfTwo
<1>4. /\ link' = l /\ fwd' = NoWrites(l) /\ back' = NoCredits(l) /\ fifo' = FifoReset(l)
      /\ Buildable(b.style, b.plan) /\ ~on /\ UNCHANGED <<next, got>>
  BY Zenon DEF Start
<1>5. next' = 0 /\ got' = 0
  BY <1>4 DEF ChannelInv
<1> HIDE DEF hops, tight
<1>6. IsLink(l)
  <2>1. grace \in Int
    BY <1>1, <1>2 DEF GracePeriod, PipelineLevel, Styles
  <2>2. /\ l.style = b.style /\ l.plan = b.plan /\ l.kind = b.kind /\ l.hops = hops
        /\ l.grace = grace /\ l.depth = grace + HlsDepth + 4 /\ l.tight = tight
    BY DEF Link, RealDepth
  <2> HIDE DEF l
  <2>3. HlsDepthOf(l) = HlsDepth
    <3> HIDE DEF grace
    <3> QED
      BY <1>1, <2>1, <2>2 DEF HlsDepthOf
  <2>4. l = Link(l.style, l.plan, l.kind, l.hops, HlsDepthOf(l), l.tight)
    BY <2>2, <2>3 DEF l
  <2> QED
    BY <1>1, <1>2, <1>3, <1>4, <2>2, <2>3, <2>4 DEF IsLink
<1> HIDE DEF l
<1> QED
  BY <1>4, <1>5, <1>6 DEF LinkInit, PowerUp

LEMMA ChannelInvStep == ChannelInv /\ [Next]_vars => ChannelInv'
<1> SUFFICES ASSUME ChannelInv, [Next]_vars PROVE ChannelInv'
  OBVIOUS
<1>1. CASE Route
  <2>1. RoutingInv'
    BY <1>1, RoutingInvStep DEF Route, ChannelInv
  <2> QED
    BY <1>1, <2>1 DEF Route, ChannelInv, linkVars
<1>2. ASSUME NEW e \in Edges, NEW b \in Builds, Start(e, b)
      PROVE  ChannelInv'
  <2>1. OrderInv'
    BY <1>2, StartMakesLink, OrderInvStarts
  <2>2. RoutingInv'
    BY <1>2, StartOK DEF Start, RoutingInv
  <2> QED
    BY <1>2, <2>1, <2>2 DEF Start, ChannelInv
<1>3. CASE Run
  <2>1. OrderInv'
    BY <1>3, OrderInvStep DEF Run, ChannelInv
  <2>2. RoutingInv'
    BY <1>3, RoutingInvStep DEF Run, ChannelInv
  <2> QED
    BY <1>3, <2>1, <2>2 DEF Run, ChannelInv
<1>4. CASE UNCHANGED vars
  <2>1. RoutingInv'
    BY <1>4, RoutingInvStep DEF vars, ChannelInv
  <2>2. on => OrderInv'
    BY <1>4, OrderInvStep DEF vars, ChannelInv
  <2> QED
    BY <1>4, <2>1, <2>2 DEF vars, ChannelInv, linkVars
<1> QED
  BY <1>1, <1>2, <1>3, <1>4 DEF Next

LEMMA ChannelInvariant == Spec => []ChannelInv
  BY ChannelInvInit, ChannelInvStep, PTL DEF Spec

-----------------------------------------------------------------------------
(***************************************************************************)
(* Compiler and hardware keep their types.  The flags of the FIFO agree    *)
(* with what it holds.                                                     *)
(***************************************************************************)
THEOREM ChannelTypes == Spec => []TypeOK
<1>1. ChannelInv => TypeOK
  BY RoutingInvMeansTypeOK DEF ChannelInv, OrderInv, LinkInv, TypeOK
<1> QED
  BY <1>1, ChannelInvariant, PTL

(***************************************************************************)
(* No write reaches a FIFO that has no room for it, whatever path the      *)
(* router chose and however full_n was delayed on the way back.            *)
(***************************************************************************)
THEOREM NoItemIsLost == Spec => []NoItemLost
<1>1. ChannelInv => NoItemLost
  BY CoveredMeansRoom DEF ChannelInv, OrderInv, NoItemLost
<1> QED
  BY <1>1, ChannelInvariant, PTL

(***************************************************************************)
(* full_n never promises more room than the grace period has left.         *)
(***************************************************************************)
THEOREM FullNIsCovered == Spec => []NoDebt
<1>1. ChannelInv => NoDebt
  BY DEF ChannelInv, OrderInv, LinkInv, NoDebt
<1> QED
  BY <1>1, ChannelInvariant, PTL

(***************************************************************************)
(* The paths of the front end visit no slot twice while it routes edges.   *)
(***************************************************************************)
THEOREM RoutesVisitNoSlotTwice == Spec => []NoSlotTwice
<1>1. ChannelInv => NoSlotTwice
  BY RoutingInvMeansNoSlotTwice DEF ChannelInv
<1> QED
  BY <1>1, ChannelInvariant, PTL

(***************************************************************************)
(* With an even limit on detours no path that the front end may choose is  *)
(* longer than the limit.                                                  *)
(***************************************************************************)
THEOREM RoutesKeepEvenLimits ==
  (\E k \in Nat : DetourPathLimit = 2 * k) => (Spec => []DetoursAreBounded)
<1> SUFFICES ASSUME \E k \in Nat : DetourPathLimit = 2 * k
             PROVE  Spec => []DetoursAreBounded
  OBVIOUS
<1>1. ChannelInv => DetoursAreBounded
  BY EvenDetours DEF ChannelInv
<1> QED
  BY <1>1, ChannelInvariant, PTL

(***************************************************************************)
(* What is on its way and in the FIFO is what was sent, in that order, for *)
(* every link that is built.                                               *)
(***************************************************************************)
THEOREM ItemsKeepTheirOrder == Spec => []ItemsInOrder
<1>1. ChannelInv => ItemsInOrder
  BY OrderInvMeansInOrder DEF ChannelInv, ItemsInOrder
<1> QED
  BY <1>1, ChannelInvariant, PTL

-----------------------------------------------------------------------------
(* The refinement: the channel is a Stream.                                *)

LEMMA InitIsInit == Init => S!Init
  BY DEF Init, Off, S!Init, InFlight

(***************************************************************************)
(* A step of the clock sends one item or none, and takes one or none: the  *)
(* queue of the Stream has the items that the registers and the FIFO have. *)
(***************************************************************************)
LEMMA RunIsTransfer ==
  ASSUME ChannelInv, NEW send \in BOOLEAN, NEW receive \in BOOLEAN,
         on, on' = on, Cycle(send, receive)
  PROVE  S!Transfer(send, receive)
<1> DEFINE q == InFlight
           q2 == InFlight'
           n == OnTheWay
           Then(m) == (next' - m) % Tags      \* Ago(m), after the step
           rest == IF receive THEN Tail(q) ELSE q
           new == IF send THEN <<next>> ELSE <<>>
<1>1. OrderInv /\ next \in Item /\ Tags \in Nat \ {0}
  BY TagsAssumption DEF ChannelInv, OrderInv, LinkInv, LinkTypeOK
<1>2. /\ OrderInv' /\ n \in Nat
      /\ n' = n + One(send) - One(receive)
      /\ receive => n # 0 /\ got' = Ago(n)
      /\ \A m \in Nat : Then(m + One(send)) = Ago(m)
      /\ Ago(0) = next
  <2>1. \A m \in Nat : Ago(m + One(send))' = Then(m + One(send))
    BY DEF Ago
  <2> HIDE DEF Then
  <2> QED
    BY <1>1, <2>1, OrderCycle
<1>3. /\ next' = IF send THEN (next + 1) % Tags ELSE next
      /\ ~receive => got' = got
      /\ next' \in Item
  BY <1>2 DEF Cycle, OrderInv, LinkInv, LinkTypeOK
<1>4. /\ q = [i \in 1 .. n |-> Ago(n + 1 - i)]
      /\ q2 = [i \in 1 .. n' |-> Then(n' + 1 - i)]
  BY DEF InFlight, Ago
<1>5. One(send) \in 0 .. 1 /\ One(receive) \in 0 .. 1 /\ n' \in Nat
  BY <1>2 DEF One
<1>6. \A m \in Nat : Ago(m) \in Item /\ Then(m) \in Item
  BY <1>1, <1>3 DEF Ago, Item
<1> HIDE DEF q, q2, n, Then
<1>7. /\ q \in Seq(Item) /\ Len(q) = n
      /\ \A i \in 1 .. n : q[i] = Ago(n + 1 - i)
  BY <1>2, <1>4, <1>6
<1>8. /\ q2 \in Seq(Item) /\ Len(q2) = n'
      /\ \A i \in 1 .. n' : q2[i] = Then(n' + 1 - i)
  BY <1>4, <1>5, <1>6
<1>9. receive => q # <<>> /\ Head(q) = Ago(n)
  <2> SUFFICES ASSUME receive PROVE q # <<>> /\ Head(q) = Ago(n)
    OBVIOUS
  <2>1. n # 0 /\ 1 \in 1 .. n /\ n + 1 - 1 = n
    BY <1>2
  <2>2. q # <<>>
    BY <1>7, <2>1
  <2> QED
    BY <1>7, <2>1, <2>2
<1>10. /\ rest \in Seq(Item) /\ Len(rest) = n - One(receive)
       /\ \A i \in 1 .. n - One(receive) : rest[i] = q[i + One(receive)]
  <2>1. CASE receive
    <3>1. /\ rest = Tail(q) /\ One(receive) = 1
          /\ q # <<>>
      BY <1>9, <2>1 DEF One
    <3>2. /\ Tail(q) \in Seq(Item) /\ Len(Tail(q)) = n - 1
          /\ \A i \in 1 .. n - 1 : Tail(q)[i] = q[i + 1]
      BY <1>7, <3>1, HeadTailProperties
    <3> QED
      BY <3>1, <3>2
  <2>2. CASE ~receive
    BY <1>2, <1>7, <2>2 DEF One
  <2> QED
    BY <2>1, <2>2
<1>11. /\ new \in Seq(Item) /\ Len(new) = One(send)
       /\ \A i \in 1 .. One(send) : new[i] = next
  BY <1>1 DEF One
<1> HIDE DEF rest, new
<1>12. /\ rest \o new \in Seq(Item) /\ Len(rest \o new) = n'
       /\ \A i \in 1 .. n' : (rest \o new)[i] =
             IF i <= n - One(receive) THEN rest[i] ELSE new[i - (n - One(receive))]
  <2>1. /\ rest \o new \in Seq(Item)
        /\ Len(rest \o new) = Len(rest) + Len(new)
        /\ \A i \in 1 .. Len(rest) + Len(new) : (rest \o new)[i] =
              IF i <= Len(rest) THEN rest[i] ELSE new[i - Len(rest)]
    BY <1>10, <1>11, ConcatProperties
  <2>2. Len(rest) + Len(new) = n'
    BY <1>2, <1>5, <1>10, <1>11
  <2> QED
    BY <1>10, <2>1, <2>2
<1>13. ASSUME NEW i \in 1 .. n' PROVE q2[i] = (rest \o new)[i]
  <2>1. q2[i] = Then(n' + 1 - i)
    BY <1>8
  <2>2. CASE i <= n - One(receive)
    <3> DEFINE m == n + 1 - (i + One(receive))
    <3>1. m \in Nat /\ n' + 1 - i = m + One(send) /\ i \in 1 .. n - One(receive)
          /\ i + One(receive) \in 1 .. n
      BY <1>2, <1>5, <2>2
    <3>2. (rest \o new)[i] = q[i + One(receive)]
      BY <1>10, <1>12, <2>2, <3>1
    <3>3. q[i + One(receive)] = Ago(m)
      BY <1>7, <3>1
    <3>4. Then(m + One(send)) = Ago(m)
      BY <1>2, <3>1
    <3>5. Then(n' + 1 - i) = Then(m + One(send))
      BY <3>1
    <3> QED
      BY <2>1, <3>2, <3>3, <3>4, <3>5
  <2>3. CASE ~(i <= n - One(receive))
    <3>1. /\ One(send) = 1 /\ n' + 1 - i = 0 + One(send)
          /\ i - (n - One(receive)) \in 1 .. One(send)
      BY <1>2, <1>5, <2>3
    <3>2. (rest \o new)[i] = next
      BY <1>11, <1>12, <2>3, <3>1
    <3>3. Then(n' + 1 - i) = Then(0 + One(send))
      BY <3>1
    <3>4. Then(0 + One(send)) = next
      BY <1>2
    <3> QED
      BY <2>1, <3>2, <3>3, <3>4
  <2> QED
    BY <2>2, <2>3
<1>14. q2 = rest \o new
  BY <1>8, <1>12, <1>13, SeqEqual
<1> QED
  BY <1>2, <1>3, <1>9, <1>14 DEF S!Transfer, q, q2, rest, new

LEMMA NextIsNext == ChannelInv /\ [Next]_vars => [S!Next]_(S!stream)
<1> SUFFICES ASSUME ChannelInv, [Next]_vars PROVE [S!Next]_(S!stream)
  OBVIOUS
<1> USE DEF S!stream
<1>1. CASE Route
  BY <1>1 DEF Route, linkVars, InFlight
<1>2. ASSUME NEW e \in Edges, NEW b \in Builds, Start(e, b)
      PROVE  UNCHANGED S!stream
  <2>1. ~on /\ on' /\ UNCHANGED <<next, got>>
    BY <1>2 DEF Start
  <2>2. OnTheWay' = 0
    BY <1>2, StartMakesLink, OrderInvStarts
  <2>3. InFlight = <<>>
    BY <2>1 DEF InFlight
  <2>4. InFlight' = [i \in 1 .. 0 |-> Ago(OnTheWay + 1 - i)']
    BY <2>1, <2>2 DEF InFlight, Ago
  <2>5. InFlight' = <<>>
    BY <2>4
  <2> QED
    BY <2>1, <2>3, <2>5
<1>3. CASE Run
  <2>1. PICK send \in BOOLEAN, receive \in BOOLEAN : Cycle(send, receive)
    BY <1>3 DEF Run, Clock
  <2>2. on /\ on' = on
    BY <1>3 DEF Run
  <2>3. S!Transfer(send, receive)
    BY <2>1, <2>2, RunIsTransfer
  <2> QED
    BY <2>3 DEF S!Next
<1>4. CASE UNCHANGED vars
  <2>1. UNCHANGED <<on, link, fwd, fifo, next, got>>
    BY <1>4 DEF vars, linkVars
  <2>2. UnderWay' = UnderWay
    BY <2>1 DEF UnderWay
  <2>3. OnTheWay' = OnTheWay
    BY <2>1, <2>2 DEF OnTheWay
  <2>4. InFlight' = InFlight
    BY <2>1, <2>3 DEF InFlight, Ago
  <2> QED
    BY <2>1, <2>4
<1> QED
  BY <1>1, <1>2, <1>3, <1>4 DEF Next

(***************************************************************************)
(* The hardware of an edge, built for whatever path the front end found,   *)
(* implements a Stream: items come out in the order in which they went in, *)
(* none is lost, none comes twice.                                         *)
(***************************************************************************)
THEOREM ChannelIsAStream == Spec => IsAStream
<1>1. Spec => S!Spec
  BY InitIsInit, ChannelInvariant, NextIsNext, PTL DEF Spec, S!Spec
<1> QED
  BY <1>1 DEF IsAStream
=============================================================================
