-------------------------- MODULE EdgeLink_proofs --------------------------
(***************************************************************************)
(* No item is lost on its way to another slot, and none overtakes another, *)
(* whatever the style of the pipeline, the anchor plan, the version and    *)
(* depth of the FIFO and the length of the path.                           *)
(***************************************************************************)
EXTENDS EdgeLink, FiniteSetTheorems, SequenceTheorems, TLAPS

(***************************************************************************)
(* What the compiler counts covers what it builds.                         *)
(***************************************************************************)
THEOREM GraceCoversRegisters ==
  ASSUME NEW l, IsLink(l)
  PROVE  /\ ForwardRegs(l) \in Nat \ {0}
         /\ BackwardRegs(l) \in Nat \ {0}
         /\ l.grace \in Nat
         /\ ForwardRegs(l) + BackwardRegs(l) <= l.grace
         /\ l.depth \in Nat
         /\ l.depth >= l.grace + 4
<1> DEFINE level == PipelineLevel(l.style, l.plan, l.hops)
<1>1. /\ l.style \in Styles /\ l.plan \in {1, 3} /\ l.hops \in Nat \ {0}
      /\ l.style = "INVERT_CLOCK" => l.plan = 3
      /\ HlsDepthOf(l) \in Nat
      /\ l = Link(l.style, l.plan, l.kind, l.hops, HlsDepthOf(l), l.tight)
  BY DEF IsLink, Buildable
<1>2. /\ l.grace = GracePeriod(level)
      /\ l.depth = RealDepth(l.grace, HlsDepthOf(l))
  <2> HIDE DEF level
  <2>1. l.grace = Link(l.style, l.plan, l.kind, l.hops, HlsDepthOf(l), l.tight).grace
    BY <1>1
  <2>2. l.depth = Link(l.style, l.plan, l.kind, l.hops, HlsDepthOf(l), l.tight).depth
    BY <1>1
  <2> QED
    BY <2>1, <2>2 DEF Link, level
<1>3. /\ ForwardRegs(l) \in Nat \ {0} /\ BackwardRegs(l) \in Nat \ {0} /\ level \in Nat
      /\ ForwardRegs(l) + BackwardRegs(l) <= level * 2 + 1
  <2> USE <1>1 DEF ForwardRegs, BackwardRegs, WireRegs, EndRegs, BoundaryRegs, PassingRegs,
                   PipelineLevel
  <2>1. CASE l.style = "REG"
    BY <2>1
  <2>2. CASE l.style \in {"LUT", "WIRE"}
    BY <2>2
  <2>3. CASE l.style = "DOUBLE_REG"
    BY <2>3
  <2>4. CASE l.style = "INVERT_CLOCK"
    BY <2>4
  <2> QED
    BY <2>1, <2>2, <2>3, <2>4 DEF Styles
<1> HIDE DEF level
<1> QED
  BY <1>1, <1>2, <1>3 DEF GracePeriod, RealDepth

(***************************************************************************)
(* Registers in a row that shift by one: the number of marks changes by    *)
(* what enters and what leaves.                                            *)
(***************************************************************************)
LEMMA MarksShift ==
  ASSUME NEW n \in Nat \ {0}, NEW S \in SUBSET (1 .. n), NEW T \in SUBSET (1 .. n),
         \A i \in 2 .. n : i \in T <=> i - 1 \in S
  PROVE  /\ Cardinality(S) \in Nat /\ Cardinality(T) \in Nat
         /\ Cardinality(S) <= n
         /\ n \in S => Cardinality(S) >= 1
         /\ Cardinality(T) = Cardinality(S) + (IF 1 \in T THEN 1 ELSE 0)
                                            - (IF n \in S THEN 1 ELSE 0)
<1> DEFINE S0 == S \ {n}
           T0 == T \ {1}
           f == [i \in S0 |-> i + 1]
<1>1. IsFiniteSet(1 .. n) /\ Cardinality(1 .. n) = n
  BY FS_Interval
<1>2. /\ IsFiniteSet(S) /\ IsFiniteSet(T) /\ Cardinality(S) <= n
  BY <1>1, FS_Subset
<1>3. /\ IsFiniteSet(S0) /\ IsFiniteSet(T0)
      /\ Cardinality(S0) = IF n \in S THEN Cardinality(S) - 1 ELSE Cardinality(S)
      /\ Cardinality(T0) = IF 1 \in T THEN Cardinality(T) - 1 ELSE Cardinality(T)
  BY <1>2, FS_RemoveElement
<1>4. f \in Bijection(S0, T0)
  <2>1. ASSUME NEW i \in S0 PROVE f[i] \in T0
    BY <2>1
  <2>2. ASSUME NEW i \in S0, NEW j \in S0, f[i] = f[j] PROVE i = j
    BY <2>2
  <2>3. ASSUME NEW t \in T0 PROVE \E i \in S0 : f[i] = t
    <3>1. t \in 2 .. n /\ t - 1 \in S /\ t - 1 # n
      OBVIOUS
    <3> QED
      BY <3>1
  <2> QED
    BY <2>1, <2>2, <2>3 DEF Bijection, Injection, IsInjective, Surjection
<1>5. Cardinality(T0) = Cardinality(S0)
  BY <1>3, <1>4, FS_Bijection DEF ExistsBijection
<1>6. Cardinality(S) \in Nat /\ Cardinality(T) \in Nat /\ Cardinality(S0) \in Nat
  BY <1>2, <1>3, FS_CardinalityType
<1> QED
  BY <1>2, <1>3, <1>5, <1>6

-----------------------------------------------------------------------------
(* The FIFOs.                                                              *)

LEMMA SrlStep ==
  ASSUME NEW c, c.depth \in Nat, c.depth > 1, NEW f, SrlTypeOK(c, f),
         NEW write \in BOOLEAN, NEW din \in Item, NEW read \in BOOLEAN,
         write => f.mOutPtr + 1 < c.depth
  PROVE  /\ SrlTypeOK(c, SrlEdge(c, f, write, din, read))
         /\ SrlEdge(c, f, write, din, read).mOutPtr <= f.mOutPtr + (IF write THEN 1 ELSE 0)
         /\ SrlDout(f) \in Item
<1> DEFINE pops == SrlPops(f, write, read)
           pushes == SrlPushes(f, write, read)
           g == SrlEdge(c, f, write, din, read)
<1> USE DEF SrlTypeOK
<1>1. /\ f.mOutPtr \in -1 .. c.depth - 1
      /\ f.internal_empty_n \in BOOLEAN /\ f.internal_full_n \in BOOLEAN
      /\ f.SRL_SIG \in [0 .. c.depth - 1 -> Item]
      /\ f.internal_empty_n = (f.mOutPtr # -1)
      /\ f.internal_full_n = (f.mOutPtr # c.depth - 1)
  OBVIOUS
<1>2. /\ g.mOutPtr = IF pops THEN f.mOutPtr - 1 ELSE IF pushes THEN f.mOutPtr + 1 ELSE f.mOutPtr
      /\ g.internal_empty_n = ((f.internal_empty_n /\ ~(pops /\ f.mOutPtr = 0)) \/ pushes)
      /\ g.internal_full_n = ((f.internal_full_n /\ ~(pushes /\ f.mOutPtr = c.depth - 2)) \/ pops)
      /\ g.SRL_SIG = IF write /\ f.internal_full_n
                     THEN [a \in 0 .. c.depth - 1 |-> IF a = 0 THEN din ELSE f.SRL_SIG[a - 1]]
                     ELSE f.SRL_SIG
      /\ g = [mOutPtr |-> g.mOutPtr, internal_empty_n |-> g.internal_empty_n,
              internal_full_n |-> g.internal_full_n, SRL_SIG |-> g.SRL_SIG]
  BY DEF SrlEdge
<1>3. /\ pops <=> (read /\ f.internal_empty_n /\ (~write \/ ~f.internal_full_n))
      /\ pushes <=> ((~read \/ ~f.internal_empty_n) /\ write /\ f.internal_full_n)
      /\ pops \in BOOLEAN /\ pushes \in BOOLEAN
  BY <1>1 DEF SrlPops, SrlPushes
<1> HIDE DEF pops, pushes, g
<1>4. /\ g.mOutPtr \in -1 .. c.depth - 1
      /\ g.mOutPtr <= f.mOutPtr + (IF write THEN 1 ELSE 0)
  BY <1>1, <1>2, <1>3
<1>5. g.internal_empty_n <=> (g.mOutPtr # -1)
  BY <1>1, <1>2, <1>3
<1>6. g.internal_full_n <=> (g.mOutPtr # c.depth - 1)
  BY <1>1, <1>2, <1>3
<1>7. g.SRL_SIG \in [0 .. c.depth - 1 -> Item]
  <2>1. ASSUME NEW a \in 0 .. c.depth - 1, a # 0 PROVE f.SRL_SIG[a - 1] \in Item
    BY <1>1, <2>1
  <2> QED
    BY <1>1, <1>2, <2>1
<1>8. g.internal_empty_n \in BOOLEAN /\ g.internal_full_n \in BOOLEAN
  BY <1>1, <1>2, <1>3
<1>9. SrlDout(f) \in Item
  BY <1>1 DEF SrlDout
<1> QED
  BY <1>2, <1>4, <1>5, <1>6, <1>7, <1>8, <1>9 DEF g

LEMMA BramStep ==
  ASSUME NEW c, c.depth \in Nat, c.depth > 1, NEW f, BramTypeOK(c, f),
         NEW write \in BOOLEAN, NEW din \in Item, NEW read \in BOOLEAN,
         write => f.used + 1 < c.depth
  PROVE  /\ BramTypeOK(c, BramEdge(c, f, write, din, read))
         /\ BramEdge(c, f, write, din, read).used <= f.used + (IF write THEN 1 ELSE 0)
<1> DEFINE push == BramPush(f, write)
           pop == BramPop(f, read)
           rnext == IF pop THEN NextAddress(c, f.raddr) ELSE f.raddr
           g == BramEdge(c, f, write, din, read)
<1> USE DEF BramTypeOK
<1>1. /\ f.mem \in [0 .. c.depth - 1 -> Item]
      /\ f.q_buf \in Item /\ f.q_tmp \in Item /\ f.dout_buf \in Item
      /\ f.waddr \in 0 .. c.depth - 1 /\ f.raddr \in 0 .. c.depth - 1
      /\ f.used \in 0 .. c.depth - 1
      /\ f.full_n \in BOOLEAN /\ f.empty_n \in BOOLEAN
      /\ f.show_ahead \in BOOLEAN /\ f.dout_valid \in BOOLEAN
      /\ f.empty_n = (f.used # 0)
      /\ f.full_n
  OBVIOUS
<1>2. /\ g.mem = IF push THEN [f.mem EXCEPT ![f.waddr] = din] ELSE f.mem
      /\ g.q_buf = f.mem[rnext]
      /\ g.q_tmp = IF push THEN din ELSE f.q_tmp
      /\ g.dout_buf = IF pop THEN IF f.show_ahead THEN f.q_tmp ELSE f.q_buf ELSE f.dout_buf
      /\ g.waddr = IF push THEN NextAddress(c, f.waddr) ELSE f.waddr
      /\ g.raddr = rnext
  BY DEF BramEdge
<1>3. /\ g.used = IF push = pop THEN f.used
                  ELSE InWidth(c, IF push THEN f.used + 1 ELSE f.used - 1)
      /\ g.full_n = IF push = pop THEN f.full_n ELSE pop \/ f.used # c.depth - 1
      /\ g.empty_n = IF push = pop THEN f.empty_n ELSE push \/ f.used # 1
      /\ g.show_ahead = ShowAhead(f, push, pop)
      /\ g.dout_valid = (pop \/ (f.dout_valid /\ ~read))
  BY DEF BramEdge
<1>4. g = [mem |-> g.mem, q_buf |-> g.q_buf, q_tmp |-> g.q_tmp, dout_buf |-> g.dout_buf,
           waddr |-> g.waddr, raddr |-> g.raddr, used |-> g.used, full_n |-> g.full_n,
           empty_n |-> g.empty_n, show_ahead |-> g.show_ahead, dout_valid |-> g.dout_valid]
  BY DEF BramEdge
<1>5. /\ push \in BOOLEAN /\ pop \in BOOLEAN /\ ShowAhead(f, push, pop) \in BOOLEAN
      /\ push <=> write
      /\ pop => f.used # 0
  BY <1>1 DEF BramPush, BramPop, ShowAhead
<1>6. ASSUME NEW a \in 0 .. c.depth - 1 PROVE NextAddress(c, a) \in 0 .. c.depth - 1
  BY DEF NextAddress
<1>7. rnext \in 0 .. c.depth - 1
  BY <1>1, <1>6
<1> HIDE DEF push, pop, rnext, g
<1>8. /\ g.mem \in [0 .. c.depth - 1 -> Item]
      /\ g.q_buf \in Item /\ g.q_tmp \in Item /\ g.dout_buf \in Item
      /\ g.waddr \in 0 .. c.depth - 1 /\ g.raddr \in 0 .. c.depth - 1
  <2>1. g.mem \in [0 .. c.depth - 1 -> Item]
    BY <1>1, <1>2
  <2>2. f.mem[rnext] \in Item
    BY <1>1, <1>7
  <2>3. g.q_buf \in Item /\ g.q_tmp \in Item /\ g.dout_buf \in Item
    BY <1>1, <1>2, <2>2
  <2>4. g.waddr \in 0 .. c.depth - 1 /\ g.raddr \in 0 .. c.depth - 1
    BY <1>1, <1>2, <1>6, <1>7
  <2> QED
    BY <2>1, <2>3, <2>4
<1>9. /\ g.used = IF push = pop THEN f.used ELSE IF push THEN f.used + 1 ELSE f.used - 1
      /\ g.used \in 0 .. c.depth - 1
      /\ g.used <= f.used + (IF write THEN 1 ELSE 0)
  BY <1>1, <1>3, <1>5 DEF InWidth
<1>10. g.full_n = TRUE
  BY <1>1, <1>3, <1>5
<1>11. g.empty_n = (g.used # 0)
  BY <1>1, <1>3, <1>5, <1>9
<1>12. g.show_ahead \in BOOLEAN /\ g.dout_valid \in BOOLEAN
  BY <1>1, <1>3, <1>5
<1>13. g \in [mem : [0 .. c.depth - 1 -> Item], q_buf : Item, q_tmp : Item, dout_buf : Item,
            waddr : 0 .. c.depth - 1, raddr : 0 .. c.depth - 1, used : 0 .. c.depth - 1,
            full_n : BOOLEAN, empty_n : BOOLEAN, show_ahead : BOOLEAN, dout_valid : BOOLEAN]
  <2>1. g.full_n \in BOOLEAN /\ g.empty_n \in BOOLEAN
    BY <1>10, <1>11
  <2> QED
    BY <1>4, <1>8, <1>9, <1>12, <2>1
<1> QED
  BY <1>9, <1>10, <1>11, <1>13 DEF g

(***************************************************************************)
(* One rising edge of the clock, of either version.                        *)
(***************************************************************************)
LEMMA FifoStep ==
  ASSUME NEW c, c.depth \in Nat, c.depth > 1, NEW f, FifoTypeOK(c, f),
         NEW write \in BOOLEAN, NEW din \in Item, NEW read \in BOOLEAN,
         write => Held(c, f) + 1 <= Room(c)
  PROVE  /\ FifoTypeOK(c, FifoEdge(c, f, write, din, read))
         /\ Held(c, f) \in Nat
         /\ Held(c, FifoEdge(c, f, write, din, read)) \in Nat
         /\ Held(c, FifoEdge(c, f, write, din, read)) <= Held(c, f) + (IF write THEN 1 ELSE 0)
         /\ if_dout(c, f) \in Item
<1>1. CASE c.kind = "srl"
  <2>1. SrlTypeOK(c, f) /\ (write => f.mOutPtr + 1 < c.depth)
    BY <1>1 DEF FifoTypeOK, Held, Room, SrlTypeOK
  <2>2. /\ SrlTypeOK(c, SrlEdge(c, f, write, din, read))
        /\ SrlEdge(c, f, write, din, read).mOutPtr <= f.mOutPtr + (IF write THEN 1 ELSE 0)
        /\ SrlDout(f) \in Item
    BY <2>1, SrlStep
  <2>3. /\ f.mOutPtr \in -1 .. c.depth - 1
        /\ SrlEdge(c, f, write, din, read).mOutPtr \in -1 .. c.depth - 1
    BY <2>1, <2>2 DEF SrlTypeOK
  <2> QED
    BY <1>1, <2>2, <2>3 DEF FifoTypeOK, FifoEdge, Held, if_dout
<1>2. CASE c.kind # "srl"
  <2>1. BramTypeOK(c, f) /\ (write => f.used + 1 < c.depth)
    BY <1>2 DEF FifoTypeOK, Held, Room, BramTypeOK
  <2>2. /\ BramTypeOK(c, BramEdge(c, f, write, din, read))
        /\ BramEdge(c, f, write, din, read).used <= f.used + (IF write THEN 1 ELSE 0)
    BY <2>1, BramStep
  <2>3. /\ f.used \in 0 .. c.depth - 1 /\ f.dout_buf \in Item
        /\ BramEdge(c, f, write, din, read).used \in 0 .. c.depth - 1
    BY <2>1, <2>2 DEF BramTypeOK
  <2> QED
    BY <1>2, <2>2, <2>3 DEF FifoTypeOK, FifoEdge, Held, if_dout
<1> QED
  BY <1>1, <1>2

-----------------------------------------------------------------------------
(* The link.                                                               *)

LinkInv == LinkTypeOK /\ CreditsCovered

LEMMA ZeroIsItem == 0 \in Item
  BY TagsAssumption DEF Item

LEMMA LinkInvInit == ASSUME LinkInit PROVE LinkInv
<1> USE DEF LinkInit, PowerUp
<1>1. /\ ForwardRegs(link) \in Nat \ {0} /\ BackwardRegs(link) \in Nat \ {0}
      /\ link.depth \in Nat /\ link.depth >= 4
  BY GraceCoversRegisters
<1>2. FifoTypeOK(link, fifo) /\ Held(link, fifo) = 0
  <2>1. CASE link.kind = "srl"
    <3>1. fifo = SrlReset(link)
      BY <2>1 DEF FifoReset
    <3>2. /\ fifo.mOutPtr = -1 /\ fifo.internal_empty_n = FALSE /\ fifo.internal_full_n = TRUE
          /\ -1 \in -1 .. link.depth - 1 /\ -1 # link.depth - 1
      BY <1>1, <3>1 DEF SrlReset
    <3>3. fifo \in [mOutPtr : -1 .. link.depth - 1, internal_empty_n : BOOLEAN,
                   internal_full_n : BOOLEAN, SRL_SIG : [0 .. link.depth - 1 -> Item]]
      BY <3>1, <3>2, ZeroIsItem DEF SrlReset
    <3> QED
      BY <2>1, <3>2, <3>3 DEF FifoTypeOK, SrlTypeOK, Held
  <2>2. CASE link.kind # "srl"
    <3>1. fifo = BramReset(link)
      BY <2>2 DEF FifoReset
    <3>2. /\ fifo.used = 0 /\ fifo.empty_n = FALSE /\ fifo.full_n = TRUE
          /\ 0 \in 0 .. link.depth - 1
      BY <1>1, <3>1 DEF BramReset
    <3>3. fifo \in [mem : [0 .. link.depth - 1 -> Item], q_buf : Item, q_tmp : Item,
                   dout_buf : Item, waddr : 0 .. link.depth - 1, raddr : 0 .. link.depth - 1,
                   used : 0 .. link.depth - 1, full_n : BOOLEAN, empty_n : BOOLEAN,
                   show_ahead : BOOLEAN, dout_valid : BOOLEAN]
      BY <3>1, <3>2, ZeroIsItem DEF BramReset
    <3> QED
      BY <2>2, <3>2, <3>3 DEF FifoTypeOK, BramTypeOK, Held
  <2> QED
    BY <2>1, <2>2
<1>3. LinkTypeOK
  BY <1>1, <1>2, ZeroIsItem DEF LinkTypeOK, NoWrites, NoCredits, Idle
<1>4. UnderWay = {} /\ Granted = {}
  BY DEF UnderWay, Granted, NoWrites, NoCredits, Idle
<1>5. 0 <= Room(link)
  BY <1>1 DEF Room
<1> QED
  BY <1>2, <1>3, <1>4, <1>5, FS_EmptySet DEF LinkInv, CreditsCovered

(***************************************************************************)
(* If full_n leaves the FIFO, registers that all carry something would not *)
(* fill it.                                                                *)
(***************************************************************************)
LEMMA FullNMeansRoom ==
  ASSUME LinkTypeOK, if_full_n(link, fifo)
  PROVE  Held(link, fifo) + ForwardRegs(link) + BackwardRegs(link) + 1 <= Room(link)
<1>1. /\ ForwardRegs(link) \in Nat \ {0} /\ BackwardRegs(link) \in Nat \ {0}
      /\ link.depth \in Nat /\ link.grace \in Nat /\ link.depth >= link.grace + 4
      /\ ForwardRegs(link) + BackwardRegs(link) <= link.grace
  BY GraceCoversRegisters DEF LinkTypeOK
<1>2. CASE link.kind = "srl"
  <2>1. fifo.mOutPtr \in -1 .. link.depth - 1
    BY <1>2 DEF LinkTypeOK, FifoTypeOK, SrlTypeOK
  <2>2. ~(fifo.mOutPtr >= link.depth - 1 - link.grace) \/ fifo.mOutPtr = -1
    BY <1>2 DEF if_full_n, SrlAlmostFull
  <2> QED
    BY <1>1, <1>2, <2>1, <2>2 DEF Held, Room
<1>3. CASE link.kind # "srl"
  <2>1. fifo.used \in 0 .. link.depth - 1
    BY <1>3 DEF LinkTypeOK, FifoTypeOK, BramTypeOK
  <2>2. ~(fifo.used >= link.depth - 1 - link.grace)
    BY <1>3 DEF if_full_n, BramAlmostFull
  <2> QED
    BY <1>1, <1>3, <2>1, <2>2 DEF Held, Room
<1> QED
  BY <1>2, <1>3

(***************************************************************************)
(* One cycle of the registers: what enters and leaves them, and that the   *)
(* FIFO has room for what it is given.                                     *)
(***************************************************************************)
LEMMA CycleCounts ==
  ASSUME LinkInv, NEW send \in BOOLEAN, NEW receive \in BOOLEAN, Cycle(send, receive)
  PROVE  /\ AtFifo.write \in BOOLEAN /\ AtFifo.din \in Item /\ SeenFullN \in BOOLEAN
         /\ if_full_n(link, fifo) \in BOOLEAN
         /\ Held(link, fifo) \in Nat /\ Room(link) \in Nat
         /\ Cardinality(UnderWay) \in Nat /\ Cardinality(UnderWay)' \in Nat
         /\ Cardinality(UnderWay) <= ForwardRegs(link)
         /\ AtFifo.write => Cardinality(UnderWay) >= 1
         /\ Cardinality(UnderWay)' = Cardinality(UnderWay) + (IF send THEN 1 ELSE 0)
                                       - (IF AtFifo.write THEN 1 ELSE 0)
         /\ Cardinality(Granted) \in Nat /\ Cardinality(Granted)' \in Nat
         /\ Cardinality(Granted) <= BackwardRegs(link)
         /\ Cardinality(Granted)' = Cardinality(Granted)
               + (IF if_full_n(link, fifo) THEN 1 ELSE 0) - (IF SeenFullN THEN 1 ELSE 0)
         /\ UnderWay' \in SUBSET (1 .. ForwardRegs(link))
         /\ 1 \in UnderWay' <=> send
         /\ \A i \in 2 .. ForwardRegs(link) : i \in UnderWay' <=> i - 1 \in UnderWay
         /\ AtFifo.write => Held(link, fifo) + 1 <= Room(link)
<1> DEFINE F == ForwardRegs(link)
           B == BackwardRegs(link)
<1>1. /\ F \in Nat \ {0} /\ B \in Nat \ {0} /\ link.depth \in Nat /\ link.depth > 1
  BY GraceCoversRegisters DEF LinkInv, LinkTypeOK
<1>2. /\ link' = link
      /\ fwd' = [i \in 1 .. F |-> IF i > 1 THEN fwd[i - 1]
                                  ELSE IF send THEN [write |-> TRUE, din |-> next] ELSE Idle]
      /\ back' = [i \in 1 .. B |-> IF i > 1 THEN back[i - 1] ELSE if_full_n(link, fifo)]
  BY DEF Cycle
<1>3. /\ fwd \in [1 .. F -> [write : BOOLEAN, din : Item]]
      /\ back \in [1 .. B -> BOOLEAN]
      /\ FifoTypeOK(link, fifo)
  BY DEF LinkInv, LinkTypeOK
<1>4. UnderWay \in SUBSET (1 .. F) /\ Granted \in SUBSET (1 .. B)
  BY DEF UnderWay, Granted
<1>5. /\ UnderWay' = {i \in 1 .. F : fwd'[i].write}
      /\ Granted' = {i \in 1 .. B : back'[i]}
  BY <1>2 DEF UnderWay, Granted
<1> HIDE DEF F, B
<1>6. /\ F \in UnderWay <=> fwd[F].write
      /\ B \in Granted <=> back[B]
      /\ 1 \in UnderWay' <=> send
      /\ 1 \in Granted' <=> if_full_n(link, fifo)
      /\ \A i \in 2 .. F : i \in UnderWay' <=> i - 1 \in UnderWay
      /\ \A i \in 2 .. B : i \in Granted' <=> i - 1 \in Granted
      /\ UnderWay' \in SUBSET (1 .. F) /\ Granted' \in SUBSET (1 .. B)
  BY <1>1, <1>2, <1>3, <1>5 DEF UnderWay, Granted, Idle, F, B
<1>7. /\ Cardinality(UnderWay) \in Nat /\ Cardinality(UnderWay)' \in Nat
      /\ Cardinality(UnderWay) <= F
      /\ F \in UnderWay => Cardinality(UnderWay) >= 1
      /\ Cardinality(UnderWay)' = Cardinality(UnderWay) + (IF send THEN 1 ELSE 0)
                                    - (IF fwd[F].write THEN 1 ELSE 0)
  BY <1>1, <1>4, <1>6, MarksShift
<1>8. /\ Cardinality(Granted) \in Nat /\ Cardinality(Granted)' \in Nat
      /\ Cardinality(Granted) <= B
      /\ Cardinality(Granted)' = Cardinality(Granted)
            + (IF if_full_n(link, fifo) THEN 1 ELSE 0) - (IF back[B] THEN 1 ELSE 0)
  BY <1>1, <1>4, <1>6, MarksShift
<1>9. /\ fwd[F].write \in BOOLEAN /\ fwd[F].din \in Item /\ back[B] \in BOOLEAN
      /\ if_full_n(link, fifo) \in BOOLEAN
  BY <1>1, <1>3 DEF if_full_n
<1>10. Held(link, fifo) \in Nat /\ Room(link) \in Nat
  BY <1>1, <1>3 DEF Held, Room, FifoTypeOK, SrlTypeOK, BramTypeOK
<1>11. fwd[F].write => Held(link, fifo) + 1 <= Room(link)
  <2>1. fwd[F].write => Cardinality(UnderWay) >= 1
    BY <1>6, <1>7
  <2> QED
    BY <2>1, <1>7, <1>8, <1>10 DEF LinkInv, CreditsCovered
<1>12. AtFifo = fwd[F] /\ SeenFullN = back[B] /\ F = ForwardRegs(link) /\ B = BackwardRegs(link)
  BY DEF AtFifo, SeenFullN, F, B
<1> HIDE DEF AtFifo, SeenFullN
<1> QED
  BY <1>6, <1>7, <1>8, <1>9, <1>10, <1>11, <1>12

LEMMA LinkInvStep == ASSUME LinkInv, [Clock]_linkVars PROVE LinkInv'
<1> USE DEF LinkInv
<1> DEFINE F == ForwardRegs(link)
           B == BackwardRegs(link)
<1>1. CASE UNCHANGED linkVars
  BY <1>1 DEF linkVars, LinkTypeOK, CreditsCovered, UnderWay, Granted
<1>2. ASSUME NEW send \in BOOLEAN, NEW receive \in BOOLEAN, Cycle(send, receive)
      PROVE  LinkInv'
  <2> DEFINE writes == AtFifo.write
             full_n == if_full_n(link, fifo)
             w == Cardinality(UnderWay)
             w2 == Cardinality(UnderWay)'
             c == Cardinality(Granted)
             c2 == Cardinality(Granted)'
             h == Held(link, fifo)
             h2 == Held(link, fifo')
             room == Room(link)
  <2>1. /\ F \in Nat \ {0} /\ B \in Nat \ {0} /\ link.depth \in Nat /\ link.depth > 1
    BY GraceCoversRegisters DEF LinkTypeOK
  <2>2. /\ send => SeenFullN
        /\ link' = link
        /\ fwd' = [i \in 1 .. F |-> IF i > 1 THEN fwd[i - 1]
                                    ELSE IF send THEN [write |-> TRUE, din |-> next] ELSE Idle]
        /\ back' = [i \in 1 .. B |-> IF i > 1 THEN back[i - 1] ELSE full_n]
        /\ fifo' = FifoEdge(link, fifo, writes, AtFifo.din, receive)
        /\ next' = IF send THEN (next + 1) % Tags ELSE next
        /\ got' = IF receive THEN if_dout(link, fifo) ELSE got
    BY <1>2 DEF Cycle
  <2>3. /\ fwd \in [1 .. F -> [write : BOOLEAN, din : Item]]
        /\ back \in [1 .. B -> BOOLEAN]
        /\ FifoTypeOK(link, fifo) /\ IsLink(link)
        /\ next \in Item /\ got \in Item
    BY DEF LinkTypeOK
  <2>4. /\ writes \in BOOLEAN /\ AtFifo.din \in Item /\ SeenFullN \in BOOLEAN
        /\ full_n \in BOOLEAN
        /\ h \in Nat /\ room \in Nat
        /\ w \in Nat /\ w2 \in Nat /\ w <= F
        /\ w2 = w + (IF send THEN 1 ELSE 0) - (IF writes THEN 1 ELSE 0)
        /\ c \in Nat /\ c2 \in Nat /\ c <= B
        /\ c2 = c + (IF full_n THEN 1 ELSE 0) - (IF SeenFullN THEN 1 ELSE 0)
        /\ writes => h + 1 <= room
    BY <1>2, CycleCounts
  <2>5. /\ FifoTypeOK(link, fifo')
        /\ h2 \in Nat
        /\ h2 <= h + (IF writes THEN 1 ELSE 0)
        /\ if_dout(link, fifo) \in Item
    BY <2>1, <2>2, <2>3, <2>4, FifoStep
  <2>6. LinkTypeOK'
    <3>1. fwd' \in [1 .. F -> [write : BOOLEAN, din : Item]]
      BY <2>1, <2>2, <2>3, ZeroIsItem DEF Idle
    <3>2. back' \in [1 .. B -> BOOLEAN]
      BY <2>1, <2>2, <2>3, <2>4
    <3>3. next' \in Item /\ got' \in Item
      BY <2>2, <2>3, <2>5, TagsAssumption DEF Item
    <3> QED
      BY <2>2, <2>3, <2>5, <3>1, <3>2, <3>3 DEF LinkTypeOK
  <2>7. CreditsCovered'
    <3> DEFINE seen == SeenFullN
    <3>1. full_n => h + F + B + 1 <= room
      BY FullNMeansRoom
    <3>2. h + w + c <= room
      BY DEF CreditsCovered
    <3>3. send => seen
      BY <2>2
    <3>4. seen \in BOOLEAN /\ c2 = c + (IF full_n THEN 1 ELSE 0) - (IF seen THEN 1 ELSE 0)
      BY <2>4
    <3> HIDE DEF h, h2, w, w2, c, c2, writes, full_n, seen, room, F, B
    <3>5. h2 + w2 + c2 <= room
      BY <2>1, <2>4, <2>5, <3>1, <3>2, <3>3, <3>4
    <3> QED
      BY <3>5, <2>2 DEF CreditsCovered, h2, w2, c2, room
  <2> QED
    BY <2>6, <2>7
<1> QED
  BY <1>1, <1>2 DEF Clock

(***************************************************************************)
(* The state in which no write finds a full FIFO.                          *)
(***************************************************************************)
LEMMA CoveredMeansRoom == ASSUME LinkInv PROVE NothingDropped
<1> SUFFICES ASSUME AtFifo.write PROVE HasRoom(link, fifo)
  BY DEF NothingDropped
<1>1. /\ ForwardRegs(link) \in Nat \ {0} /\ BackwardRegs(link) \in Nat \ {0}
      /\ link.depth \in Nat
  BY GraceCoversRegisters DEF LinkInv, LinkTypeOK
<1>2. ForwardRegs(link) \in UnderWay /\ UnderWay \in SUBSET (1 .. ForwardRegs(link))
      /\ Granted \in SUBSET (1 .. BackwardRegs(link))
  BY <1>1 DEF UnderWay, Granted, AtFifo
<1>3. IsFiniteSet(UnderWay) /\ IsFiniteSet(Granted)
  <2>1. IsFiniteSet(1 .. ForwardRegs(link)) /\ IsFiniteSet(1 .. BackwardRegs(link))
    BY <1>1, FS_Interval
  <2> QED
    BY <1>2, <2>1, FS_Subset
<1>4. Cardinality(UnderWay) \in Nat /\ Cardinality(UnderWay) # 0 /\ Cardinality(Granted) \in Nat
  BY <1>2, <1>3, FS_CardinalityType, FS_EmptySet
<1>5. CASE link.kind = "srl"
  <2>1. /\ fifo.mOutPtr \in -1 .. link.depth - 1
        /\ fifo.internal_full_n = (fifo.mOutPtr # link.depth - 1)
    BY <1>5 DEF LinkInv, LinkTypeOK, FifoTypeOK, SrlTypeOK
  <2>2. fifo.mOutPtr + 1 + Cardinality(UnderWay) + Cardinality(Granted) <= link.depth
    BY <1>5 DEF LinkInv, CreditsCovered, Held, Room
  <2>3. fifo.mOutPtr # link.depth - 1
    BY <1>1, <1>4, <2>1, <2>2
  <2> QED
    BY <1>5, <2>1, <2>3 DEF HasRoom
<1>6. CASE link.kind # "srl"
  BY <1>6 DEF LinkInv, LinkTypeOK, FifoTypeOK, BramTypeOK, HasRoom
<1> QED
  BY <1>5, <1>6

(***************************************************************************)
(* NothingDropped: the grace period covers the round trip, for each style, *)
(* plan, depth, version and length.                                        *)
(***************************************************************************)
THEOREM NothingIsDropped == LinkSpec => []NothingDropped
  BY LinkInvInit, LinkInvStep, CoveredMeansRoom, PTL DEF LinkSpec

-----------------------------------------------------------------------------
(* The items in the FIFO.  V[m] is the item sent m sends ago, b the number *)
(* of items on their way.                                                  *)

SrlPlaced(f, V, b) == \A a \in 0 .. f.mOutPtr : f.SRL_SIG[a] = V[b + a + 1]

\* What the RAM gives next: q_buf, or q_tmp when the item went around it.
BramHead(f) == IF f.show_ahead THEN f.q_tmp ELSE f.q_buf

BramPlaced(c, f, V, b) ==
  /\ f.waddr = Cell(c, f.raddr, f.used + 1)
  /\ f.used # 0 => BramHead(f) = f.mem[f.raddr]
  /\ \A i \in 1 .. f.used : f.mem[Cell(c, f.raddr, i)] = V[b + f.used + 1 - i]
  /\ f.dout_valid => f.dout_buf = V[b + f.used + 1]

Placed(c, f, V, b) == IF c.kind = "srl" THEN SrlPlaced(f, V, b) ELSE BramPlaced(c, f, V, b)

Stored(c, f) == IF c.kind = "srl" THEN f.mOutPtr + 1 ELSE InBuffer(f) + f.used

One(x) == IF x THEN 1 ELSE 0

LEMMA SrlOrder ==
  ASSUME NEW c, c.depth \in Nat, c.depth > 1, NEW f, SrlTypeOK(c, f),
         NEW write \in BOOLEAN, NEW din \in Item, NEW read \in BOOLEAN,
         write => f.mOutPtr + 1 < c.depth,
         read => f.internal_empty_n,
         NEW V, NEW b \in Nat, NEW d \in Nat, d = b - One(write),
         write => din = V[b],
         SrlPlaced(f, V, b)
  PROVE  /\ SrlPlaced(SrlEdge(c, f, write, din, read), V, d)
         /\ SrlEdge(c, f, write, din, read).mOutPtr = f.mOutPtr + One(write) - One(read)
         /\ read => SrlDout(f) = V[b + f.mOutPtr + 1]
<1> DEFINE pops == SrlPops(f, write, read)
           pushes == SrlPushes(f, write, read)
           g == SrlEdge(c, f, write, din, read)
<1>1. /\ f.mOutPtr \in -1 .. c.depth - 1
      /\ f.internal_empty_n \in BOOLEAN /\ f.internal_full_n \in BOOLEAN
      /\ f.SRL_SIG \in [0 .. c.depth - 1 -> Item]
      /\ f.internal_empty_n = (f.mOutPtr # -1)
      /\ f.internal_full_n = (f.mOutPtr # c.depth - 1)
  BY DEF SrlTypeOK
<1>2. /\ g.mOutPtr = IF pops THEN f.mOutPtr - 1 ELSE IF pushes THEN f.mOutPtr + 1 ELSE f.mOutPtr
      /\ g.SRL_SIG = IF write /\ f.internal_full_n
                     THEN [a \in 0 .. c.depth - 1 |-> IF a = 0 THEN din ELSE f.SRL_SIG[a - 1]]
                     ELSE f.SRL_SIG
  BY DEF SrlEdge
<1>3. /\ pops <=> (read /\ f.internal_empty_n /\ (~write \/ ~f.internal_full_n))
      /\ pushes <=> ((~read \/ ~f.internal_empty_n) /\ write /\ f.internal_full_n)
      /\ pops \in BOOLEAN /\ pushes \in BOOLEAN
  BY <1>1 DEF SrlPops, SrlPushes
<1> HIDE DEF pops, pushes, g
<1>4. /\ write => f.internal_full_n
      /\ read => f.mOutPtr # -1
  <2>1. write => f.mOutPtr # c.depth - 1
    BY <1>1
  <2>2. read => f.internal_empty_n
    OBVIOUS
  <2>3. /\ f.internal_empty_n = (f.mOutPtr # -1)
        /\ f.internal_full_n = (f.mOutPtr # c.depth - 1)
    BY <1>1
  <2> QED
    BY <2>1, <2>2, <2>3, Zenon
<1>5. /\ pops <=> read /\ ~write
      /\ pushes <=> write /\ ~read
  <2>1. read => f.internal_empty_n
    OBVIOUS
  <2>2. write => f.internal_full_n
    BY <1>4
  <2> QED
    BY <1>3, <2>1, <2>2, Zenon
<1>6. g.mOutPtr = f.mOutPtr + One(write) - One(read)
  BY <1>1, <1>2, <1>5 DEF One
<1>7. ASSUME NEW a \in 0 .. g.mOutPtr PROVE g.SRL_SIG[a] = V[d + a + 1]
  <2>1. CASE write
    <3>1. /\ a \in 0 .. c.depth - 1 /\ d = b - 1
          /\ a # 0 => a - 1 \in 0 .. f.mOutPtr
      BY <1>1, <1>6, <2>1 DEF One
    <3>2. g.SRL_SIG[a] = IF a = 0 THEN din ELSE f.SRL_SIG[a - 1]
      BY <1>2, <1>4, <2>1, <3>1
    <3>3. CASE a = 0
      <4>1. d + a + 1 = b
        BY <3>1, <3>3
      <4> QED
        BY <2>1, <3>2, <3>3, <4>1
    <3>4. CASE a # 0
      <4>1. f.SRL_SIG[a - 1] = V[b + (a - 1) + 1]
        BY <3>1, <3>4 DEF SrlPlaced
      <4>2. b + (a - 1) + 1 = d + a + 1
        BY <3>1
      <4> QED
        BY <3>2, <3>4, <4>1, <4>2
    <3> QED
      BY <3>3, <3>4
  <2>2. CASE ~write
    <3>1. a \in 0 .. f.mOutPtr /\ d = b
      BY <1>1, <1>6, <2>2 DEF One
    <3> QED
      BY <1>2, <2>2, <3>1 DEF SrlPlaced
  <2> QED
    BY <2>1, <2>2
<1>8. ASSUME read PROVE SrlDout(f) = V[b + f.mOutPtr + 1]
  <2>1. f.mOutPtr \in 0 .. f.mOutPtr
    BY <1>1, <1>4, <1>8
  <2> QED
    BY <1>1, <1>4, <1>8, <2>1 DEF SrlDout, SrlPlaced
<1> QED
  BY <1>6, <1>7, <1>8 DEF SrlPlaced, g

LEMMA Cells ==
  ASSUME NEW c, c.depth \in Nat, c.depth > 1, NEW a \in 0 .. c.depth - 1
  PROVE  /\ \A i \in 1 .. c.depth : Cell(c, a, i) \in 0 .. c.depth - 1
         /\ Cell(c, a, 1) = a
         /\ Cell(c, a, 2) = NextAddress(c, a)
         /\ \A i \in 1 .. c.depth : NextAddress(c, Cell(c, a, i)) = Cell(c, a, i + 1)
         /\ \A i \in 1 .. c.depth : Cell(c, NextAddress(c, a), i) = Cell(c, a, i + 1)
         /\ \A i, j \in 1 .. c.depth : i # j => Cell(c, a, i) # Cell(c, a, j)
  BY DEF Cell, NextAddress

LEMMA BramOrder ==
  ASSUME NEW c, c.depth \in Nat, c.depth > 1, NEW f, BramTypeOK(c, f),
         NEW write \in BOOLEAN, NEW din \in Item, NEW read \in BOOLEAN,
         write => f.used + 1 < c.depth,
         read => f.dout_valid,
         NEW V, NEW b \in Nat, NEW d \in Nat, d = b - One(write),
         write => din = V[b],
         BramPlaced(c, f, V, b)
  PROVE  /\ BramPlaced(c, BramEdge(c, f, write, din, read), V, d)
         /\ InBuffer(BramEdge(c, f, write, din, read)) + BramEdge(c, f, write, din, read).used
              = InBuffer(f) + f.used + One(write) - One(read)
         /\ read => f.dout_buf = V[b + InBuffer(f) + f.used]
<1> DEFINE push == BramPush(f, write)
           pop == BramPop(f, read)
           g == BramEdge(c, f, write, din, read)
           n == f.used
           out == One(pop)
<1>1. /\ f.mem \in [0 .. c.depth - 1 -> Item]
      /\ f.waddr \in 0 .. c.depth - 1 /\ f.raddr \in 0 .. c.depth - 1
      /\ n \in 0 .. c.depth - 1
      /\ f.show_ahead \in BOOLEAN /\ f.dout_valid \in BOOLEAN
      /\ f.empty_n = (n # 0)
      /\ f.full_n
  BY DEF BramTypeOK
<1>2. /\ g.mem = IF push THEN [f.mem EXCEPT ![f.waddr] = din] ELSE f.mem
      /\ g.q_buf = f.mem[g.raddr]
      /\ g.q_tmp = IF push THEN din ELSE f.q_tmp
      /\ g.dout_buf = IF pop THEN BramHead(f) ELSE f.dout_buf
      /\ g.waddr = IF push THEN NextAddress(c, f.waddr) ELSE f.waddr
      /\ g.raddr = IF pop THEN NextAddress(c, f.raddr) ELSE f.raddr
      /\ g.used = IF push = pop THEN n ELSE InWidth(c, IF push THEN n + 1 ELSE n - 1)
      /\ g.show_ahead = ShowAhead(f, push, pop)
      /\ g.dout_valid = (pop \/ (f.dout_valid /\ ~read))
  BY DEF BramEdge, BramHead
<1>3. /\ push \in BOOLEAN /\ pop \in BOOLEAN
      /\ push <=> write
      /\ pop <=> (n # 0 /\ (~f.dout_valid \/ read))
      /\ ShowAhead(f, push, pop) <=> (push /\ n = out)
      /\ ShowAhead(f, push, pop) \in BOOLEAN
  BY <1>1, Zenon DEF BramPush, BramPop, ShowAhead, One
<1>4. /\ f.waddr = Cell(c, f.raddr, n + 1)
      /\ n # 0 => BramHead(f) = f.mem[f.raddr]
      /\ \A i \in 1 .. n : f.mem[Cell(c, f.raddr, i)] = V[b + n + 1 - i]
      /\ f.dout_valid => f.dout_buf = V[b + n + 1]
  BY DEF BramPlaced
<1> HIDE DEF push, pop, g, n, out
<1>5. /\ out \in 0 .. 1
      /\ pop <=> out = 1
      /\ out = 1 => n # 0
      /\ One(push) \in 0 .. 1 /\ One(push) = One(write)
      /\ d = b - One(push)
      /\ n + One(push) < c.depth
  <2>1. One(push) = One(write)
    BY <1>3 DEF One
  <2>2. out \in 0 .. 1 /\ (pop <=> out = 1) /\ One(push) \in 0 .. 1
    BY <1>3 DEF One, out
  <2>3. n + One(push) < c.depth
    BY <1>1, <2>1 DEF One, n
  <2> QED
    BY <1>3, <2>1, <2>2, <2>3
<1>6. g.used = n + One(push) - out /\ g.used \in 0 .. c.depth - 1
  BY <1>1, <1>2, <1>3, <1>5 DEF One, InWidth
<1>7. /\ g.raddr = Cell(c, f.raddr, 1 + out) /\ g.raddr \in 0 .. c.depth - 1
      /\ \A i \in 1 .. c.depth : Cell(c, g.raddr, i) = Cell(c, f.raddr, i + out)
  <2>1. CASE pop
    <3>1. g.raddr = NextAddress(c, f.raddr) /\ out = 1
      BY <1>2, <1>5, <2>1
    <3> QED
      BY <1>1, <3>1, Cells
  <2>2. CASE ~pop
    <3>1. g.raddr = f.raddr /\ out = 0
      BY <1>2, <1>5, <2>2
    <3> QED
      BY <1>1, <3>1, Cells
  <2> QED
    BY <2>1, <2>2
<1>8. g.waddr = Cell(c, g.raddr, g.used + 1)
  <2>1. g.waddr = Cell(c, f.raddr, n + 1 + One(push))
    <3>1. CASE push
      <4>1. g.waddr = NextAddress(c, Cell(c, f.raddr, n + 1)) /\ One(push) = 1
        BY <1>2, <1>4, <3>1 DEF One
      <4> QED
        BY <1>1, <4>1, Cells
    <3>2. CASE ~push
      BY <1>1, <1>2, <1>4, <3>2 DEF One
    <3> QED
      BY <3>1, <3>2
  <2>2. Cell(c, g.raddr, g.used + 1) = Cell(c, f.raddr, g.used + 1 + out)
    BY <1>1, <1>5, <1>6, <1>7
  <2>3. g.used + 1 + out = n + 1 + One(push)
    BY <1>1, <1>5, <1>6
  <2> QED
    BY <2>1, <2>2, <2>3
\* A cell of the RAM after the step.
<1>9. ASSUME NEW j \in 1 .. n + One(push)
      PROVE  g.mem[Cell(c, f.raddr, j)] = IF j = n + 1 THEN din
                                             ELSE f.mem[Cell(c, f.raddr, j)]
  <2>1. /\ j \in 1 .. c.depth /\ n + 1 \in 1 .. c.depth
        /\ j = n + 1 => push
    BY <1>1, <1>5 DEF One
  <2>2. /\ Cell(c, f.raddr, j) \in 0 .. c.depth - 1
        /\ j # n + 1 => Cell(c, f.raddr, j) # f.waddr
    <3>1. /\ Cell(c, f.raddr, j) \in 0 .. c.depth - 1
          /\ j # n + 1 => Cell(c, f.raddr, j) # Cell(c, f.raddr, n + 1)
      BY <1>1, <2>1, Cells
    <3> QED
      BY <1>4, <3>1
  <2>3. CASE push
    <3>1. g.mem = [f.mem EXCEPT ![f.waddr] = din]
      BY <1>2, <2>3
    <3> QED
      BY <1>1, <1>4, <2>2, <3>1
  <2>4. CASE ~push
    BY <1>2, <2>1, <2>4
  <2> QED
    BY <2>3, <2>4
<1>10. ASSUME NEW i \in 1 .. g.used
       PROVE  g.mem[Cell(c, g.raddr, i)] = V[d + g.used + 1 - i]
  <2> DEFINE j == i + out
  <2>1. /\ j \in 1 .. n + One(push) /\ i \in 1 .. c.depth
        /\ j # n + 1 => j \in 1 .. n
        /\ j = n + 1 => One(push) = 1
    BY <1>1, <1>5, <1>6
  <2>2. d + g.used + 1 - i = b + n + 1 - j
    BY <1>1, <1>5, <1>6
  <2>5. Cell(c, g.raddr, i) = Cell(c, f.raddr, j)
    BY <1>7, <2>1
  <2> HIDE DEF j
  <2>3. CASE j = n + 1
    <3>1. din = V[b] /\ b + n + 1 - j = b
      BY <1>1, <1>5, <2>1, <2>3 DEF One
    <3> QED
      BY <1>9, <2>1, <2>2, <2>3, <2>5, <3>1
  <2>4. CASE j # n + 1
    BY <1>4, <1>9, <2>1, <2>2, <2>4, <2>5
  <2> QED
    BY <2>3, <2>4
<1>11. ASSUME g.used # 0 PROVE BramHead(g) = g.mem[g.raddr]
  <2>1. /\ 1 + out \in 1 .. n + One(push)
        /\ 1 + out = n + 1 <=> n = out
        /\ n = out => push
    BY <1>1, <1>3, <1>5, <1>6, <1>11 DEF One
  <2>2. g.mem[g.raddr] = IF n = out THEN din ELSE f.mem[g.raddr]
    BY <1>7, <1>9, <2>1
  <2>3. CASE n = out
    <3>1. g.show_ahead /\ push
      BY <1>2, <1>3, <2>1, <2>3
    <3> QED
      BY <1>2, <2>2, <2>3, <3>1 DEF BramHead
  <2>4. CASE n # out
    <3>1. ~g.show_ahead
      BY <1>2, <1>3, <2>4
    <3> QED
      BY <1>2, <2>2, <2>4, <3>1 DEF BramHead
  <2> QED
    BY <2>3, <2>4
<1>12. ASSUME g.dout_valid PROVE g.dout_buf = V[d + g.used + 1]
  <2>1. CASE pop
    <3>1. /\ g.dout_buf = f.mem[f.raddr]
          /\ d + g.used + 1 = b + n + 1 - 1
          /\ 1 \in 1 .. n
      <4>1. n # 0 /\ g.dout_buf = f.mem[f.raddr]
        BY <1>2, <1>4, <1>5, <2>1
      <4>2. d + g.used + 1 = b + n + 1 - 1 /\ 1 \in 1 .. n
        BY <1>1, <1>5, <1>6, <2>1
      <4> QED
        BY <4>1, <4>2
    <3>2. f.mem[f.raddr] = V[b + n + 1 - 1]
      BY <1>1, <1>4, <3>1, Cells
    <3> QED
      BY <3>1, <3>2
  <2>2. CASE ~pop
    <3>1. /\ f.dout_valid /\ g.dout_buf = f.dout_buf
          /\ d + g.used + 1 = b + n + 1
      <4>1. f.dout_valid /\ g.dout_buf = f.dout_buf
        BY <1>2, <1>12, <2>2
      <4>2. d + g.used + 1 = b + n + 1
        BY <1>1, <1>5, <1>6, <2>2
      <4> QED
        BY <4>1, <4>2
    <3> QED
      BY <1>4, <3>1
  <2> QED
    BY <2>1, <2>2
<1>13. InBuffer(g) + g.used = InBuffer(f) + n + One(write) - One(read)
  <2>1. InBuffer(g) - out = InBuffer(f) - One(read)
    <3>1. CASE f.dout_valid /\ read
      <4>1. g.dout_valid <=> pop
        BY <1>2, <1>3, <3>1, Zenon
      <4> QED
        BY <1>5, <3>1, <4>1 DEF InBuffer, One
    <3>2. CASE f.dout_valid /\ ~read
      <4>1. g.dout_valid /\ ~pop
        BY <1>2, <1>3, <3>2, Zenon
      <4> QED
        BY <1>5, <3>2, <4>1 DEF InBuffer, One
    <3>3. CASE ~f.dout_valid
      <4>1. ~read /\ (g.dout_valid <=> pop)
        BY <1>2, <1>3, <3>3, Zenon
      <4> QED
        BY <1>5, <3>3, <4>1 DEF InBuffer, One
    <3> QED
      BY <3>1, <3>2, <3>3
  <2>2. InBuffer(g) \in Int /\ InBuffer(f) \in Int /\ One(read) \in Int
    BY DEF InBuffer, One
  <2> QED
    BY <1>1, <1>5, <1>6, <2>1, <2>2
<1>14. ASSUME read PROVE f.dout_buf = V[b + InBuffer(f) + n]
  <2>1. f.dout_valid
    BY <1>14
  <2>2. b + InBuffer(f) + n = b + n + 1
    BY <1>1, <2>1 DEF InBuffer
  <2> QED
    BY <1>4, <2>1, <2>2
<1>15. BramPlaced(c, g, V, d)
  BY <1>8, <1>10, <1>11, <1>12 DEF BramPlaced
<1> QED
  BY <1>13, <1>14, <1>15 DEF g, n

LEMMA FifoOrder ==
  ASSUME NEW c, c.depth \in Nat, c.depth > 1, NEW f, FifoTypeOK(c, f),
         NEW write \in BOOLEAN, NEW din \in Item, NEW read \in BOOLEAN,
         write => Held(c, f) + 1 <= Room(c),
         read => if_empty_n(c, f),
         NEW V, NEW b \in Nat, NEW d \in Nat, d = b - One(write),
         write => din = V[b],
         Placed(c, f, V, b)
  PROVE  /\ Placed(c, FifoEdge(c, f, write, din, read), V, d)
         /\ Stored(c, f) \in Nat
         /\ Stored(c, FifoEdge(c, f, write, din, read))
              = Stored(c, f) + One(write) - One(read)
         /\ read => if_dout(c, f) = V[b + Stored(c, f)] /\ Stored(c, f) # 0
<1>1. CASE c.kind = "srl"
  <2>1. /\ SrlTypeOK(c, f) /\ (write => f.mOutPtr + 1 < c.depth)
        /\ read => f.internal_empty_n
        /\ SrlPlaced(f, V, b)
    BY <1>1 DEF FifoTypeOK, Held, Room, SrlTypeOK, if_empty_n, Placed
  <2>2. /\ SrlPlaced(SrlEdge(c, f, write, din, read), V, d)
        /\ SrlEdge(c, f, write, din, read).mOutPtr = f.mOutPtr + One(write) - One(read)
        /\ read => SrlDout(f) = V[b + f.mOutPtr + 1]
    BY <2>1, SrlOrder
  <2>3. f.mOutPtr \in -1 .. c.depth - 1 /\ (read => f.mOutPtr # -1)
    BY <2>1 DEF SrlTypeOK
  <2>4. /\ Stored(c, f) = f.mOutPtr + 1
        /\ Stored(c, FifoEdge(c, f, write, din, read))
             = SrlEdge(c, f, write, din, read).mOutPtr + 1
        /\ Placed(c, FifoEdge(c, f, write, din, read), V, d)
        /\ if_dout(c, f) = SrlDout(f)
    BY <1>1, <2>2 DEF Stored, FifoEdge, Placed, if_dout
  <2>5. One(write) \in Nat /\ One(read) \in Nat
    BY DEF One
  <2>6. b + f.mOutPtr + 1 = b + Stored(c, f)
    BY <2>3, <2>4
  <2> QED
    BY <2>2, <2>3, <2>4, <2>5, <2>6
<1>2. CASE c.kind # "srl"
  <2>1. /\ BramTypeOK(c, f) /\ (write => f.used + 1 < c.depth)
        /\ read => f.dout_valid
        /\ BramPlaced(c, f, V, b)
    BY <1>2 DEF FifoTypeOK, Held, Room, BramTypeOK, if_empty_n, Placed
  <2>2. /\ BramPlaced(c, BramEdge(c, f, write, din, read), V, d)
        /\ InBuffer(BramEdge(c, f, write, din, read)) + BramEdge(c, f, write, din, read).used
             = InBuffer(f) + f.used + One(write) - One(read)
        /\ read => f.dout_buf = V[b + InBuffer(f) + f.used]
    BY <2>1, BramOrder
  <2>3. /\ f.used \in Nat /\ InBuffer(f) \in 0 .. 1
        /\ read => InBuffer(f) = 1
    BY <2>1 DEF BramTypeOK, InBuffer
  <2>4. /\ Stored(c, f) = InBuffer(f) + f.used
        /\ Stored(c, FifoEdge(c, f, write, din, read))
             = InBuffer(BramEdge(c, f, write, din, read)) + BramEdge(c, f, write, din, read).used
        /\ Placed(c, FifoEdge(c, f, write, din, read), V, d)
        /\ if_dout(c, f) = f.dout_buf
    BY <1>2, <2>2 DEF Stored, FifoEdge, Placed, if_dout
  <2>5. b + InBuffer(f) + f.used = b + Stored(c, f)
    BY <2>3, <2>4
  <2> QED
    BY <2>2, <2>3, <2>4, <2>5
<1> QED
  BY <1>1, <1>2

\* Sending k more items makes each of those on their way k sends older.
LEMMA PlacedLater ==
  ASSUME NEW c, c.depth \in Nat, c.depth > 1, NEW f, FifoTypeOK(c, f),
         NEW V, NEW W, NEW d \in Nat, NEW k \in Nat,
         \A m \in Nat : W[m + k] = V[m],
         Placed(c, f, V, d)
  PROVE  Placed(c, f, W, d + k)
<1>1. CASE c.kind = "srl"
  <2>1. f.mOutPtr \in -1 .. c.depth - 1 /\ SrlPlaced(f, V, d)
    BY <1>1 DEF FifoTypeOK, SrlTypeOK, Placed
  <2>2. ASSUME NEW a \in 0 .. f.mOutPtr PROVE f.SRL_SIG[a] = W[d + k + a + 1]
    <3>1. /\ d + a + 1 \in Nat
          /\ d + k + a + 1 = (d + a + 1) + k
      BY <2>1
    <3> QED
      BY <2>1, <3>1 DEF SrlPlaced
  <2> QED
    BY <1>1, <2>2 DEF SrlPlaced, Placed
<1>2. CASE c.kind # "srl"
  <2>1. f.used \in 0 .. c.depth - 1 /\ BramPlaced(c, f, V, d)
    BY <1>2 DEF FifoTypeOK, BramTypeOK, Placed
  <2>2. ASSUME NEW i \in 1 .. f.used
        PROVE  f.mem[Cell(c, f.raddr, i)] = W[d + k + f.used + 1 - i]
    <3>1. /\ d + f.used + 1 - i \in Nat
          /\ d + k + f.used + 1 - i = (d + f.used + 1 - i) + k
      BY <2>1
    <3> QED
      BY <2>1, <3>1 DEF BramPlaced
  <2>3. ASSUME f.dout_valid PROVE f.dout_buf = W[d + k + f.used + 1]
    <3>1. /\ d + f.used + 1 \in Nat
          /\ d + k + f.used + 1 = (d + f.used + 1) + k
      BY <2>1
    <3> QED
      BY <2>1, <2>3, <3>1 DEF BramPlaced
  <2> QED
    BY <1>2, <2>1, <2>2, <2>3 DEF BramPlaced, Placed
<1> QED
  BY <1>1, <1>2

\* What the FIFO holds is what Items looks at.
LEMMA ItemsPlaced ==
  ASSUME NEW c, c.depth \in Nat, c.depth > 1, NEW f, FifoTypeOK(c, f),
         NEW V, NEW b \in Nat, Placed(c, f, V, b)
  PROVE  /\ Stored(c, f) \in Nat
         /\ Len(Items(c, f)) = Stored(c, f)
         /\ DOMAIN Items(c, f) = 1 .. Stored(c, f)
         /\ \A i \in 1 .. Stored(c, f) : Items(c, f)[i] = V[b + Stored(c, f) + 1 - i]
<1> DEFINE n == Stored(c, f)
<1>1. CASE c.kind = "srl"
  <2>1. f.mOutPtr \in -1 .. c.depth - 1 /\ SrlPlaced(f, V, b)
    BY <1>1 DEF FifoTypeOK, SrlTypeOK, Placed
  <2>2. /\ n = f.mOutPtr + 1 /\ n \in Nat
        /\ Items(c, f) = [i \in 1 .. n |-> f.SRL_SIG[f.mOutPtr + 1 - i]]
    <3> DEFINE items(k) == [i \in 1 .. k |-> f.SRL_SIG[f.mOutPtr + 1 - i]]
    <3>1. n = f.mOutPtr + 1 /\ n \in Nat
      BY <1>1, <2>1 DEF Stored
    <3>2. Items(c, f) = items(f.mOutPtr + 1)
      BY <1>1 DEF Items, SrlItems
    <3> HIDE DEF n, items
    <3>3. Items(c, f) = items(n)
      BY <3>1, <3>2
    <3> QED
      BY <3>1, <3>3 DEF n, items
  <2> HIDE DEF n
  <2>3. ASSUME NEW i \in 1 .. n PROVE f.SRL_SIG[f.mOutPtr + 1 - i] = V[b + n + 1 - i]
    <3>1. /\ f.mOutPtr + 1 - i \in 0 .. f.mOutPtr
          /\ b + (f.mOutPtr + 1 - i) + 1 = b + n + 1 - i
      <4>1. n = f.mOutPtr + 1 /\ n \in Nat /\ f.mOutPtr \in Int
        BY <2>1, <2>2
      <4> DEFINE p == f.mOutPtr
      <4> HIDE DEF p
      <4>2. p + 1 - i \in 0 .. p /\ b + (p + 1 - i) + 1 = b + n + 1 - i
        BY <4>1 DEF p
      <4> QED
        BY <4>2 DEF p
    <3> QED
      BY <2>1, <3>1 DEF SrlPlaced
  <2>4. Len(Items(c, f)) = n
    BY <2>2
  <2> QED
    BY <2>2, <2>3, <2>4 DEF n
<1>2. CASE c.kind # "srl"
  <2> DEFINE o == InBuffer(f)
             item(i) == IF i <= o THEN f.dout_buf ELSE f.mem[Cell(c, f.raddr, i - o)]
  <2>1. f.used \in 0 .. c.depth - 1 /\ BramPlaced(c, f, V, b)
    BY <1>2 DEF FifoTypeOK, BramTypeOK, Placed
  <2>2. o \in 0 .. 1 /\ (o = 1 => f.dout_valid)
    BY DEF InBuffer
  <2>3. /\ n = o + f.used /\ n \in Nat
        /\ Items(c, f) = [i \in 1 .. n |-> item(i)]
    BY <1>2, <2>1, <2>2 DEF Stored, Items, BramItems
  <2> HIDE DEF n, o
  <2>4. ASSUME NEW i \in 1 .. n PROVE item(i) = V[b + n + 1 - i]
    <3>1. CASE i <= o
      <4>1. o = 1 /\ b + n + 1 - i = b + f.used + 1
        BY <2>1, <2>2, <2>3, <3>1
      <4> QED
        BY <2>1, <2>2, <3>1, <4>1 DEF BramPlaced
    <3>2. CASE ~(i <= o)
      <4>1. i - o \in 1 .. f.used /\ b + f.used + 1 - (i - o) = b + n + 1 - i
        BY <2>1, <2>2, <2>3, <3>2
      <4> QED
        BY <2>1, <3>2, <4>1 DEF BramPlaced
    <3> QED
      BY <3>1, <3>2
  <2> HIDE DEF item
  <2>5. Len(Items(c, f)) = n /\ DOMAIN Items(c, f) = 1 .. n
    BY <2>3
  <2> QED
    BY <2>3, <2>4, <2>5 DEF n
<1> QED
  BY <1>1, <1>2

-----------------------------------------------------------------------------
(* The numbers of the items, modulo Tags.                                  *)

LEMMA Division ==
  ASSUME NEW T \in Nat \ {0}, NEW a \in Int
  PROVE  a = T * (a \div T) + (a % T) /\ a % T \in 0 .. T - 1 /\ a \div T \in Int
OBVIOUS

LEMMA RemainderIsUnique ==
  ASSUME NEW T \in Nat \ {0}, NEW p \in Int, NEW q \in Int,
         NEW x \in 0 .. T - 1, NEW y \in 0 .. T - 1, T * p + x = T * q + y
  PROVE  x = y
<1>1. ASSUME NEW r \in Int, NEW s \in Int, NEW u \in 0 .. T - 1, NEW v \in 0 .. T - 1,
             T * r + u = T * s + v, r > s
      PROVE  FALSE
  <2>1. r - s \in Nat /\ r - s >= 1
    BY <1>1
  <2>2. PICK d \in Nat : d >= 1 /\ r = s + d
    <3>1. r = s + (r - s)
      OBVIOUS
    <3> QED
      BY <2>1, <3>1
  <2>3. T * d >= T /\ T * r = T * s + T * d
    BY <2>2
  <2> QED
    BY <1>1, <2>2, <2>3
<1>2. p = q
  BY <1>1
<1> QED
  BY <1>2

LEMMA Remainder ==
  ASSUME NEW T \in Nat \ {0}, NEW x \in 0 .. T - 1, NEW q \in Int, NEW a \in Int,
         a = T * q + x
  PROVE  a % T = x
<1>1. a = T * (a \div T) + (a % T) /\ a % T \in 0 .. T - 1 /\ a \div T \in Int
  BY Division
<1> QED
  BY <1>1, RemainderIsUnique

LEMMA OneMore ==
  ASSUME NEW T \in Nat \ {0}, NEW x \in 0 .. T - 1, NEW m \in Nat
  PROVE  /\ x % T = x
         /\ (((x + 1) % T) - (m + 1)) % T = (x - m) % T
<1>1. x % T = x
  <2>1. x = T * 0 + x
    OBVIOUS
  <2> QED
    BY <2>1, Remainder
<1> DEFINE z == (x + 1) % T
           q == (x - m) \div T
           y == (x - m) % T
<1>2. x - m = T * q + y /\ q \in Int /\ y \in 0 .. T - 1
  BY Division
<1>3. z = x + 1 \/ z = x + 1 - T
  <2>1. CASE x + 1 < T
    <3>1. x + 1 = T * 0 + (x + 1) /\ x + 1 \in 0 .. T - 1
      BY <2>1
    <3> QED
      BY <3>1, Remainder
  <2>2. CASE ~(x + 1 < T)
    <3>1. x + 1 = T * 1 + 0 /\ 0 \in 0 .. T - 1 /\ x + 1 - T = 0
      BY <2>2
    <3>2. z = 0
      BY <3>1, Remainder
    <3> QED
      BY <3>1, <3>2
  <2> QED
    BY <2>1, <2>2
<1> HIDE DEF z, q, y
<1>4. ASSUME z = x + 1 PROVE (z - (m + 1)) % T = y
  <2>1. z - (m + 1) = T * q + y /\ z - (m + 1) \in Int
    BY <1>2, <1>4
  <2> QED
    BY <1>2, <2>1, Remainder
<1>5. ASSUME z = x + 1 - T PROVE (z - (m + 1)) % T = y
  <2>1. T * (q - 1) = T * q - T
    BY <1>2
  <2>2. z - (m + 1) = T * (q - 1) + y /\ q - 1 \in Int /\ z - (m + 1) \in Int
    BY <1>2, <1>5, <2>1
  <2> QED
    BY <1>2, <2>2, Remainder
<1>6. (z - (m + 1)) % T = y
  BY <1>3, <1>4, <1>5
<1> QED
  BY <1>1, <1>6 DEF z, y

-----------------------------------------------------------------------------
(* The order of the items on a link.                                       *)

Sent == [m \in Nat |-> Ago(m)]

OrderInv ==
  /\ LinkInv
  /\ Placed(link, fifo, Sent, Cardinality(UnderWay))
  /\ \A i \in UnderWay : fwd[i].din = Sent[UnderWayTo(i)]

LEMMA OrderInvInit == ASSUME LinkInit PROVE OrderInv /\ OnTheWay = 0
<1> USE DEF LinkInit, PowerUp
<1>1. LinkInv
  BY LinkInvInit
<1>2. link.depth \in Nat /\ link.depth > 1
  BY GraceCoversRegisters
<1>3. UnderWay = {} /\ Cardinality(UnderWay) = 0
  BY FS_EmptySet DEF UnderWay, NoWrites, Idle
<1>4. Placed(link, fifo, Sent, 0) /\ Stored(link, fifo) = 0
  <2>1. CASE link.kind = "srl"
    BY <2>1 DEF Placed, SrlPlaced, Stored, FifoReset, SrlReset
  <2>2. CASE link.kind # "srl"
    <3>1. /\ fifo.waddr = 0 /\ fifo.raddr = 0 /\ fifo.used = 0 /\ fifo.dout_valid = FALSE
      BY <2>2 DEF FifoReset, BramReset
    <3>2. Cell(link, 0, 0 + 1) = 0
      BY <1>2 DEF Cell
    <3>3. BramPlaced(link, fifo, Sent, 0) /\ InBuffer(fifo) = 0
      BY <3>1, <3>2 DEF BramPlaced, InBuffer
    <3> QED
      BY <2>2, <3>1, <3>3 DEF Placed, Stored
  <2> QED
    BY <2>1, <2>2
<1>5. Len(Items(link, fifo)) = 0
  BY <1>1, <1>2, <1>4, ItemsPlaced DEF LinkInv, LinkTypeOK
<1> QED
  BY <1>1, <1>3, <1>4, <1>5 DEF OrderInv, OnTheWay

LEMMA OrderCycle ==
  ASSUME OrderInv, NEW send \in BOOLEAN, NEW receive \in BOOLEAN, Cycle(send, receive)
  PROVE  /\ OrderInv'
         /\ OnTheWay \in Nat
         /\ OnTheWay' = OnTheWay + One(send) - One(receive)
         /\ receive => OnTheWay # 0 /\ got' = Ago(OnTheWay)
         /\ \A m \in Nat : Ago(m + One(send))' = Ago(m)
         /\ Ago(0) = next
<1> DEFINE F == ForwardRegs(link)
           b == Cardinality(UnderWay)
           writes == AtFifo.write
           d == b - One(writes)
<1>1. LinkInv
  BY DEF OrderInv
<1>2. /\ F \in Nat \ {0} /\ link.depth \in Nat /\ link.depth > 1
      /\ FifoTypeOK(link, fifo) /\ next \in Item
  BY <1>1, GraceCoversRegisters DEF LinkInv, LinkTypeOK
<1>3. /\ link' = link
      /\ fwd' = [i \in 1 .. F |-> IF i > 1 THEN fwd[i - 1]
                                  ELSE IF send THEN [write |-> TRUE, din |-> next] ELSE Idle]
      /\ fifo' = FifoEdge(link, fifo, writes, AtFifo.din, receive)
      /\ next' = IF send THEN (next + 1) % Tags ELSE next
      /\ got' = IF receive THEN if_dout(link, fifo) ELSE got
      /\ receive => if_empty_n(link, fifo)
  BY DEF Cycle
<1>4. /\ writes \in BOOLEAN /\ AtFifo.din \in Item
      /\ b \in Nat /\ b' \in Nat
      /\ writes => b >= 1
      /\ b' = b + One(send) - One(writes)
      /\ UnderWay' \in SUBSET (1 .. F)
      /\ 1 \in UnderWay' <=> send
      /\ \A i \in 2 .. F : i \in UnderWay' <=> i - 1 \in UnderWay
      /\ writes => Held(link, fifo) + 1 <= Room(link)
  BY <1>1, CycleCounts DEF One
<1>5. LinkInv'
  <2>1. [Clock]_linkVars
    BY DEF Clock
  <2> QED
    BY <1>1, <2>1, LinkInvStep
<1>6. /\ Ago(0) = next
      /\ \A m \in Nat : Ago(m + One(send))' = Ago(m)
  <2>1. next \in 0 .. Tags - 1 /\ Tags \in Nat \ {0}
    BY <1>2, TagsAssumption DEF Item
  <2>2. Ago(0) = next
    <3>1. next - 0 = next
      BY <2>1
    <3> QED
      BY <2>1, <3>1, OneMore DEF Ago
  <2>3. ASSUME NEW m \in Nat PROVE Ago(m + One(send))' = Ago(m)
    <3>1. Ago(m + One(send))' = (next' - (m + One(send))) % Tags
      BY DEF Ago
    <3>2. CASE send
      BY <1>3, <2>1, <3>1, <3>2, OneMore DEF Ago, One
    <3>3. CASE ~send
      <4>1. next' = next /\ m + One(send) = m
        BY <1>3, <3>3 DEF One
      <4> QED
        BY <3>1, <4>1 DEF Ago
    <3> QED
      BY <3>2, <3>3
  <2> QED
    BY <2>2, <2>3
<1>7. /\ \A m \in Nat : Sent[m] = Ago(m)
      /\ \A m \in Nat : Sent'[m] = Ago(m)'
      /\ \A m \in Nat : Sent'[m + One(send)] = Sent[m]
      /\ Sent[0] = next
      /\ One(send) \in Nat
  <2>1. /\ \A m \in Nat : Sent[m] = Ago(m)
        /\ \A m \in Nat : Sent'[m] = Ago(m)'
    BY DEF Sent, Ago
  <2>2. One(send) \in Nat
    BY DEF One
  <2> QED
    BY <1>6, <2>1, <2>2
<1> HIDE DEF F
\* The registers.
<1>8. /\ UnderWayTo(0) = 0
      /\ UnderWayTo(F) = b
      /\ \A i \in 1 .. F : /\ UnderWayTo(i) \in Nat /\ UnderWayTo(i - 1) \in Nat
                           /\ UnderWayTo(i)' = UnderWayTo(i - 1) + One(send)
  <2>0. /\ F \in Nat
        /\ \A j \in UnderWay : j \in Nat /\ 1 <= j /\ j <= F
        /\ \A j \in UnderWay' : j \in Nat /\ 1 <= j /\ j <= F
    <3>1. \A j \in UnderWay : j \in 1 .. F
      BY DEF UnderWay, F
    <3>2. \A j \in UnderWay' : j \in 1 .. F
      BY <1>4
    <3> QED
      BY <1>2, <3>1, <3>2
  <2>1. UnderWayTo(0) = 0
    <3>1. {j \in UnderWay : j <= 0} = {}
      BY <2>0
    <3> QED
      BY <3>1, FS_EmptySet DEF UnderWayTo
  <2>2. UnderWayTo(F) = b
    <3>1. {j \in UnderWay : j <= F} = UnderWay
      BY <2>0
    <3> QED
      BY <3>1 DEF UnderWayTo
  <2>3. ASSUME NEW i \in 1 .. F
        PROVE  /\ UnderWayTo(i - 1) \in Nat /\ UnderWayTo(i)' = UnderWayTo(i - 1) + One(send)
    <3> DEFINE S == {j \in UnderWay : j <= i - 1}
               T == {j \in UnderWay' : j <= i}
    <3>1. i \in Nat \ {0} /\ S \in SUBSET (1 .. i) /\ T \in SUBSET (1 .. i)
      <4>1. i \in Nat /\ 1 <= i
        BY <2>0
      <4>2. \A j \in S : j \in 1 .. i
        BY <2>0, <4>1
      <4>3. \A j \in T : j \in 1 .. i
        BY <2>0, <4>1
      <4> QED
        BY <4>1, <4>2, <4>3
    <3>2. \A k \in 2 .. i : k \in T <=> k - 1 \in S
      <4> SUFFICES ASSUME NEW k \in 2 .. i PROVE k \in T <=> k - 1 \in S
        OBVIOUS
      <4>1. k \in 2 .. F /\ k <= i /\ k - 1 <= i - 1
        BY <1>2
      <4> QED
        BY <1>4, <4>1
    <3>3. i \notin S /\ (1 \in T <=> send)
      BY <1>4, <2>0
    <3> HIDE DEF S, T
    <3>4. /\ Cardinality(S) \in Nat
          /\ Cardinality(T) = Cardinality(S) + (IF 1 \in T THEN 1 ELSE 0)
                                 - (IF i \in S THEN 1 ELSE 0)
      BY <3>1, <3>2, MarksShift
    <3>5. Cardinality(T) = Cardinality(S) + One(send)
      BY <3>3, <3>4 DEF One
    <3>6. UnderWayTo(i - 1) = Cardinality(S) /\ UnderWayTo(i)' = Cardinality(T)
      BY DEF UnderWayTo, S, T
    <3> QED
      BY <3>4, <3>5, <3>6
  <2>4. ASSUME NEW i \in 1 .. F PROVE UnderWayTo(i) \in Nat
    <3>1. CASE i = F
      BY <1>4, <2>2, <3>1
    <3>2. CASE i # F
      <4>1. i + 1 \in 1 .. F /\ (i + 1) - 1 = i
        BY <1>2, <3>2
      <4> QED
        BY <2>3, <4>1
    <3> QED
      BY <3>1, <3>2
  <2> QED
    BY <2>1, <2>2, <2>3, <2>4
<1>9. ASSUME NEW i \in UnderWay' PROVE fwd'[i].din = Sent'[UnderWayTo(i)']
  <2>1. i \in 1 .. F
    BY <1>4
  <2>2. CASE i = 1
    <3>1. send
      BY <1>4, <2>2
    <3>2. fwd'[i].din = next
      BY <1>3, <2>1, <2>2, <3>1 DEF F
    <3>3. UnderWayTo(i)' = 0 + One(send)
      <4>1. i - 1 = 0
        BY <2>2
      <4> QED
        BY <1>8, <2>1, <4>1
    <3> QED
      BY <1>7, <3>2, <3>3
  <2>3. CASE i # 1
    <3>1. i \in 2 .. F /\ i - 1 \in UnderWay /\ i > 1
      BY <1>4, <2>1, <2>3
    <3>2. fwd'[i].din = fwd[i - 1].din
      BY <1>3, <2>1, <3>1 DEF F
    <3>3. fwd[i - 1].din = Sent[UnderWayTo(i - 1)]
      BY <3>1 DEF OrderInv
    <3>4. UnderWayTo(i - 1) \in Nat /\ UnderWayTo(i)' = UnderWayTo(i - 1) + One(send)
      BY <1>8, <2>1
    <3> QED
      BY <1>7, <3>2, <3>3, <3>4
  <2> QED
    BY <2>2, <2>3
\* The FIFO.
<1>10. writes => AtFifo.din = Sent[b]
  <2> SUFFICES ASSUME writes PROVE AtFifo.din = Sent[b]
    OBVIOUS
  <2>1. F \in UnderWay /\ AtFifo = fwd[F]
    BY <1>2 DEF UnderWay, AtFifo, F
  <2> QED
    BY <1>8, <2>1 DEF OrderInv
<1>11. d \in Nat /\ b' = d + One(send)
  BY <1>4 DEF One
<1>12. Placed(link, fifo, Sent, b)
  BY DEF OrderInv
<1>13. /\ Placed(link, fifo', Sent, d)
       /\ Stored(link, fifo) \in Nat
       /\ Stored(link, fifo') = Stored(link, fifo) + One(writes) - One(receive)
       /\ receive => if_dout(link, fifo) = Sent[b + Stored(link, fifo)] /\ Stored(link, fifo) # 0
  BY <1>2, <1>3, <1>4, <1>10, <1>11, <1>12, FifoOrder
<1>14. FifoTypeOK(link, fifo')
  BY <1>3, <1>5 DEF LinkInv, LinkTypeOK
<1>15. Placed(link, fifo', Sent', b')
  <2> HIDE DEF d
  <2>1. Placed(link, fifo', Sent', d + One(send))
    BY <1>2, <1>7, <1>11, <1>13, <1>14, PlacedLater
  <2> QED
    BY <1>11, <2>1
<1>16. Len(Items(link, fifo)) = Stored(link, fifo)
  BY <1>2, <1>4, <1>12, ItemsPlaced
<1>17. Len(Items(link, fifo')) = Stored(link, fifo')
  BY <1>2, <1>4, <1>14, <1>15, ItemsPlaced
<1>18. /\ OnTheWay = Stored(link, fifo) + b
       /\ OnTheWay' = Stored(link, fifo') + b'
  BY <1>3, <1>16, <1>17 DEF OnTheWay
<1>19. /\ OnTheWay \in Nat
       /\ OnTheWay' = OnTheWay + One(send) - One(receive)
       /\ receive => OnTheWay # 0
  BY <1>4, <1>13, <1>18 DEF One
<1>20. receive => got' = Ago(OnTheWay)
  <2> SUFFICES ASSUME receive PROVE got' = Ago(OnTheWay)
    OBVIOUS
  <2>1. b + Stored(link, fifo) = OnTheWay
    BY <1>4, <1>13, <1>18
  <2> QED
    BY <1>3, <1>7, <1>13, <1>19, <2>1
<1>21. OrderInv'
  BY <1>3, <1>5, <1>9, <1>15 DEF OrderInv
<1> QED
  BY <1>6, <1>19, <1>20, <1>21

LEMMA OrderInvStep == ASSUME OrderInv, [Clock]_linkVars PROVE OrderInv'
<1>1. CASE UNCHANGED linkVars
  <2>1. LinkInv'
    BY LinkInvStep DEF OrderInv
  <2>2. /\ link' = link /\ fwd' = fwd /\ fifo' = fifo /\ next' = next
    BY <1>1 DEF linkVars
  <2>3. UnderWay' = UnderWay /\ Sent' = Sent
    BY <2>2 DEF UnderWay, Sent, Ago
  <2>4. \A i : UnderWayTo(i)' = UnderWayTo(i)
    BY <2>3 DEF UnderWayTo
  <2> QED
    BY <2>1, <2>2, <2>3, <2>4 DEF OrderInv
<1>2. CASE Clock
  BY <1>2, OrderCycle DEF Clock
<1> QED
  BY <1>1, <1>2

LEMMA OrderInvMeansInOrder == ASSUME OrderInv PROVE InOrder
<1> DEFINE b == Cardinality(UnderWay)
           n == Stored(link, fifo)
<1>1. /\ link.depth \in Nat /\ link.depth > 1 /\ FifoTypeOK(link, fifo)
      /\ ForwardRegs(link) \in Nat
  BY GraceCoversRegisters DEF OrderInv, LinkInv, LinkTypeOK
<1>2. IsFiniteSet(UnderWay)
  <2>1. IsFiniteSet(1 .. ForwardRegs(link)) /\ UnderWay \in SUBSET (1 .. ForwardRegs(link))
    BY <1>1, FS_Interval DEF UnderWay
  <2> QED
    BY <2>1, FS_Subset
<1>3. b \in Nat
  BY <1>2, FS_CardinalityType
<1>4. ASSUME NEW i \in UnderWay PROVE fwd[i].din = Ago(UnderWayTo(i))
  <2>1. {j \in UnderWay : j <= i} \in SUBSET UnderWay
    OBVIOUS
  <2>2. IsFiniteSet({j \in UnderWay : j <= i})
    BY <1>2, <2>1, FS_Subset
  <2>3. UnderWayTo(i) \in Nat
    BY <2>2, FS_CardinalityType DEF UnderWayTo
  <2> QED
    BY <2>3 DEF OrderInv, Sent
<1>5. /\ n \in Nat /\ Len(Items(link, fifo)) = n /\ DOMAIN Items(link, fifo) = 1 .. n
      /\ \A i \in 1 .. n : Items(link, fifo)[i] = Sent[b + n + 1 - i]
  <2>1. Placed(link, fifo, Sent, b)
    BY DEF OrderInv
  <2> HIDE DEF b
  <2> QED
    BY <1>1, <1>3, <2>1, ItemsPlaced
<1>6. OnTheWay = b + n
  <2> HIDE DEF b, n
  <2>1. OnTheWay = n + b
    BY <1>5 DEF OnTheWay, b
  <2> QED
    BY <1>3, <1>5, <2>1
<1> HIDE DEF b, n
<1>7. ASSUME NEW i \in 1 .. n PROVE Items(link, fifo)[i] = Ago(OnTheWay + 1 - i)
  <2>1. b + n + 1 - i \in Nat /\ b + n + 1 - i = OnTheWay + 1 - i
    BY <1>3, <1>5, <1>6
  <2> QED
    BY <1>5, <2>1 DEF Sent
<1> QED
  BY <1>4, <1>5, <1>7 DEF InOrder

(***************************************************************************)
(* InOrder: whatever the pipeline and the FIFO, and whenever the sender    *)
(* and the receiver take their turns, items stay in their order and none   *)
(* is missing between two others.                                          *)
(***************************************************************************)
THEOREM ItemsStayInOrder == LinkSpec => []InOrder
<1>1. LinkInit => OrderInv
  BY OrderInvInit
<1>2. OrderInv /\ [Clock]_linkVars => OrderInv'
  BY OrderInvStep
<1>3. OrderInv => InOrder
  BY OrderInvMeansInOrder
<1> QED
  BY <1>1, <1>2, <1>3, PTL DEF LinkSpec

-----------------------------------------------------------------------------
(* The FIFO as a queue, whatever the items are.                            *)

\* The part of Placed that does not depend on the items.
Coherent(c, f) ==
  c.kind # "srl" => /\ f.waddr = Cell(c, f.raddr, f.used + 1)
                    /\ f.used # 0 => BramHead(f) = f.mem[f.raddr]

LEMMA PlacedIsCoherent == ASSUME NEW c, NEW f, NEW V, NEW b, Placed(c, f, V, b) PROVE Coherent(c, f)
BY DEF Coherent, Placed, BramPlaced

\* The numbering that what the FIFO holds gives, when d items follow.
Numbered(items, n, d, din) == [k \in Nat |-> IF k > d THEN items[d + n + 1 - k] ELSE din]

LEMMA NumberedIsPlaced ==
  ASSUME NEW c, c.depth \in Nat, c.depth > 1, NEW f, FifoTypeOK(c, f), Coherent(c, f),
         NEW d \in Nat, NEW din
  PROVE  Placed(c, f, Numbered(Items(c, f), Stored(c, f), d, din), d)
<1> DEFINE n == Stored(c, f)
           V == Numbered(Items(c, f), n, d, din)
<1>1. CASE c.kind = "srl"
  <2> DEFINE p == f.mOutPtr
  <2>1. p \in -1 .. c.depth - 1 /\ n = p + 1
    BY <1>1 DEF FifoTypeOK, SrlTypeOK, Stored
  <2>2. ASSUME NEW a \in 0 .. p PROVE f.SRL_SIG[a] = V[d + a + 1]
    <3>1. V[d + a + 1] = Items(c, f)[d + n + 1 - (d + a + 1)]
      <4> HIDE DEF n, p
      <4> QED
        BY <2>1 DEF Numbered
    <3>2. d + n + 1 - (d + a + 1) = p + 1 - a /\ p + 1 - a \in 1 .. p + 1
      <4> HIDE DEF n, p
      <4> QED
        BY <2>1
    <3>3. Items(c, f)[p + 1 - a] = f.SRL_SIG[p + 1 - (p + 1 - a)]
      BY <1>1, <3>2 DEF Items, SrlItems
    <3>4. p + 1 - (p + 1 - a) = a
      <4> HIDE DEF p
      <4> QED
        BY <2>1
    <3> QED
      BY <3>1, <3>2, <3>3, <3>4
  <2>3. SrlPlaced(f, V, d)
    <3> HIDE DEF V
    <3> QED
      BY <2>2 DEF SrlPlaced
  <2> QED
    BY <1>1, <2>3 DEF Placed
<1>2. CASE c.kind # "srl"
  <2> DEFINE o == InBuffer(f)
             u == f.used
             items(j) == IF j <= o THEN f.dout_buf ELSE f.mem[Cell(c, f.raddr, j - o)]
  <2>1. u \in 0 .. c.depth - 1 /\ o \in 0 .. 1 /\ (f.dout_valid => o = 1)
    BY <1>2 DEF FifoTypeOK, BramTypeOK, InBuffer
  <2>2. n = o + u /\ Items(c, f) = [j \in 1 .. o + u |-> items(j)]
    BY <1>2 DEF Stored, Items, BramItems
  <2> HIDE DEF n, o, u
  <2>3. ASSUME NEW i \in 1 .. u PROVE f.mem[Cell(c, f.raddr, i)] = V[d + u + 1 - i]
    <3>1. /\ d + u + 1 - i \in Nat /\ d + u + 1 - i > d
          /\ d + n + 1 - (d + u + 1 - i) = o + i
          /\ o + i \in 1 .. o + u /\ ~(o + i <= o) /\ (o + i) - o = i
      BY <2>1, <2>2
    <3>2. V[d + u + 1 - i] = Items(c, f)[o + i]
      BY <3>1 DEF Numbered
    <3>3. Items(c, f)[o + i] = items(o + i)
      <4> HIDE DEF items
      <4> QED
        BY <2>2, <3>1
    <3>4. items(o + i) = f.mem[Cell(c, f.raddr, i)]
      <4>1. \A j : ~(j <= o) => items(j) = f.mem[Cell(c, f.raddr, j - o)]
        OBVIOUS
      <4> HIDE DEF items
      <4>2. items(o + i) = f.mem[Cell(c, f.raddr, (o + i) - o)]
        BY <3>1, <4>1
      <4> QED
        BY <3>1, <4>2, Zenon
    <3> HIDE DEF V, items
    <3> QED
      BY <3>2, <3>3, <3>4
  <2>4. ASSUME f.dout_valid PROVE f.dout_buf = V[d + u + 1]
    <3>1. /\ d + u + 1 \in Nat /\ d + u + 1 > d
          /\ d + n + 1 - (d + u + 1) = 1
          /\ 1 \in 1 .. o + u /\ 1 <= o
      BY <2>1, <2>2, <2>4
    <3>2. V[d + u + 1] = Items(c, f)[1]
      BY <3>1 DEF Numbered
    <3> QED
      BY <2>2, <3>1, <3>2
  <2>5. BramPlaced(c, f, V, d)
    <3> HIDE DEF V
    <3> QED
      BY <1>2, <2>3, <2>4 DEF BramPlaced, Coherent, u
  <2> QED
    BY <1>2, <2>5 DEF Placed, n
<1> QED
  BY <1>1, <1>2

LEMMA ItemsAreItems ==
  ASSUME NEW c, c.depth \in Nat, c.depth > 1, NEW f, FifoTypeOK(c, f)
  PROVE  Items(c, f) \in Seq(Item)
<1>1. CASE c.kind = "srl"
  <2>1. f.mOutPtr \in -1 .. c.depth - 1 /\ f.SRL_SIG \in [0 .. c.depth - 1 -> Item]
    BY <1>1 DEF FifoTypeOK, SrlTypeOK
  <2>2. \A i \in 1 .. f.mOutPtr + 1 : f.SRL_SIG[f.mOutPtr + 1 - i] \in Item
    <3> DEFINE p == f.mOutPtr
    <3> HIDE DEF p
    <3>1. \A i \in 1 .. p + 1 : p + 1 - i \in 0 .. c.depth - 1
      BY <2>1 DEF p
    <3> QED
      BY <2>1, <3>1 DEF p
  <2> DEFINE k == f.mOutPtr + 1
             item(i) == f.SRL_SIG[f.mOutPtr + 1 - i]
  <2>3. k \in Nat
    BY <2>1
  <2>4. Items(c, f) = [i \in 1 .. k |-> item(i)]
    BY <1>1 DEF Items, SrlItems
  <2>5. \A i \in 1 .. k : item(i) \in Item
    BY <2>2
  <2> HIDE DEF k, item
  <2> QED
    BY <2>3, <2>4, <2>5
<1>2. CASE c.kind # "srl"
  <2> DEFINE o == InBuffer(f)
             item(i) == IF i <= o THEN f.dout_buf ELSE f.mem[Cell(c, f.raddr, i - o)]
  <2>1. /\ f.used \in 0 .. c.depth - 1 /\ f.raddr \in 0 .. c.depth - 1 /\ f.dout_buf \in Item
        /\ f.mem \in [0 .. c.depth - 1 -> Item] /\ o \in 0 .. 1
    BY <1>2 DEF FifoTypeOK, BramTypeOK, InBuffer
  <2>2. Items(c, f) = [i \in 1 .. o + f.used |-> item(i)]
    BY <1>2 DEF Items, BramItems
  <2> HIDE DEF o
  <2>3. ASSUME NEW i \in 1 .. o + f.used PROVE item(i) \in Item
    <3>1. CASE i <= o
      BY <2>1, <3>1
    <3>2. CASE ~(i <= o)
      <4>1. i - o \in 1 .. c.depth - 1
        BY <2>1, <3>2
      <4>2. Cell(c, f.raddr, i - o) \in 0 .. c.depth - 1
        BY <2>1, <4>1 DEF Cell
      <4> QED
        BY <2>1, <3>2, <4>2
    <3> QED
      BY <3>1, <3>2
  <2> HIDE DEF item
  <2>4. o + f.used \in Nat
    BY <2>1
  <2> QED
    BY <2>2, <2>3, <2>4
<1> QED
  BY <1>1, <1>2

\* The queue after an edge of the clock.
QueueAfter(items, write, din, read) ==
  (IF read THEN Tail(items) ELSE items) \o (IF write THEN <<din>> ELSE << >>)

LEMMA QueueEdge ==
  ASSUME NEW c, c.depth \in Nat, c.depth > 1, NEW f, FifoTypeOK(c, f), Coherent(c, f),
         NEW write \in BOOLEAN, NEW din \in Item, NEW read \in BOOLEAN,
         write => Held(c, f) + 1 <= Room(c),
         read => if_empty_n(c, f)
  PROVE  /\ Coherent(c, FifoEdge(c, f, write, din, read))
         /\ Items(c, f) \in Seq(Item)
         /\ Items(c, FifoEdge(c, f, write, din, read))
              = QueueAfter(Items(c, f), write, din, read)
         /\ read => Items(c, f) # << >> /\ if_dout(c, f) = Head(Items(c, f))
<1> DEFINE g == FifoEdge(c, f, write, din, read)
           n == Stored(c, f)
           m == Stored(c, g)
           w == One(write)
           r == One(read)
           s == Items(c, f)
           t == Items(c, g)
           V == Numbered(s, n, w, din)
<1>1. w \in 0 .. 1 /\ r \in 0 .. 1 /\ (write <=> w = 1) /\ (read <=> r = 1)
  BY DEF One
<1>2. Placed(c, f, V, w)
  <2> HIDE DEF w
  <2> QED
    BY <1>1, NumberedIsPlaced
<1>3. write => din = V[w]
  <2>1. w \in Nat /\ ~(w > w)
    BY <1>1
  <2> HIDE DEF w, n, s
  <2> QED
    BY <2>1 DEF Numbered
<1>4. FifoTypeOK(c, g)
  BY FifoStep
<1>5. /\ Placed(c, g, V, 0)
      /\ n \in Nat /\ m = n + w - r
      /\ read => if_dout(c, f) = V[w + n] /\ n # 0
  <2> HIDE DEF V, w
  <2>1. 0 = w - One(write)
    BY <1>1 DEF w
  <2> QED
    BY <1>1, <1>2, <1>3, <2>1, FifoOrder DEF w
<1>6. Len(s) = n /\ DOMAIN s = 1 .. n
  BY <1>1, <1>2, ItemsPlaced
<1>7. /\ m \in Nat /\ DOMAIN t = 1 .. m
      /\ \A i \in 1 .. m : t[i] = V[0 + m + 1 - i]
  <2> HIDE DEF V, g
  <2> QED
    BY <1>4, <1>5, ItemsPlaced
<1>8. s \in Seq(Item) /\ t \in Seq(Item)
  BY <1>4, ItemsAreItems
<1>9. Coherent(c, g)
  BY <1>5, PlacedIsCoherent
<1> HIDE DEF g, n, m, w, r, s, t
<1>10. ASSUME NEW i \in 1 .. m
       PROVE  t[i] = IF i <= n - r THEN s[i + r] ELSE din
  <2>1. t[i] = V[m + 1 - i] /\ m + 1 - i \in Nat /\ m \in Nat
    BY <1>7
  <2>2. CASE i <= n - r
    <3>1. m + 1 - i > w /\ w + n + 1 - (m + 1 - i) = i + r
      BY <1>1, <1>5, <2>1, <2>2
    <3> QED
      BY <2>1, <2>2, <3>1 DEF Numbered
  <2>3. CASE ~(i <= n - r)
    <3>1. ~(m + 1 - i > w)
      BY <1>1, <1>5, <2>1, <2>3
    <3> QED
      BY <2>1, <2>3, <3>1 DEF Numbered
  <2> QED
    BY <2>2, <2>3
<1>11. t = QueueAfter(s, write, din, read)
  <2> DEFINE u == IF read THEN Tail(s) ELSE s
             v == IF write THEN <<din>> ELSE << >>
  <2>1. /\ u \in Seq(Item) /\ Len(u) = n - r
        /\ \A i \in 1 .. n - r : u[i] = s[i + r]
    <3>1. CASE read
      <4>1. s # << >> /\ n # 0 /\ r = 1
        BY <1>1, <1>5, <1>6, <1>8, <3>1
      <4> QED
        BY <1>5, <1>6, <1>8, <3>1, <4>1
    <3>2. CASE ~read
      BY <1>1, <1>5, <1>6, <1>8, <3>2
    <3> QED
      BY <3>1, <3>2
  <2>2. v \in Seq(Item) /\ Len(v) = w /\ (w = 1 => v[1] = din)
    BY <1>1
  <2> HIDE DEF u, v
  <2>3. /\ u \o v \in Seq(Item) /\ Len(u \o v) = m
        /\ \A i \in 1 .. m : (u \o v)[i] = IF i <= n - r THEN u[i] ELSE v[i - (n - r)]
    <3>1. Len(u) + Len(v) = m
      BY <1>1, <1>5, <2>1, <2>2
    <3>2. /\ u \o v \in Seq(Item) /\ Len(u \o v) = Len(u) + Len(v)
          /\ \A i \in 1 .. Len(u) + Len(v) :
               (u \o v)[i] = IF i <= Len(u) THEN u[i] ELSE v[i - Len(u)]
      BY <2>1, <2>2, ConcatProperties
    <3> QED
      BY <2>1, <3>1, <3>2, Zenon
  <2>4. Len(t) = m
    BY <1>7, <1>8
  <2>5. ASSUME NEW i \in 1 .. m PROVE t[i] = (u \o v)[i]
    <3>1. CASE i <= n - r
      <4>1. i \in 1 .. n - r
        BY <1>1, <1>5, <1>7, <3>1
      <4> QED
        BY <1>10, <2>1, <2>3, <3>1, <4>1
    <3>2. CASE ~(i <= n - r)
      <4>1. i - (n - r) = 1 /\ w = 1
        BY <1>1, <1>5, <1>7, <3>2
      <4> QED
        BY <1>10, <2>2, <2>3, <3>2, <4>1
    <3> QED
      BY <3>1, <3>2
  <2>6. t = u \o v
    BY <1>8, <2>3, <2>4, <2>5, SeqEqual
  <2> QED
    BY <2>6 DEF QueueAfter, u, v
<1>12. ASSUME read PROVE s # << >> /\ if_dout(c, f) = Head(s)
  <2>1. w + n \in Nat /\ w + n > w /\ w + n + 1 - (w + n) = 1 /\ n # 0
    BY <1>1, <1>5, <1>12
  <2>2. if_dout(c, f) = V[w + n] /\ w + n + 1 - (w + n) = w + n + 1 - (w + n)
    BY <1>5, <1>12
  <2>3. V[w + n] = s[1]
    <3>1. V[w + n] = s[w + n + 1 - (w + n)]
      BY <2>1 DEF Numbered
    <3> QED
      BY <2>1, <3>1
  <2> QED
    BY <1>6, <1>8, <2>1, <2>2, <2>3
<1> QED
  BY <1>8, <1>9, <1>11, <1>12 DEF g, s, t

\* A clock edge, for the queue in the FIFO.
QueueStep ==
  LET items == Items(link, fifo)
  IN  \E receive \in BOOLEAN :
        /\ receive => items # << >> /\ got' = Head(items)
        /\ ~receive => got' = got
        /\ Items(link, fifo)' = QueueAfter(items, AtFifo.write, AtFifo.din, receive)

(***************************************************************************)
(* On a link, both versions of the FIFO are a queue: an edge of the clock  *)
(* adds the item that arrives, removes the first one if the receiver takes *)
(* it, which is the one it sees at dout, and leaves the others as they     *)
(* are.  QueueEdge does not ask what the items are: that the sender        *)
(* numbers them plays no role.                                             *)
(***************************************************************************)
THEOREM FifoIsAQueue == LinkSpec => [][QueueStep]_linkVars
<1>1. LinkInit => OrderInv
  BY OrderInvInit
<1>2. OrderInv /\ [Clock]_linkVars => OrderInv'
  BY OrderInvStep
<1>3. ASSUME OrderInv, Clock PROVE QueueStep
  <2>1. PICK send \in BOOLEAN, receive \in BOOLEAN : Cycle(send, receive)
    BY <1>3 DEF Clock
  <2>2. /\ link' = link
        /\ fifo' = FifoEdge(link, fifo, AtFifo.write, AtFifo.din, receive)
        /\ got' = IF receive THEN if_dout(link, fifo) ELSE got
        /\ receive => if_empty_n(link, fifo)
    BY <2>1 DEF Cycle
  <2>3. /\ AtFifo.write \in BOOLEAN /\ AtFifo.din \in Item
        /\ AtFifo.write => Held(link, fifo) + 1 <= Room(link)
    BY <1>3, <2>1, CycleCounts DEF OrderInv
  <2>4. /\ link.depth \in Nat /\ link.depth > 1
        /\ FifoTypeOK(link, fifo) /\ Coherent(link, fifo)
    BY <1>3, GraceCoversRegisters, PlacedIsCoherent DEF OrderInv, LinkInv, LinkTypeOK
  <2>5. /\ Items(link, FifoEdge(link, fifo, AtFifo.write, AtFifo.din, receive))
             = QueueAfter(Items(link, fifo), AtFifo.write, AtFifo.din, receive)
        /\ receive => Items(link, fifo) # << >> /\ if_dout(link, fifo) = Head(Items(link, fifo))
    <3> DEFINE write == AtFifo.write
               din == AtFifo.din
    <3> HIDE DEF write, din
    <3>1. /\ write \in BOOLEAN /\ din \in Item
          /\ write => Held(link, fifo) + 1 <= Room(link)
          /\ receive => if_empty_n(link, fifo)
      BY <2>2, <2>3 DEF write, din
    <3>2. /\ Items(link, FifoEdge(link, fifo, write, din, receive))
               = QueueAfter(Items(link, fifo), write, din, receive)
          /\ receive => Items(link, fifo) # << >> /\ if_dout(link, fifo) = Head(Items(link, fifo))
      BY <2>4, <3>1, QueueEdge
    <3> QED
      BY <3>2 DEF write, din
  <2>6. Items(link, fifo)' = Items(link, FifoEdge(link, fifo, AtFifo.write, AtFifo.din, receive))
    BY <2>2
  <2>7. Items(link, fifo)' = QueueAfter(Items(link, fifo), AtFifo.write, AtFifo.din, receive)
    BY <2>5, <2>6, Zenon
  <2>8. /\ receive => got' = if_dout(link, fifo)
        /\ ~receive => got' = got
    BY <2>2
  <2> QED
    BY <2>5, <2>7, <2>8, Zenon DEF QueueStep
<1> QED
  BY <1>1, <1>2, <1>3, PTL DEF LinkSpec
=============================================================================
