------------------------------ MODULE EdgeLink ------------------------------
(***************************************************************************)
(* The hardware of one edge of the dataflow graph whose ends are in        *)
(* different slots.  The FIFO is in the slot of the receiver.  Items and   *)
(* write strobes (_din, _write) travel to it, and its full_n travels back, *)
(* through registers at both ends (CreateRoutingSlotWrapper), between      *)
(* neighbouring slots (CreateTopRTLForCtrlWrappers) and in the slots they  *)
(* pass.  Whether an item is lost depends on the grace period that         *)
(* GlobalRouting and CreateSlotWrapper compute from the length of the path *)
(* without looking at these registers.                                     *)
(*                                                                         *)
(* A step is a rising edge of ap_clk.  link is fixed when the design is    *)
(* built; it is a variable to let one run look at several designs.         *)
(***************************************************************************)
EXTENDS AlmostFullFifo, FiniteSets

VARIABLES link,    \* style, plan and hops of the edge, depth, grace, ... of its FIFO
          fwd,     \* registers from sender to FIFO, the one next to the sender first
          back,    \* registers from if_full_n to the sender
          fifo,    \* registers of the FIFO
          next,    \* the item the sender has next
          got      \* the item the receiver took last

linkVars == <<link, fwd, back, fifo, next, got>>

Styles == {"REG", "LUT", "WIRE", "DOUBLE_REG", "INVERT_CLOCK"}

(***************************************************************************)
(* What the compiler counts.  A path of hops boundaries passes hops - 1    *)
(* slots; slots are 2 clock regions wide.                                  *)
(***************************************************************************)
PipelineLevel(style, plan, hops) ==
  LET dist == 2 * hops
  IN CASE style = "INVERT_CLOCK"             -> dist
       [] style \in {"REG", "LUT", "WIRE"}   -> hops + (plan - 1)
       [] style = "DOUBLE_REG"               -> dist + (plan - 1)

\* Faulty variant: the register that full_n always has is forgotten.
GracePeriodOfTrip(level) == level * 2

GracePeriod(level) == level * 2 + 1

(***************************************************************************)
(* What is built.                                                          *)
(***************************************************************************)
\* input_reg and output_reg of the innermost wrappers.
EndRegs(plan) == IF plan = 3 THEN 1 ELSE 0

\* _q0 and _q0_double_pipeline in a slot that is passed.
PassingRegs(style) == CASE style \in {"LUT", "WIRE"}      -> 0
                        [] style \in {"REG", "DOUBLE_REG"} -> 1
                        [] style = "INVERT_CLOCK"         -> 2

(* The registers between slots.  With REG only _pass_0 has one.  Those of  *)
(* INVERT_CLOCK take the falling edge between two registers that take the  *)
(* rising one, and cost no cycle.                                          *)
BoundaryRegs(style, hops) == CASE style = "REG"          -> 1
                               [] style = "INVERT_CLOCK" -> 0
                               [] OTHER                  -> hops

WireRegs(l) == BoundaryRegs(l.style, l.hops) + (l.hops - 1) * PassingRegs(l.style)

ForwardRegs(l) == EndRegs(l.plan) + WireRegs(l) + EndRegs(l.plan)

\* full_n is always registered at the sender.
BackwardRegs(l) == EndRegs(l.plan) + WireRegs(l) + 1

(* The link of an edge that crosses hops boundaries.  INVERT_CLOCK asserts *)
(* plan 3, and other plans than 1 and 3 are refused.                       *)
Link(style, plan, kind, hops, depth, tight) ==
  LET grace == GracePeriod(PipelineLevel(style, plan, hops))
  IN [style |-> style, plan |-> plan, hops |-> hops, kind |-> kind,
      grace |-> grace, depth |-> RealDepth(grace, depth), tight |-> tight]

Buildable(style, plan) == plan \in {1, 3} /\ (style = "INVERT_CLOCK" => plan = 3)

HlsDepthOf(l) == l.depth - l.grace - 4

IsLink(l) ==
  /\ l.style \in Styles /\ Buildable(l.style, l.plan) /\ l.kind \in {"srl", "bram"}
  /\ l.hops \in Nat \ {0} /\ HlsDepthOf(l) \in Nat /\ l.tight \in BOOLEAN
  /\ l = Link(l.style, l.plan, l.kind, l.hops, HlsDepthOf(l), l.tight)

-----------------------------------------------------------------------------
Idle == [write |-> FALSE, din |-> 0]

\* The FIFO comes out of a reset, the other registers are as at power-up.
NoWrites(l)  == [i \in 1 .. ForwardRegs(l) |-> Idle]
NoCredits(l) == [i \in 1 .. BackwardRegs(l) |-> FALSE]

PowerUp == /\ fwd = NoWrites(link) /\ back = NoCredits(link) /\ fifo = FifoReset(link)
           /\ next = 0 /\ got = 0

SeenFullN == back[BackwardRegs(link)]
AtFifo    == fwd[ForwardRegs(link)]

(* Sender and receiver are HLS modules: they wait for full_n and empty_n,  *)
(* and may take any time between two items.                                *)
Cycle(send, receive) ==
  /\ send => SeenFullN
  /\ receive => if_empty_n(link, fifo)
  /\ fwd' = [i \in 1 .. ForwardRegs(link) |->
               IF i > 1 THEN fwd[i - 1] ELSE IF send THEN [write |-> TRUE, din |-> next] ELSE Idle]
  /\ back' = [i \in 1 .. BackwardRegs(link) |->
                IF i > 1 THEN back[i - 1] ELSE if_full_n(link, fifo)]
  /\ fifo' = FifoEdge(link, fifo, AtFifo.write, AtFifo.din, receive)
  /\ next' = IF send THEN (next + 1) % Tags ELSE next
  /\ got' = IF receive THEN if_dout(link, fifo) ELSE got
  /\ UNCHANGED link

Clock == \E send, receive \in BOOLEAN : Cycle(send, receive)
Take  == \E send \in BOOLEAN : Cycle(send, TRUE)

LinkInit == IsLink(link) /\ PowerUp
LinkSpec == LinkInit /\ [][Clock]_linkVars

-----------------------------------------------------------------------------
(* Type invariant.                                                         *)
LinkTypeOK ==
  /\ IsLink(link)
  /\ fwd \in [1 .. ForwardRegs(link) -> [write : BOOLEAN, din : Item]]
  /\ back \in [1 .. BackwardRegs(link) -> BOOLEAN]
  /\ FifoTypeOK(link, fifo)
  /\ next \in Item /\ got \in Item

(* No item is lost: when a write reaches the FIFO, the FIFO has room, though *)
(* the sender saw its full_n many cycles ago.                               *)
NothingDropped == AtFifo.write => HasRoom(link, fifo)

UnderWay == {i \in 1 .. ForwardRegs(link) : fwd[i].write}
Granted  == {i \in 1 .. BackwardRegs(link) : back[i]}

(* Each full_n on its way back may become an item: items in the FIFO, items *)
(* under way and full_n under way have room together.                       *)
CreditsCovered ==
  Held(link, fifo) + Cardinality(UnderWay) + Cardinality(Granted) <= Room(link)

\* The item sent n sends ago, the last one sent 1 send ago.
Ago(n) == (next - n) % Tags

\* Items sent and not yet received.
OnTheWay == Len(Items(link, fifo)) + Cardinality(UnderWay)

\* Items under way in the registers from the sender to the i-th.
UnderWayTo(i) == Cardinality({j \in UnderWay : j <= i})

(* Each item on its way and in the FIFO was sent as many sends ago as there *)
(* are items from it to the sender: none is missing between them, none has  *)
(* overtaken another, and the RAM looks for each where it is.               *)
InOrder ==
  LET items == Items(link, fifo)
      n == OnTheWay
  IN  /\ \A i \in UnderWay : fwd[i].din = Ago(UnderWayTo(i))
      /\ \A i \in DOMAIN items : items[i] = Ago(n + 1 - i)
=============================================================================
