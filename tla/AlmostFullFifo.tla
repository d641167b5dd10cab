--------------------------- MODULE AlmostFullFifo ---------------------------
(***************************************************************************)
(* The FIFO that takes the place of every HLS FIFO (fifo_almost_full.v).   *)
(* It reports full while it still has room for GRACE_PERIOD items, since   *)
(* that many may be under way.  There are two versions, of a shift         *)
(* register and of a block RAM, chosen by the number of bits.              *)
(*                                                                         *)
(* A FIFO is a record of its registers; an operator with parameters write, *)
(* din and read is one rising edge of its clock.  c holds the parameters:  *)
(* c.depth is REAL_DEPTH, c.grace GRACE_PERIOD, c.kind the version, and    *)
(* c.tight says that c.depth is the number of addresses, $clog2 having had *)
(* nothing to round up.  The ce inputs are tied to 1.                      *)
(***************************************************************************)
EXTENDS Integers, Sequences

CONSTANT Tags      \* items are 0 .. Tags - 1

ASSUME TagsAssumption == Tags \in Nat \ {0}

Item == 0 .. Tags - 1

\* Faulty variant: the grace period is not added.
RealDepthPlain(grace, depth) == depth + 4

\* REAL_DEPTH: the depth of the HLS FIFO, the grace period and four more.
RealDepth(grace, depth) == grace + depth + 4

(***************************************************************************)
(* fifo_srl_almost_full.  mOutPtr is the address of the oldest item, and   *)
(* all ones (here -1) when there is none; it stays below c.depth, so that  *)
(* its width plays no role.                                                *)
(***************************************************************************)
SrlReset(c) == [mOutPtr |-> -1, internal_empty_n |-> FALSE, internal_full_n |-> TRUE,
                SRL_SIG |-> [a \in 0 .. c.depth - 1 |-> 0]]

SrlAlmostFull(c, f) == f.mOutPtr >= c.depth - 1 - c.grace /\ f.mOutPtr # -1

SrlDout(f) == f.SRL_SIG[IF f.mOutPtr = -1 THEN 0 ELSE f.mOutPtr]

SrlPops(f, write, read)  == /\ read /\ f.internal_empty_n
                            /\ ~write \/ ~f.internal_full_n

\* Faulty variant: an item that leaves at the same time is not considered.
SrlPushesOnWrite(f, write, read) == write /\ f.internal_full_n

SrlPushes(f, write, read) == /\ ~read \/ ~f.internal_empty_n
                             /\ write /\ f.internal_full_n

SrlEdge(c, f, write, din, read) ==
  LET pops == SrlPops(f, write, read)
      pushes == SrlPushes(f, write, read)
  IN [mOutPtr |-> IF pops THEN f.mOutPtr - 1 ELSE IF pushes THEN f.mOutPtr + 1 ELSE f.mOutPtr,
      internal_empty_n |-> (f.internal_empty_n /\ ~(pops /\ f.mOutPtr = 0)) \/ pushes,
      internal_full_n |-> (f.internal_full_n /\ ~(pushes /\ f.mOutPtr = c.depth - 2)) \/ pops,
      SRL_SIG |-> IF write /\ f.internal_full_n
                  THEN [a \in 0 .. c.depth - 1 |-> IF a = 0 THEN din ELSE f.SRL_SIG[a - 1]]
                  ELSE f.SRL_SIG]

\* The items inside, the oldest first.
SrlItems(f) == [i \in 1 .. f.mOutPtr + 1 |-> f.SRL_SIG[f.mOutPtr + 1 - i]]

(***************************************************************************)
(* fifo_bram_almost_full.  The RAM has a registered output q_buf; an item  *)
(* that is written to an empty RAM goes around it (q_tmp, show_ahead), and *)
(* the oldest item waits in dout_buf, outside used.                        *)
(***************************************************************************)
BramReset(c) == [mem |-> [a \in 0 .. c.depth - 1 |-> 0], q_buf |-> 0, q_tmp |-> 0,
                 dout_buf |-> 0, waddr |-> 0, raddr |-> 0, used |-> 0, full_n |-> TRUE,
                 empty_n |-> FALSE, show_ahead |-> FALSE, dout_valid |-> FALSE]

BramAlmostFull(c, f) == f.used >= c.depth - 1 - c.grace

BramPush(f, write) == f.full_n /\ write

\* Faulty variant: the RAM does not fill its output register by itself.
BramPopOnRead(f, read) == f.empty_n /\ read

BramPop(f, read) == f.empty_n /\ (~f.dout_valid \/ read)

NextAddress(c, a) == IF a = c.depth - 1 THEN 0 ELSE a + 1

\* used has REAL_ADDR_WIDTH bits: too few to count c.depth items when it is tight.
InWidth(c, n) == IF c.tight /\ n = c.depth THEN 0
                 ELSE IF c.tight /\ n = -1 THEN c.depth - 1 ELSE n

\* Faulty variant: an item that is read at the same time is not considered.
ShowAheadOnEmpty(f, push, pop) == push /\ f.used = 0

ShowAhead(f, push, pop) == push /\ f.used = (IF pop THEN 1 ELSE 0)

BramEdge(c, f, write, din, read) ==
  LET push == BramPush(f, write)
      pop == BramPop(f, read)
      rnext == IF pop THEN NextAddress(c, f.raddr) ELSE f.raddr
  IN [mem |-> IF push THEN [f.mem EXCEPT ![f.waddr] = din] ELSE f.mem,
      q_buf |-> f.mem[rnext],
      q_tmp |-> IF push THEN din ELSE f.q_tmp,
      dout_buf |-> IF pop THEN IF f.show_ahead THEN f.q_tmp ELSE f.q_buf ELSE f.dout_buf,
      waddr |-> IF push THEN NextAddress(c, f.waddr) ELSE f.waddr,
      raddr |-> rnext,
      used |-> IF push = pop THEN f.used ELSE InWidth(c, IF push THEN f.used + 1 ELSE f.used - 1),
      full_n |-> IF push = pop THEN f.full_n ELSE pop \/ f.used # c.depth - 1,
      empty_n |-> IF push = pop THEN f.empty_n ELSE push \/ f.used # 1,
      show_ahead |-> ShowAhead(f, push, pop),
      dout_valid |-> pop \/ (f.dout_valid /\ ~read)]

\* The i-th address from a on, around the end of the RAM.
Cell(c, a, i) == LET n == a + i - 1 IN IF n < c.depth THEN n ELSE n - c.depth

InBuffer(f) == IF f.dout_valid THEN 1 ELSE 0

BramItems(c, f) ==
  [i \in 1 .. InBuffer(f) + f.used |->
     IF i <= InBuffer(f) THEN f.dout_buf ELSE f.mem[Cell(c, f.raddr, i - InBuffer(f))]]

-----------------------------------------------------------------------------
FifoReset(c) == IF c.kind = "srl" THEN SrlReset(c) ELSE BramReset(c)

if_full_n(c, f)  == ~ IF c.kind = "srl" THEN SrlAlmostFull(c, f) ELSE BramAlmostFull(c, f)
if_empty_n(c, f) == IF c.kind = "srl" THEN f.internal_empty_n ELSE f.dout_valid
if_dout(c, f)    == IF c.kind = "srl" THEN SrlDout(f) ELSE f.dout_buf

FifoEdge(c, f, write, din, read) ==
  IF c.kind = "srl" THEN SrlEdge(c, f, write, din, read) ELSE BramEdge(c, f, write, din, read)

\* A write is lost unless the FIFO has room.
HasRoom(c, f) == IF c.kind = "srl" THEN f.internal_full_n ELSE f.full_n

(* Type of the registers.  The flags of the shift register follow from its *)
(* address; those of the block RAM from used, which never reaches c.depth. *)
SrlTypeOK(c, f) ==
  /\ f \in [mOutPtr : -1 .. c.depth - 1, internal_empty_n : BOOLEAN, internal_full_n : BOOLEAN,
           SRL_SIG : [0 .. c.depth - 1 -> Item]]
  /\ f.internal_empty_n = (f.mOutPtr # -1)
  /\ f.internal_full_n = (f.mOutPtr # c.depth - 1)

BramTypeOK(c, f) ==
  /\ f \in [mem : [0 .. c.depth - 1 -> Item], q_buf : Item, q_tmp : Item, dout_buf : Item,
           waddr : 0 .. c.depth - 1, raddr : 0 .. c.depth - 1, used : 0 .. c.depth - 1,
           full_n : BOOLEAN, empty_n : BOOLEAN, show_ahead : BOOLEAN, dout_valid : BOOLEAN]
  /\ f.empty_n = (f.used # 0)
  /\ f.full_n

FifoTypeOK(c, f) == IF c.kind = "srl" THEN SrlTypeOK(c, f) ELSE BramTypeOK(c, f)

\* Items that count for almost full.
Held(c, f) == IF c.kind = "srl" THEN f.mOutPtr + 1 ELSE f.used

\* The most of them that it holds; used cannot count to c.depth.
Room(c) == IF c.kind = "srl" THEN c.depth ELSE c.depth - 1

Items(c, f) == IF c.kind = "srl" THEN SrlItems(f) ELSE BramItems(c, f)
=============================================================================
