------------------------------ MODULE Channel ------------------------------
(***************************************************************************)
(* From an edge of the floorplan to its hardware: the front end routes all *)
(* edges (GlobalRouting), then the hardware of one of them, built for the  *)
(* path it got, runs (EdgeLink).  What comes out is a Stream.              *)
(***************************************************************************)
EXTENDS GlobalRouting, EdgeLink

CONSTANTS
  Builds,    \* PipelineStyle, AnchorPlan and FIFO of the builds to look at, and
             \* the bound on the length of links that are run with them
  HlsDepth   \* depth of the edge's FIFO before it gets its grace period

ASSUME BuildsAssumption ==
  /\ HlsDepth \in Nat
  /\ Builds \subseteq [style : Styles, plan : Nat, kind : {"srl", "bram"}, maxHops : Nat]

VARIABLE on    \* the hardware is running

vars == <<routing, linkVars, on>>

IsPowerOfTwo(n) == \E k \in 0 .. n : n = 2 ^ k

Off == /\ link = [style |-> "none"] /\ fifo = [kind |-> "none"]
       /\ fwd = <<>> /\ back = <<>> /\ next = 0 /\ got = 0

Init == RoutingInit /\ Off /\ on = FALSE

Route == ~on /\ RoutingStep /\ UNCHANGED <<linkVars, on>>

(* The hardware of edge e is loaded; the compiler has ended and leaves     *)
(* nothing behind.                                                         *)
Start(e, b) ==
  /\ stage = "done" /\ ~on
  /\ Hops(e) <= b.maxHops
  /\ Buildable(b.style, b.plan)
  /\ LET grace == GracePeriod(PipelineLevel(b.style, b.plan, Hops(e)))
         l == Link(b.style, b.plan, b.kind, Hops(e), HlsDepth,
                  IsPowerOfTwo(RealDepth(grace, HlsDepth)))
     IN link' = l /\ fwd' = NoWrites(l) /\ back' = NoCredits(l) /\ fifo' = FifoReset(l)
  /\ on' = TRUE
  /\ stage' = "loaded"
  /\ queue' = NoPaths /\ candidates' = NoPaths /\ path' = NoRoutes
  /\ wires' = NoWires /\ left' = NoPorts
  /\ usageLimit' = 70
  /\ UNCHANGED <<next, got>>

Run == on /\ Clock /\ UNCHANGED <<routing, on>>

Next == Route \/ (\E e \in Edges, b \in Builds : Start(e, b)) \/ Run

Spec == Init /\ [][Next]_vars

(* The compiler runs to its end and the build is loaded, the clock ticks,  *)
(* and the receiver does not leave items in the FIFO for ever.             *)
FairSpec == Spec /\ WF_vars(Next) /\ WF_vars(on /\ Take /\ UNCHANGED <<routing, on>>)

-----------------------------------------------------------------------------
(* Type invariant.                                                         *)
TypeOK == RoutingTypeOK /\ (on => LinkTypeOK)

(* NothingDropped of EdgeLink, of the link that is built for the path an   *)
(* edge got: the grace period of its FIFO covers the round trip.           *)
NoItemLost == on => NothingDropped

(* CreditsCovered of EdgeLink, of the same link.                           *)
NoDebt == on => CreditsCovered

(* Every set of edges is routed in the end: the usage limit rises until    *)
(* the constraints have a solution.                                        *)
Routed == <>(stage = "done")

(* The sender is never stopped for good.                                   *)
Flows == []<>(on => SeenFullN)

(* InOrder of EdgeLink, of the same link.                                  *)
ItemsInOrder == on => InOrder

(* What the receiver takes is a Stream of what the sender sent: in order,  *)
(* nothing lost and nothing twice.  As items are numbered, those in flight *)
(* are known by how many the registers and the FIFO hold.                  *)
InFlight ==
  IF on THEN LET n == OnTheWay IN [i \in 1 .. n |-> Ago(n + 1 - i)] ELSE <<>>

S == INSTANCE Stream WITH queue <- InFlight

IsAStream == S!Spec

(* Every item that is sent arrives.                                        *)
EverythingArrives == S!Arrival
=============================================================================
