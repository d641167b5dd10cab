------------------------------ MODULE MergeDCP ------------------------------
(***************************************************************************)
(* The netlist of a slot with its anchor registers, and the merging of two *)
(* such designs.  An anchor register is part of both slots that share it;  *)
(* in each of them it joins a pin of the slot with a port of the same      *)
(* name.  Merging unites the two copies and puts the pin of the other slot *)
(* in the place of the port.                                               *)
(*                                                                         *)
(* Pins are <<"D", a>> and <<"Q", a>> of register a, <<"out", a>> of the   *)
(* slot that drives a, <<"in", a>> of the slot that reads a, and           *)
(* <<"port", a>>.  Clock, reset, enable and top-level IOs, which have no   *)
(* anchors, are left out.                                                  *)
(***************************************************************************)
EXTENDS Integers

(***************************************************************************)
(* addAnchorToNonTopIOs: the wrapper of a slot that drives the registers   *)
(* outputs and reads the registers inputs.                                 *)
(***************************************************************************)
\* Wire a_out leads to the register, a_in from it, and the wire called a to the port a.
WrapperNets(outputs, inputs) ==
  [n \in ({"_out"} \X outputs) \cup ({"port"} \X (outputs \cup inputs)) \cup ({"_in"} \X inputs) |->
     CASE n[1] = "_out" -> {<<"out", n[2]>>, <<"D", n[2]>>}
       [] n[1] = "_in"  -> {<<"Q", n[2]>>, <<"in", n[2]>>}
       [] n[1] = "port" -> IF n[2] \in outputs THEN {<<"Q", n[2]>>, <<"port", n[2]>>}
                                               ELSE {<<"port", n[2]>>, <<"D", n[2]>>}]

Wrapper(slot, outputs, inputs, placed) ==
  [slots   |-> {slot},
   anchors |-> outputs \cup inputs,
   ports   |-> outputs \cup inputs,
   nets    |-> WrapperNets(outputs, inputs),
   placed  |-> placed]

-----------------------------------------------------------------------------
(***************************************************************************)
(* mergeDCP(design0, design1)                                              *)
(***************************************************************************)
NetOf(d, pin) == CHOOSE n \in DOMAIN d.nets : pin \in d.nets[n]

\* getOtherPortInst
Other(d, pin) == CHOOSE p \in d.nets[NetOf(d, pin)] \ {pin} : TRUE

IsPort(pin) == pin[1] = "port"

Duplicates(d0, d1) == d0.anchors \cap d1.anchors

\* The pin of the register that leads to a port of design0.
OpenPin(d0, a) == IF IsPort(Other(d0, <<"Q", a>>)) THEN <<"Q", a>> ELSE <<"D", a>>

\* Without a port at either pin mergeDCP throws a RuntimeException.
HaveOpenPins(d0, d1) ==
  \A a \in Duplicates(d0, d1) : IsPort(Other(d0, OpenPin(d0, a)))

\* Faulty variant: the slot of design1 is always taken for the one that reads.
RewiredToReader(d0, d1) ==
  [n \in DOMAIN d0.nets |->
     LET here == {a \in Duplicates(d0, d1) : n = NetOf(d0, OpenPin(d0, a))}
     IN  (d0.nets[n] \ {Other(d0, OpenPin(d0, a)) : a \in here})
           \cup {Other(d1, <<"Q", a>>) : a \in here}]

\* In the nets of design0, the pin of the slot in design1 takes the port's place.
Rewired(d0, d1) ==
  [n \in DOMAIN d0.nets |->
     LET here == {a \in Duplicates(d0, d1) : n = NetOf(d0, OpenPin(d0, a))}
     IN  (d0.nets[n] \ {Other(d0, OpenPin(d0, a)) : a \in here})
           \cup {Other(d1, OpenPin(d0, a)) : a \in here}]

\* portsNotToCopy
PortsNotToCopy(d0, d1) == {Other(d0, OpenPin(d0, a))[2] : a \in Duplicates(d0, d1)}

\* netsNotToCopy
NetsNotToCopy(d0, d1) ==
  {NetOf(d1, <<pin, a>>) : pin \in {"D", "Q"}, a \in Duplicates(d0, d1)}

\* A net of design1 whose name is in use is not copied, either.
MergedNets(d0, d1) ==
  LET rewired == Rewired(d0, d1)
      copied  == DOMAIN d1.nets \ (NetsNotToCopy(d0, d1) \cup DOMAIN d0.nets)
  IN  [n \in DOMAIN d0.nets \cup copied |->
         IF n \in DOMAIN d0.nets THEN rewired[n] ELSE d1.nets[n]]

\* A site that only design1 uses is added as it is; at a site that both use, a cell
\* is added if design0 does not have it and its BEL is free (mergeSiteInsts).
MergedPlacement(d0, d1) ==
  d0.placed \cup
  {p \in d1.placed :
     (\E q \in d0.placed : q.site = p.site) =>
       /\ \A q \in d0.placed : q.cell # p.cell
       /\ ~\E q \in d0.placed : q.site = p.site /\ q.bel = p.bel}

Merged(d0, d1) ==
  [slots   |-> d0.slots \cup d1.slots,
   anchors |-> d0.anchors \cup d1.anchors,
   ports   |-> (d0.ports \cup d1.ports) \ PortsNotToCopy(d0, d1),
   nets    |-> MergedNets(d0, d1),
   placed  |-> MergedPlacement(d0, d1)]
=============================================================================
