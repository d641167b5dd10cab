----------------------------- MODULE Dataflow -----------------------------
(***************************************************************************)
(* What the back end promises, without servers, guards, flags, transfers   *)
(* and polling: the tools of a flow are started once each, a tool only     *)
(* when everything it opens has been made, and everything is made once, by *)
(* its tool.  A file can be opened once it is made, not before, and it is  *)
(* not made again.  The final design is joined from things that have been  *)
(* made.                                                                   *)
(***************************************************************************)
CONSTANTS
  Tools,
  Things,
  Opens,   \* [Tools -> SUBSET Things]
  MadeBy   \* [Things -> Tools]

VARIABLES
  started,  \* tools
  made,     \* things
  joined    \* things that are part of the final design

Init == started = {} /\ made = {} /\ joined = {}

Start(t) ==
  /\ t \in Tools \ started
  /\ Opens[t] \subseteq made
  /\ started' = started \cup {t}
  /\ UNCHANGED <<made, joined>>

Make(x) ==
  /\ x \in Things \ made
  /\ MadeBy[x] \in started
  /\ made' = made \cup {x}
  /\ UNCHANGED <<started, joined>>

Join ==
  /\ joined' \subseteq made
  /\ joined \subseteq joined'
  /\ UNCHANGED <<started, made>>

Next ==
  \/ \E t \in Tools : Start(t)
  \/ \E x \in Things : Make(x)
  \/ Join

Spec == Init /\ [][Next]_<<started, made, joined>>
=============================================================================
