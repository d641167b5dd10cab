---------------------------- MODULE BackendFlow ----------------------------
(***************************************************************************)
(* The distributed back end.  run_back_end.sh starts, for every step of    *)
(* the flow and on every server, a GNU parallel that executes the lines    *)
(* (tasks) of parallel_<step>_<server>.txt.  A line has the form           *)
(*                                                                         *)
(*   guards && tool && touch flags && rsync to each server                 *)
(*                                                                         *)
(* All steps are started at once.  Nothing but files orders them: a guard  *)
(* polls the local disk until a file of an earlier step exists there, and  *)
(* the main server polls its own disk to know when to stitch.              *)
(*                                                                         *)
(* Slots, pairs of slots and servers are named by their positions (from 1) *)
(* in hub['SlotIO'], hub['AllSlotPairs'] and SERVER_LIST.                  *)
(***************************************************************************)
EXTENDS TaskPartition, FiniteSets

CONSTANTS
  NumSlots, NumPairs, NumServers,
  Ends,          \* [1..NumPairs -> SUBSET (1..NumSlots)], the two slots of a pair
  CenterPairs,   \* pairs between clock-region columns X2-X3 and X4-X5 of the device
  NumSlrs,       \* number of SLRs that are stitched
  SlrOfSlot,     \* [1..NumSlots -> 1..NumSlrs]
  MainServer,    \* the server that runs run_back_end.sh
  OptIter,       \* last iteration of anchor placement and slot optimisation
  Jobs,          \* job slots of each GNU parallel
  MaxRetries,    \* MAX_RETRIES of rsync_with_retry.sh
  SlowWrites,    \* kinds of files that are visible before they are complete
  MaxCrashes,    \* bound on the number of tools that fail
  MaxDrops       \* bound on the number of rsync attempts that fail

Slots   == 1..NumSlots
Pairs   == 1..NumPairs
Servers == 1..NumServers
Slrs    == 1..NumSlrs
Iters   == 0..OptIter

ASSUME SizesAssumption ==
  /\ NumSlots \in Nat \ {0} /\ NumPairs \in Nat /\ NumServers \in Nat \ {0}
  /\ NumSlrs \in Nat \ {0} /\ OptIter \in Nat /\ Jobs \in Nat \ {0}
  /\ MaxRetries \in Nat \ {0} /\ MaxCrashes \in Nat /\ MaxDrops \in Nat

\* A slot without a neighbour would get a line whose guard is empty, which is
\* not a shell command; the device grid has none.
ASSUME GridAssumption ==
  /\ Ends \in [Pairs -> SUBSET Slots]
  /\ \A s \in Slots : \E p \in Pairs : s \in Ends[p]
  /\ \A p \in Pairs : Ends[p] # {}
  /\ CenterPairs \subseteq Pairs
  /\ SlrOfSlot \in [Slots -> Slrs]
  /\ MainServer \in Servers

(***************************************************************************)
(* The files that matter, by kind: the step whose tool writes them, the    *)
(* order in which that step's line writes them, and the order in which     *)
(* rsync sends them, which is the order of their names in the directory.   *)
(***************************************************************************)
StepOf ==
  [ synth_dcp     |-> "slot_synth",           \* <slot>_synth.dcp
    synth_flag    |-> "slot_synth",           \* <slot>_synth.dcp.done.flag
    placed_dcp    |-> "init_slot_placement",  \* <slot>_placed.dcp
    placed_flag   |-> "init_slot_placement",  \* <slot>_placed.dcp.done.flag
    init_conn     |-> "init_slot_placement",  \* init_placement_anchor_connections.json
    init_conn_flag |-> "init_slot_placement", \* init_placement_anchor_connections.json.done.flag
    place_tcl     |-> "ILP_anchor_placement", \* place_anchors.tcl
    create_tcl    |-> "ILP_anchor_placement", \* create_and_place_anchors_for_clock_routing.tcl
    place_flag    |-> "ILP_anchor_placement", \* place_anchors.tcl.done.flag
    create_flag   |-> "ILP_anchor_placement", \* create_and_place_...tcl.done.flag
    opt_dcp       |-> "opt_placement",        \* <slot>_post_placed_opt.dcp
    opt_flag      |-> "opt_placement",        \* <slot>_post_placed_opt.dcp.done.flag
    opt_conn      |-> "opt_placement",        \* phys_opt_design_iter<i>_anchor_connections.json
    opt_conn_flag |-> "opt_placement",        \* phys_opt_design_iter<i>_...json.done.flag
    clock_tcl     |-> "slot_anchor_clock_routing",  \* set_anchor_clock_route.tcl
    clock_flag    |-> "slot_anchor_clock_routing",  \* set_anchor_clock_route.tcl.done.flag
    phys_dcp      |-> "slot_routing",  \* phys_opt_routed/phys_opt_routed_with_ooc_clock.dcp
    unrouted_dcp  |-> "slot_routing" ] \* non_laguna_anchor_nets_unrouted/...unrouted.dcp

WriteOrder ==
  [ synth_dcp |-> 1, synth_flag |-> 2,
    placed_dcp |-> 1, placed_flag |-> 2, init_conn |-> 3, init_conn_flag |-> 4,
    place_tcl |-> 1, create_tcl |-> 2, place_flag |-> 3, create_flag |-> 4,
    opt_dcp |-> 1, opt_flag |-> 2, opt_conn |-> 3, opt_conn_flag |-> 4,
    clock_tcl |-> 1, clock_flag |-> 2,
    phys_dcp |-> 1, unrouted_dcp |-> 2 ]

\* Faulty variant: files are sent in the order in which they were written.
NameOrderAsWritten == WriteOrder
NameOrder ==
  [ synth_dcp |-> 1, synth_flag |-> 2,
    placed_dcp |-> 1, placed_flag |-> 2, init_conn |-> 3, init_conn_flag |-> 4,
    create_tcl |-> 1, create_flag |-> 2, place_tcl |-> 3, place_flag |-> 4,
    opt_dcp |-> 1, opt_flag |-> 2, opt_conn |-> 3, opt_conn_flag |-> 4,
    clock_tcl |-> 1, clock_flag |-> 2,
    unrouted_dcp |-> 1, phys_dcp |-> 2 ]

Kinds     == DOMAIN StepOf
Steps     == {StepOf[k] : k \in Kinds}
IterSteps == {"ILP_anchor_placement", "opt_placement"}

\* The file whose completion a flag signals: <file>.done.flag, made by touch or
\* exec touch, or the one-character file of TimingReportParser.
Signals ==
  [ synth_flag |-> "synth_dcp", placed_flag |-> "placed_dcp",
    init_conn_flag |-> "init_conn", place_flag |-> "place_tcl",
    create_flag |-> "create_tcl", opt_flag |-> "opt_dcp",
    opt_conn_flag |-> "opt_conn", clock_flag |-> "clock_tcl" ]
FlagKinds == DOMAIN Signals

ASSUME SlowWritesAssumption == SlowWrites \subseteq Kinds \ FlagKinds

(***************************************************************************)
(* A task is <<step, iteration, unit>> and a file <<kind, iteration,       *)
(* unit>>; the unit is a pair for anchor placement, else a slot.           *)
(***************************************************************************)
UnitsOf(step) == IF step = "ILP_anchor_placement" THEN Pairs ELSE Slots
ItersOf(step) == IF step \in IterSteps THEN Iters ELSE {0}

Tasks == {t \in {<<step, i, u>> : step \in Steps, i \in Iters, u \in Slots \cup Pairs} :
            t[2] \in ItersOf(t[1]) /\ t[3] \in UnitsOf(t[1])}
Files == {f \in {<<k, i, u>> : k \in Kinds, i \in Iters, u \in Slots \cup Pairs} :
            /\ <<StepOf[f[1]], f[2], f[3]>> \in Tasks
            /\ f[1] \in {"opt_conn", "opt_conn_flag"} => f[2] < OptIter}

Producer(f) == <<StepOf[f[1]], f[2], f[3]>>
Outputs     == [t \in Tasks |-> {f \in Files : Producer(f) = t}]
\* Faulty variant: a line touches its flags while the tool is still writing.
WrittenInAnyOrder == [f \in Files |-> {}]
WrittenBefore ==
  [f \in Files |-> {g \in Outputs[Producer(f)] : WriteOrder[g[1]] < WriteOrder[f[1]]}]
\* Faulty variant: files of a transfer arrive in any order.
SentInAnyOrder == [f \in Files |-> {}]
SentBefore ==
  [f \in Files |-> {g \in Outputs[Producer(f)] : NameOrder[g[1]] < NameOrder[f[1]]}]

\* The server whose parallel_<step>_<server>.txt has the line.  The lines of
\* all slot steps are in the order of hub['SlotIO'].
NumTasks(step) == IF step = "ILP_anchor_placement" THEN NumPairs ELSE NumSlots
\* Faulty variant: slot optimisation takes the server list from its other end.
OwnerReversedForOpt ==
  [t \in Tasks |-> Host(NumTasks(t[1]), NumServers,
                        IF t[1] = "opt_placement" THEN NumSlots + 1 - t[3] ELSE t[3])]
Owner == [t \in Tasks |-> Host(NumTasks(t[1]), NumServers, t[3])]

Related(s) == {p \in Pairs : s \in Ends[p]}

\* The scripts of addSomeAnchors: the center pairs that touch none of the slots.
PlaceholderAnchors(slots) ==
  {<<"create_tcl", 0, p>> : p \in {q \in CenterPairs : Ends[q] \cap slots = {}}}

(***************************************************************************)
(* Per step, the files whose existence the line of a task polls and the    *)
(* files its tool opens.  (slot_synth polls and opens none of these; the   *)
(* line of slot_routing also polls done.flag of the first anchor           *)
(* placement.)                                                             *)
(***************************************************************************)
PlacementPolls(s) == {<<"synth_flag", 0, s>>}
PlacementOpens(s) == {<<"synth_dcp", 0, s>>}

AnchorPolls(i, p) ==
  IF i = 0 THEN {<<"init_conn_flag", 0, s>> : s \in Ends[p]}
           ELSE {<<"opt_conn_flag", i - 1, s>> : s \in Ends[p]}
AnchorOpens(i, p) ==
  IF i = 0 THEN {<<"init_conn", 0, s>> : s \in Ends[p]}
           ELSE {<<"opt_conn", i - 1, s>> : s \in Ends[p]}

OptPolls(i, s) == {<<"place_flag", i, p>> : p \in Related(s)}
OptOpens(i, s) == {<<"placed_dcp", 0, s>>} \cup {<<"place_tcl", i, p>> : p \in Related(s)}

ClockPolls(s) == {<<"create_flag", 0, p>> : p \in Related(s)}
ClockOpens(s) == {<<"create_tcl", 0, p>> : p \in Related(s)}

RoutePolls(s) == {<<"clock_flag", 0, s>>, <<"opt_dcp", 0, s>>}
RouteOpens(s) ==
  {<<"opt_dcp", 0, s>>, <<"clock_tcl", 0, s>>} \cup PlaceholderAnchors({s})

Guards ==
 [t \in Tasks |->
  CASE t[1] = "slot_synth" -> {}
    [] t[1] = "init_slot_placement" -> PlacementPolls(t[3])
    [] t[1] = "ILP_anchor_placement" -> AnchorPolls(t[2], t[3])
    [] t[1] = "opt_placement" -> OptPolls(t[2], t[3])
    [] t[1] = "slot_anchor_clock_routing" -> ClockPolls(t[3])
    [] t[1] = "slot_routing" -> RoutePolls(t[3]) ]

Inputs ==
 [t \in Tasks |->
  CASE t[1] = "slot_synth" -> {}
    [] t[1] = "init_slot_placement" -> PlacementOpens(t[3])
    [] t[1] = "ILP_anchor_placement" -> AnchorOpens(t[2], t[3])
    [] t[1] = "opt_placement" -> OptOpens(t[2], t[3])
    [] t[1] = "slot_anchor_clock_routing" -> ClockOpens(t[3])
    [] t[1] = "slot_routing" -> RouteOpens(t[3]) ]

-----------------------------------------------------------------------------
VARIABLES
  phase,     \* [Tasks -> "wait" | "run" | "send" | "crashed" | "misread"]
  disk,      \* [Servers -> SUBSET Files], the complete files written on a disk
  partial,   \* files a tool has created and not completed, on its own server
  pending,   \* [Tasks -> SUBSET Servers], the servers a line has still to send to
  tries,     \* [Tasks -> Nat], failed attempts of the current rsync_with_retry
  ilpDone,   \* servers with ILP_anchor_placement_iter0/done.flag
  stage,     \* the polling loop (1..6) or stitching step (7..10) of the main server
  slr,       \* [Slrs -> "todo" | "routed" | "failed"]
  merged,    \* [Slrs -> SUBSET Slots], the slots MergeDCP found for an SLR
  top,       \* SLRs merged into the final checkpoint
  removed,   \* servers whose BASE_DIR was removed
  crashes, drops

taskVars == <<phase, disk, partial, pending, tries>>
mainVars == <<stage, slr, merged, top, removed>>
vars == <<taskVars, ilpDone, mainVars, crashes, drops>>

\* The files a server's lines, and on the main server run_back_end.sh, look for.
\* Faulty variant: the last loop looks into the directory of the loop before it.
PolledWithoutRouting ==
  <<"synth_flag", "placed_flag", "place_flag", "opt_dcp", "clock_tcl", "clock_tcl">>
Polled == <<"synth_flag", "placed_flag", "place_flag", "opt_dcp", "clock_tcl", "phys_dcp">>
Unrouted(s) == <<"unrouted_dcp", 0, s>>
WatchedOnMain ==
  {f \in Files : f[2] = 0 /\ \E n \in DOMAIN Polled : f[1] = Polled[n]}
    \cup {Unrouted(s) : s \in Slots} \cup PlaceholderAnchors({})
Watched == [v \in Servers |->
  (UNION {Guards[t] \cup Inputs[t] : t \in {u \in Tasks : Owner[u] = v}})
    \cup (IF v = MainServer THEN WatchedOnMain ELSE {})]

\* rsync goes to the servers of the list in turn (slot_routing: to the main
\* server).  To the server itself it has nothing to copy, and a copy on a server
\* where nothing looks for a file of the task is not modelled.
Destinations == [t \in Tasks |->
  {v \in IF t[1] = "slot_routing" THEN {MainServer} ELSE Servers :
     v # Owner[t] /\ Outputs[t] \cap Watched[v] # {}}]

\* [ -f file ] on a server
Exists(server, f) ==
  /\ server \notin removed
  /\ \/ f \in disk[server]
     \/ f \in partial /\ server = Owner[Producer(f)]

Delivered(t)  == phase[t] = "send" /\ pending[t] = {}
Terminated(t) == Delivered(t) \/ phase[t] \in {"crashed", "misread"}

\* GNU parallel starts the lines of a file in order, at most Jobs at a time.
Ahead == [t \in Tasks |-> {u \in Tasks : /\ u[1] = t[1] /\ u[2] = t[2]
                                         /\ Owner[u] = Owner[t] /\ u[3] < t[3]}]
Launched(t) == Cardinality({u \in Ahead[t] : ~Terminated(u)}) < Jobs

-----------------------------------------------------------------------------
Init ==
  /\ phase = [t \in Tasks |-> "wait"]
  /\ disk = [v \in Servers |-> {}]
  /\ partial = {}
  /\ pending = Destinations
  /\ tries = [t \in Tasks |-> 0]
  /\ ilpDone = {}
  /\ stage = 1
  /\ slr = [r \in Slrs |-> "todo"]
  /\ merged = [r \in Slrs |-> {}]
  /\ top = {}
  /\ removed = {}
  /\ crashes = 0
  /\ drops = 0

(***************************************************************************)
(* The guards of the line have become true and its tool starts.  A tool    *)
(* that opens a missing or incomplete file exits with an error; the rest   *)
(* of the && chain is then skipped.  Files are only ever added, so opening *)
(* all inputs at the start is the worst case.                              *)
(***************************************************************************)
\* Faulty variant: one of the polled flags is enough.
GuardsOpenOnAny(t) ==
  /\ Guards[t] # {} => \E f \in Guards[t] : Exists(Owner[t], f)
  /\ t[1] = "slot_routing" => Owner[t] \in ilpDone
GuardsOpen(t) ==
  /\ \A f \in Guards[t] : Exists(Owner[t], f)
  /\ t[1] = "slot_routing" => Owner[t] \in ilpDone

StartTool(t) ==
  /\ phase[t] = "wait"
  /\ Owner[t] \notin removed
  /\ Launched(t)
  /\ GuardsOpen(t)
  /\ phase' = [phase EXCEPT ![t] = IF Inputs[t] \subseteq disk[Owner[t]]
                                   THEN "run" ELSE "misread"]
  /\ UNCHANGED <<disk, partial, pending, tries, ilpDone, mainVars, crashes, drops>>

\* The next file of the tool (or touch) appears, complete or not.
MayWrite(t, f) ==
  /\ phase[t] = "run"
  /\ Owner[t] \notin removed
  /\ f \in Outputs[t]
  /\ f \notin disk[Owner[t]] \cup partial
  /\ WrittenBefore[f] \subseteq disk[Owner[t]]

BeginWrite(t, f) ==
  /\ MayWrite(t, f)
  /\ f[1] \in SlowWrites
  /\ partial' = partial \cup {f}
  /\ UNCHANGED <<phase, disk, pending, tries, ilpDone, mainVars, crashes, drops>>

\* A file is complete; after the last one the line goes on to the transfers.
CompleteWrite(t, f) ==
  /\ \/ MayWrite(t, f) /\ f[1] \notin SlowWrites
     \/ phase[t] = "run" /\ f \in Outputs[t] \cap partial /\ Owner[t] \notin removed
  /\ disk' = [disk EXCEPT ![Owner[t]] = @ \cup {f}]
  /\ partial' = partial \ {f}
  /\ phase' = [phase EXCEPT ![t] = IF Outputs[t] \subseteq disk'[Owner[t]]
                                   THEN "send" ELSE "run"]
  /\ UNCHANGED <<pending, tries, ilpDone, mainVars, crashes, drops>>

\* Faulty variant: the commands of a line are joined by ; and not by &&.
CrashGoesOn(t) ==
  /\ phase[t] = "run"
  /\ crashes < MaxCrashes
  /\ crashes' = crashes + 1
  /\ phase' = [phase EXCEPT ![t] = "send"]
  /\ UNCHANGED <<disk, partial, pending, tries, ilpDone, mainVars, drops>>

\* The tool, or the parser behind it, fails: the && chain stops.
Crash(t) ==
  /\ phase[t] = "run"
  /\ crashes < MaxCrashes
  /\ crashes' = crashes + 1
  /\ phase' = [phase EXCEPT ![t] = "crashed"]
  /\ UNCHANGED <<disk, partial, pending, tries, ilpDone, mainVars, drops>>

(***************************************************************************)
(* rsync_with_retry.sh: an attempt copies the files that the target lacks, *)
(* one by one in the order of their names (each appears complete: rsync    *)
(* renames a temporary file), and may fail at any point.  The script exits *)
(* with 0 in either case, so the line goes on to the next server also when *)
(* it gave up.                                                             *)
(***************************************************************************)
Sending(t, v) ==
  /\ phase[t] = "send"
  /\ v \in pending[t]
  /\ \A w \in pending[t] : v <= w

Copy(t, v, f) ==
  /\ Sending(t, v)
  /\ {Owner[t], v} \cap removed = {}
  /\ f \in Outputs[t] \ disk[v]
  /\ SentBefore[f] \subseteq disk[v]
  /\ disk' = [disk EXCEPT ![v] = @ \cup {f}]
  /\ IF Outputs[t] \subseteq disk'[v]
       THEN /\ pending' = [pending EXCEPT ![t] = @ \ {v}]
            /\ tries' = [tries EXCEPT ![t] = 0]
       ELSE UNCHANGED <<pending, tries>>
  /\ UNCHANGED <<phase, partial, ilpDone, mainVars, crashes, drops>>

\* Faulty variant: the number of retries is not bounded.
RsyncFailsForever(t, v) ==
  /\ Sending(t, v)
  /\ drops < MaxDrops
  /\ drops' = drops + 1
  /\ tries' = [tries EXCEPT ![t] = @ + 1]
  /\ UNCHANGED <<phase, disk, partial, pending, ilpDone, mainVars, crashes>>

RsyncFails(t, v) ==
  /\ Sending(t, v)
  /\ drops < MaxDrops
  /\ drops' = drops + 1
  /\ IF tries[t] + 1 < MaxRetries
       THEN /\ tries' = [tries EXCEPT ![t] = @ + 1]
            /\ UNCHANGED pending
       ELSE /\ tries' = [tries EXCEPT ![t] = 0]
            /\ pending' = [pending EXCEPT ![t] = @ \ {v}]
  /\ UNCHANGED <<phase, disk, partial, ilpDone, mainVars, crashes>>

\* Faulty variant: the script does not wait for the parallels it has started.
TouchDoneFlagAtOnce(server) ==
  /\ server \notin ilpDone
  /\ ilpDone' = ilpDone \cup {server}
  /\ UNCHANGED <<taskVars, mainVars, crashes, drops>>

\* Faulty variant: done.flag is touched on the main server only.
TouchDoneFlagOnMain(server) ==
  /\ server \notin ilpDone
  /\ server = MainServer
  /\ \A p \in Pairs : Terminated(<<"ILP_anchor_placement", 0, p>>)
  /\ ilpDone' = ilpDone \cup {server}
  /\ UNCHANGED <<taskVars, mainVars, crashes, drops>>

(***************************************************************************)
(* distributed_run_ILP_anchor_placement_iter0.sh: when the parallels of    *)
(* the step have ended on all servers, however their tasks ended, done.flag*)
(* is touched on one server after the other.  No guard polls the done.flag *)
(* of another step.                                                        *)
(***************************************************************************)
TouchDoneFlag(server) ==
  /\ server \notin ilpDone
  /\ \A v \in 1..(server - 1) : v \in ilpDone
  /\ \A p \in Pairs : Terminated(<<"ILP_anchor_placement", 0, p>>)
  /\ ilpDone' = ilpDone \cup {server}
  /\ UNCHANGED <<taskVars, mainVars, crashes, drops>>

-----------------------------------------------------------------------------
(***************************************************************************)
(* The main server.  Each polling loop counts the files of one kind on its *)
(* disk until there is one per slot (pair) directory.                      *)
(***************************************************************************)
StitchStage == 7
TopStage    == 8
CleanStage  == 9
ExitStage   == 10

\* Faulty variant: one finished slot ends a polling loop.
PollLoopOnAny ==
  /\ stage < StitchStage
  /\ LET kind == Polled[stage]
     IN  \E u \in UnitsOf(StepOf[kind]) : Exists(MainServer, <<kind, 0, u>>)
  /\ stage' = stage + 1
  /\ UNCHANGED <<taskVars, ilpDone, slr, merged, top, removed, crashes, drops>>

PollLoop ==
  /\ stage < StitchStage
  /\ LET kind == Polled[stage]
     IN  \A u \in UnitsOf(StepOf[kind]) : Exists(MainServer, <<kind, 0, u>>)
  /\ stage' = stage + 1
  /\ UNCHANGED <<taskVars, ilpDone, slr, merged, top, removed, crashes, drops>>

\* MergeDCP joins the checkpoints it finds below slot_routing; it cannot read
\* an incomplete one.  The Vivado script then routes what was merged.
SlotsOf(r) == {s \in Slots : SlrOfSlot[s] = r}
StitchSlr(r) ==
  LET found == {s \in SlotsOf(r) : Exists(MainServer, Unrouted(s))}
      routes == /\ found # {}
                /\ {Unrouted(s) : s \in found} \cup PlaceholderAnchors(SlotsOf(r))
                     \subseteq disk[MainServer]
  IN  /\ stage = StitchStage
      /\ slr[r] = "todo"
      /\ slr' = [slr EXCEPT ![r] = IF routes THEN "routed" ELSE "failed"]
      /\ merged' = [merged EXCEPT ![r] = IF routes THEN found ELSE {}]
      /\ UNCHANGED <<taskVars, ilpDone, stage, top, removed, crashes, drops>>

\* parallel < parallel-route-slr.txt ends when every SLR task has ended.
StitchDone ==
  /\ stage = StitchStage
  /\ \A r \in Slrs : slr[r] # "todo"
  /\ stage' = TopStage
  /\ UNCHANGED <<taskVars, ilpDone, slr, merged, top, removed, crashes, drops>>

TopStitch ==
  /\ stage = TopStage
  /\ top' = {r \in Slrs : slr[r] = "routed"}
  /\ stage' = CleanStage
  /\ UNCHANGED <<taskVars, ilpDone, slr, merged, removed, crashes, drops>>

\* ssh $server rm -rf BASE_DIR, one server after the other
CleanServer(server) ==
  /\ stage = CleanStage
  /\ server \notin removed \cup {MainServer}
  /\ \A v \in 1..(server - 1) : v \in removed \cup {MainServer}
  /\ removed' = removed \cup {server}
  /\ UNCHANGED <<taskVars, ilpDone, stage, slr, merged, top, crashes, drops>>

Exit ==
  /\ stage = CleanStage
  /\ Servers \subseteq removed \cup {MainServer}
  /\ stage' = ExitStage
  /\ UNCHANGED <<taskVars, ilpDone, slr, merged, top, removed, crashes, drops>>

-----------------------------------------------------------------------------
TaskStep(t) ==
  \/ StartTool(t)
  \/ phase[t] = "run" /\ \E f \in Outputs[t] : BeginWrite(t, f) \/ CompleteWrite(t, f)
  \/ \E v \in pending[t] : phase[t] = "send" /\ \E f \in Outputs[t] : Copy(t, v, f)

MainStep ==
  \/ PollLoop
  \/ \E r \in Slrs : StitchSlr(r)
  \/ StitchDone
  \/ TopStitch
  \/ \E v \in Servers : CleanServer(v)
  \/ Exit

\* run_back_end.sh ends with pkill of its children: nothing runs on.
Alive == stage # ExitStage

Next ==
  /\ Alive
  /\ \/ \E t \in Tasks : /\ ~Terminated(t)
                        /\ \/ TaskStep(t)
                           \/ Crash(t)
                           \/ \E v \in pending[t] : RsyncFails(t, v)
     \/ \E v \in Servers : TouchDoneFlag(v)
     \/ MainStep

Spec == Init /\ [][Next]_vars

\* Lines, distributed_run scripts and run_back_end.sh are processes that poll, and
\* tools, transfers and ssh commands end: as long as any of them can take its next
\* step, one of them does.  (Weaker than fairness to each process.)
Progress ==
  /\ Alive
  /\ \/ \E t \in Tasks : TaskStep(t)
     \/ \E v \in Servers : TouchDoneFlag(v)
     \/ MainStep
FairSpec == Spec /\ WF_vars(Progress)

-----------------------------------------------------------------------------
TypeOK ==
  /\ phase \in [Tasks -> {"wait", "run", "send", "crashed", "misread"}]
  /\ disk \in [Servers -> SUBSET Files]
  /\ partial \subseteq Files
  /\ pending \in [Tasks -> SUBSET Servers]
  /\ tries \in [Tasks -> 0..(MaxRetries - 1)]
  /\ ilpDone \subseteq Servers
  /\ stage \in 1..ExitStage
  /\ slr \in [Slrs -> {"todo", "routed", "failed"}]
  /\ merged \in [Slrs -> SUBSET Slots]
  /\ top \subseteq Slrs
  /\ removed \subseteq Servers
  /\ crashes \in 0..MaxCrashes
  /\ drops \in 0..MaxDrops

\* A done flag seen on any disk, the writer's or one reached by a transfer that
\* is under way or was cut off, comes with the complete file it stands for.  Every
\* guard relies on this when it polls the flag of a line of another server: touch
\* runs after the write, and rsync, which sends in the order of the names, must
\* not let a flag overtake its file.
FlagMeansComplete ==
  \A v \in Servers : \A f \in disk[v] :
    f[1] \in FlagKinds => <<Signals[f[1]], f[2], f[3]>> \in disk[v]

\* Whatever tools and transfers fail, no tool before slot routing opens a file
\* that is missing or incomplete on its server.  opt_placement does not poll for
\* the placed checkpoint it opens: that it is there follows from the chain of
\* flags through the anchors and from the slot's lines being on one server.
GuardsSufficeBeforeRouting ==
  \A t \in Tasks : phase[t] = "misread" => t[1] = "slot_routing"

\* Without failures no tool at all does.  slot_routing sources the anchors of
\* center pairs that are not its neighbours; only done.flag of the anchor
\* placement stands for their arrival.
NoMisread == \A t \in Tasks : phase[t] # "misread"

\* Once stitching has started, every line of the first iteration has done its work
\* without failing, whatever fails where: run_back_end.sh waits in its loops for all
\* of them.  The two exceptions are lines of the main server itself, in optimisation
\* and routing, of which the loops count a checkpoint that is not the last file: such
\* a line may still be at work, or have failed, behind that checkpoint.
HasSucceeded(t) == phase[t] = "send" /\ Outputs[t] \subseteq disk[Owner[t]]
CountedEarly == [opt_placement |-> "opt_dcp", slot_routing |-> "phys_dcp"]
FailureStopsTheFlow ==
  stage >= StitchStage =>
    \A t \in Tasks : t[2] = 0 =>
      \/ HasSucceeded(t)
      \/ /\ Owner[t] = MainServer
         /\ t[1] \in DOMAIN CountedEarly
         /\ Exists(MainServer, <<CountedEarly[t[1]], 0, t[3]>>)

\* An SLR that was routed holds all its slots that came from other servers,
\* although the loop before stitching counts another checkpoint than the one
\* that is merged.
RouteTask(s) == <<"slot_routing", 0, s>>
RemoteSlotsStitched ==
  \A r \in Slrs : slr[r] = "routed" =>
    {s \in SlotsOf(r) : Owner[RouteTask(s)] # MainServer} \subseteq merged[r]

\* A server is removed only when the main server has the results of all its slots.
CleanupAfterDelivery ==
  \A v \in removed : \A s \in Slots :
    Owner[RouteTask(s)] = v => Unrouted(s) \in disk[MainServer]

\* Without failures, an SLR whose stitching fails lacks a checkpoint, and all that it
\* lacks at that moment are checkpoints of slots that the main server routes itself:
\* those of the other servers, and the anchors of the other center pairs, are there.
Lacking(r) ==
  ({Unrouted(s) : s \in SlotsOf(r)} \cup PlaceholderAnchors(SlotsOf(r))) \ disk[MainServer]
RoutedOnMain(r) == {s \in SlotsOf(r) : Owner[RouteTask(s)] = MainServer}
OnlyLocalSlotsFailStitching ==
  [][\A r \in Slrs : slr[r] # "failed" /\ slr'[r] = "failed" =>
       /\ Lacking(r) # {}
       /\ Lacking(r) \subseteq {Unrouted(s) : s \in RoutedOnMain(r)}]_vars

\* "check flags to prevent race conditions": slot_routing does not open a
\* checkpoint of slot optimisation that is still being written.
RoutingOpensFinishedCheckpoint ==
  \A s \in Slots : phase[RouteTask(s)] # "misread"

\* The flow ends: no line waits forever for a file that only a line behind it in
\* a full job queue would write, and transfers that fail are repeated.
Finishes == <>(stage = ExitStage)

(***************************************************************************)
(* Causality: why a file on a disk speaks for what happened on other       *)
(* servers.  Every copy goes back to a file that its own tool wrote, in    *)
(* order, on its own server, after opening complete inputs there.          *)
(***************************************************************************)
AtWriter(f) == f \in disk[Owner[Producer(f)]]
Opened(t)   == phase[t] \notin {"wait", "misread"}

CopiesHaveOriginals == \A v \in Servers : \A f \in disk[v] : AtWriter(f)
WritersHaveOpened   == \A f \in Files : AtWriter(f) \/ f \in partial => Opened(Producer(f))
OpenedInputsStay    == \A t \in Tasks : Opened(t) => Inputs[t] \subseteq disk[Owner[t]]
PolledFlagsStay     == \A t \in Tasks : Opened(t) =>
  \A f \in Guards[t] : f[1] \in FlagKinds => f \in disk[Owner[t]]
WrittenInOrder ==
  \A f \in Files : AtWriter(f) \/ f \in partial => \A g \in WrittenBefore[f] : AtWriter(g)
SendersAreDone == \A t \in Tasks : phase[t] = "send" <=> \A f \in Outputs[t] : AtWriter(f)
PartialIsSlow  == \A f \in partial : f[1] \in SlowWrites
CopiedInOrder  == \A v \in Servers : \A f \in disk[v] :
  v # Owner[Producer(f)] => SentBefore[f] \subseteq disk[v] /\ phase[Producer(f)] = "send"

Causality ==
  /\ CopiesHaveOriginals
  /\ WritersHaveOpened
  /\ OpenedInputsStay
  /\ PolledFlagsStay
  /\ WrittenInOrder
  /\ SendersAreDone
  /\ PartialIsSlow
  /\ CopiedInOrder
  /\ FlagMeansComplete

\* What the main server knows.  A file that it has counted in a polling loop is still
\* there and comes from a tool that had opened complete inputs; if another server made
\* it, the whole line has done its work there.  It removes other servers only after
\* stitching, and it has merged only files that their tools had completed.
OnMain(f) == f \in disk[MainServer] \/ (f \in partial /\ Owner[Producer(f)] = MainServer)
Counted(f) ==
  /\ OnMain(f)
  /\ Opened(Producer(f))
  /\ phase[Producer(f)] = "send" \/ Owner[Producer(f)] = MainServer
LoopsPassed == \A n \in 1..(StitchStage - 1) : stage > n =>
  \A u \in UnitsOf(StepOf[Polled[n]]) : Counted(<<Polled[n], 0, u>>)
RemovedAtTheEnd == removed # {} => stage >= CleanStage /\ MainServer \notin removed
MergedWereMade  == \A r \in Slrs :
  /\ slr[r] = "todo" => merged[r] = {}
  /\ slr[r] # "todo" => stage >= StitchStage
  /\ \A s \in merged[r] : Unrouted(s) \in Files /\ AtWriter(Unrouted(s))
MainKnows == LoopsPassed /\ RemovedAtTheEnd /\ MergedWereMade

\* If no tool fails and fewer attempts fail than rsync_with_retry.sh makes, every
\* transfer a line has behind it has arrived, and done.flag of the anchor placement
\* stands for all its pairs, on every server.
Undisturbed == MaxCrashes = 0 /\ MaxDrops < MaxRetries
NothingIsLost ==
  /\ \A t \in Tasks : phase[t] # "crashed" /\ tries[t] <= drops
  /\ \A t \in Tasks : \A v \in Destinations[t] \ pending[t] : Outputs[t] \subseteq disk[v]
  /\ ilpDone # {} => \A p \in Pairs : Terminated(<<"ILP_anchor_placement", 0, p>>)
  /\ \A s \in Slots : Opened(RouteTask(s)) => ilpDone # {}

\* The lines, which know only the files on their own disks, order the tools as a
\* scheduler with a view of all of them would, whatever tools and transfers fail: a
\* file is made when it is complete on its writer's server, copies make nothing new.
\* A tool of slot_routing that found its inputs missing has not started in the sense
\* of the scheduler; any other tool that did would break the order.
Started == {t \in Tasks : /\ phase[t] # "wait"
                         /\ ~(phase[t] = "misread" /\ t[1] = "slot_routing")}
Made    == {f \in Files : AtWriter(f)}
Joined  == {Unrouted(s) : s \in UNION {merged[r] : r \in Slrs}}
Abstract == INSTANCE Dataflow WITH
  Tools   <- Tasks,
  Things  <- Files,
  Opens   <- Inputs,
  MadeBy  <- [f \in Files |-> Producer(f)],
  started <- Started,
  made    <- Made,
  joined  <- Joined
RefinesDataflow == Abstract!Spec
=============================================================================
