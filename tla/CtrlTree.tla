------------------------------ MODULE CtrlTree ------------------------------
(***************************************************************************)
(* The control signals of a design whose slots form a grid.  ap_start and  *)
(* ap_rst_n travel from the slot with s_axi_control (Root) along its row   *)
(* and then up and down the columns; ap_done travels back.  All wires are  *)
(* pipelined, so a slot sees what the root did some cycles ago and the     *)
(* root hears of a slot some cycles later.  ap_done of a kernel is a pulse *)
(* of one cycle and must be held where it joins the others.                *)
(*                                                                         *)
(* A step of the model is a rising edge of ap_clk: each register takes the *)
(* value its input had before the edge.                                    *)
(***************************************************************************)
EXTENDS Integers, FiniteSets

CONSTANTS
  Slots,         \* positions <<x, y>> of the active slots, routing slots included
  Root,          \* s_axi_slot
  Kernels,       \* vertices whose ap_done is part of the final ap_done
  SlotOf,        \* [Kernels -> Slots]
  PipelineStyle, \* in_slot_pipeline_style
  ResetCycles,   \* least number of cycles for which ap_rst_n is low
  MaxRuns,       \* bound: how often the host writes ap_start
  Reuse          \* may the host start again without a reset in between?

-----------------------------------------------------------------------------
(***************************************************************************)
(* Who is wired to whom.                                                   *)
(***************************************************************************)
Directions == {"UP", "DOWN", "RIGHT", "LEFT"}

Neighbor(s, dir) ==
  CASE dir = "UP"    -> <<s[1], s[2] + 1>>
    [] dir = "DOWN"  -> <<s[1], s[2] - 1>>
    [] dir = "RIGHT" -> <<s[1] + 1, s[2]>>
    [] dir = "LEFT"  -> <<s[1] - 1, s[2]>>

InRootRow(s) == s[2] = Root[2]

SourceDir(s) ==
  IF InRootRow(s) THEN IF s[1] < Root[1] THEN "RIGHT" ELSE "LEFT"
                  ELSE IF s[2] < Root[2] THEN "UP" ELSE "DOWN"

FanoutDir(s) ==
  LET away == IF s = Root THEN Directions
              ELSE IF InRootRow(s) THEN Directions \ {SourceDir(s)}
              ELSE IF s[2] < Root[2] THEN {"DOWN"} ELSE {"UP"}
  IN  {dir \in away : Neighbor(s, dir) \in Slots}

Others      == Slots \ {Root}
Parent(s)   == Neighbor(s, SourceDir(s))
Children(s) == {Neighbor(s, dir) : dir \in FanoutDir(s)}
KernelsIn(s) == {k \in Kernels : SlotOf[k] = s}

\* The assertion of __getOtherSlotCtrlIO.
ASSUME GridAssumption ==
  /\ Slots \subseteq Int \X Int /\ Root \in Slots
  /\ \A s \in Others : Parent(s) \in Slots

ASSUME ConstantsAssumption ==
  /\ SlotOf \in [Kernels -> Slots]
  /\ PipelineStyle \in {"REG", "LUT", "WIRE", "DOUBLE_REG", "INVERT_CLOCK"}
  /\ ResetCycles \in Nat \ {0} /\ MaxRuns \in Nat /\ Reuse \in BOOLEAN

(***************************************************************************)
(* Registers in a row on one wire, the first one next to the driver.       *)
(***************************************************************************)
Line(n)         == [1..n -> BOOLEAN]
Low(n)          == [i \in 1..n |-> FALSE]
Shift(line, in) == [i \in DOMAIN line |-> IF i = 1 THEN in ELSE line[i - 1]]

\* Whole cycles that a wire of the top level takes.  INVERT_CLOCK has a register
\* on the falling edge between two registers on rising edges.
BetweenSlots == IF PipelineStyle \in {"REG", "INVERT_CLOCK"} THEN 0 ELSE 1

\* ap_start, ap_rst_n: _q of the root or reg3 of the parent; top level; reg1, reg2
OutLength == BetweenSlots + 3
\* ap_done: reg3; top level; reg1 unless the parent is the root
BackLength(s) == BetweenSlots + IF Parent(s) = Root THEN 1 ELSE 2

-----------------------------------------------------------------------------
VARIABLES
  host,          \* "idle" | "waiting" for the end of a run
  runs,          \* how often the host has written ap_start
  fresh,         \* no run since the last reset
  resetLeft,     \* ap_rst_n is low for so many more cycles
  ap_start_orig, \* register of s_axi_control
  int_ap_done,   \* register of s_axi_control, cleared when the host reads it
  start,         \* [Others -> Line(OutLength)]
  rst_n,         \* [Others -> Line(OutLength)]
  ap_start_p,    \* [Slots -> Line(3)]: ap_start_p1, _p2, _pipe
  ap_rst_p,      \* [Slots -> Line(3)]: ap_rst_p1, _p2, _pipe
  kernel,        \* [Kernels -> {"idle", "running", "done"}], "done" while ap_done is high
  ap_done_p,     \* [Kernels -> Line(3)]: ap_done_p1, _p2, _pipe
  backup,        \* [Kernels -> BOOLEAN]
  ap_done_reg_,  \* [Slots -> BOOLEAN]
  done,          \* [Others -> Line(BackLength)], the wire to the parent
  held,          \* [Others -> BOOLEAN], at the parent: _q of the root, reg2 of others
  finished       \* history: kernels that have ended since the last ap_start

control == <<host, runs, fresh, resetLeft, ap_start_orig, int_ap_done>>
outward == <<start, rst_n, ap_start_p, ap_rst_p>>
inside  == <<kernel, ap_done_p, backup, ap_done_reg_, finished>>
vars    == <<control, outward, inside, done, held>>

ap_rst_n == resetLeft = 0

\* What a slot sees.
SlotStart(s) == IF s = Root THEN ap_start_orig ELSE start[s][OutLength]
SlotRstN(s)  == IF s = Root THEN ap_rst_n ELSE rst_n[s][OutLength]
InReset(s)   == ap_rst_p[s][3]

\* ap_done of the slot itself, constant if it has no kernel.
SlotDone(s) == KernelsIn(s) # {} => ap_done_reg_[s]

\* ap_done_final, and ap_ready_final
ApDoneFinal == SlotDone(Root) /\ \A c \in Children(Root) : held[c]

\* Registers of the FPGA are 0 at power-up.
Init ==
  /\ host = "idle" /\ runs = 0 /\ fresh = TRUE
  /\ resetLeft = ResetCycles
  /\ ap_start_orig = FALSE /\ int_ap_done = FALSE
  /\ start = [s \in Others |-> Low(OutLength)]
  /\ rst_n = [s \in Others |-> Low(OutLength)]
  /\ ap_start_p = [s \in Slots |-> Low(3)]
  /\ ap_rst_p = [s \in Slots |-> Low(3)]
  /\ kernel = [k \in Kernels |-> "idle"]
  /\ ap_done_p = [k \in Kernels |-> Low(3)]
  /\ backup = [k \in Kernels |-> FALSE]
  /\ ap_done_reg_ = [s \in Slots |-> FALSE]
  /\ done = [s \in Others |-> Low(BackLength(s))]
  /\ held = [s \in Others |-> FALSE]
  /\ finished = {}

-----------------------------------------------------------------------------
(***************************************************************************)
(* s_axi_control and the host.  ap_ready_final is ap_done_final.           *)
(***************************************************************************)
SAxiControl(write, read) ==
  /\ ap_start_orig' = (~InReset(Root) /\ (write \/ (ap_start_orig /\ ~ApDoneFinal)))
  /\ int_ap_done'   = (~InReset(Root) /\ (ApDoneFinal \/ (int_ap_done /\ ~read)))

StartRun ==
  /\ host = "idle" /\ host' = "waiting"
  /\ ap_rst_n /\ ~InReset(Root)
  /\ fresh \/ Reuse
  /\ fresh' = FALSE
  /\ runs < MaxRuns /\ runs' = runs + 1
  /\ SAxiControl(TRUE, FALSE)
  /\ UNCHANGED resetLeft

ReadDone ==
  /\ ap_rst_n
  /\ host = "waiting" /\ int_ap_done /\ host' = "idle"
  /\ SAxiControl(FALSE, TRUE)
  /\ UNCHANGED <<runs, fresh, resetLeft>>

NoAccess ==
  /\ ap_rst_n
  /\ SAxiControl(FALSE, FALSE)
  /\ UNCHANGED <<host, runs, fresh, resetLeft>>

\* A run can be broken off by a reset at any time.  Bound: not the last run.
AssertReset ==
  /\ ap_rst_n /\ ~fresh
  /\ runs < MaxRuns
  /\ resetLeft' = ResetCycles
  /\ host' = "idle" /\ fresh' = TRUE
  /\ SAxiControl(FALSE, FALSE)
  /\ UNCHANGED runs

\* The reset lasts ResetCycles or longer.
KeepReset ==
  /\ ~ap_rst_n
  /\ resetLeft' \in {resetLeft, resetLeft - 1}
  /\ SAxiControl(FALSE, FALSE)
  /\ UNCHANGED <<host, runs, fresh>>

(***************************************************************************)
(* What all registers of the slots do in every cycle.                      *)
(***************************************************************************)
\* ap_start and ap_rst_n: to the other slots, and inside each of them.
SendOutward ==
  /\ start' = [s \in Others |-> Shift(start[s], SlotStart(Parent(s)))]
  /\ rst_n' = [s \in Others |-> Shift(rst_n[s], SlotRstN(Parent(s)))]
  /\ ap_start_p' = [s \in Slots |-> Shift(ap_start_p[s], SlotStart(s))]
  /\ ap_rst_p'   = [s \in Slots |-> Shift(ap_rst_p[s], ~SlotRstN(s))]

\* HLS modules with ap_continue = 1.  As long as ap_start is high a module starts
\* again after its end, and then may or may not come to an end.
KernelNext(k) ==
  IF InReset(SlotOf[k]) THEN {"idle"}
  ELSE IF kernel[k] = "running" THEN {"running", "done"}
  ELSE IF ap_start_p[SlotOf[k]][3] THEN {"running"} ELSE {"idle"}

RunKernels ==
  /\ kernel' \in [Kernels -> {"idle", "running", "done"}]
  /\ \A k \in Kernels : kernel'[k] \in KernelNext(k)
  /\ finished' = {k \in Kernels : kernel'[k] = "done"} \cup
                 (IF host = "idle" /\ host' = "waiting" THEN {} ELSE finished)

\* Faulty variant: the pulse of the kernel is not kept for the kernels still running.
JoinKernelsUnheld ==
  /\ ap_done_p' = [k \in Kernels |-> Shift(ap_done_p[k], kernel[k] = "done")]
  /\ backup' = [k \in Kernels |-> ap_done_p[k][3]]
  /\ ap_done_reg_' = [s \in Slots |-> \A k \in KernelsIn(s) : backup[k]]

\* __setApDone
JoinKernels ==
  /\ ap_done_p' = [k \in Kernels |-> Shift(ap_done_p[k], kernel[k] = "done")]
  /\ backup' = [k \in Kernels |->
                  ap_done_p[k][3] \/ (backup[k] /\ ~ap_done_reg_[SlotOf[k]])]
  /\ ap_done_reg_' = [s \in Slots |-> \A k \in KernelsIn(s) : backup[k]]

\* Faulty variant: a slot sends its own ap_done and drops those of its children.
SendBackOwn ==
  /\ done' = [s \in Others |-> Shift(done[s], SlotDone(s))]
  /\ held' = [s \in Others |->
                SlotRstN(Parent(s)) /\ (held[s] \/ done[s][BackLength(s)])]

\* Faulty variant: the wire to the root has a register reg1 as well.
SendBackLong ==
  /\ done' = [s \in Others |->
                [i \in 1..BetweenSlots + 2 |->
                   IF i = 1 THEN SlotDone(s) /\ \A c \in Children(s) : held[c]
                            ELSE done[s][i - 1]]]
  /\ held' = [s \in Others |->
                SlotRstN(Parent(s)) /\ (held[s] \/ done[s][BackLength(s)])]

\* Faulty variant: what a parent holds survives a reset.
SendBackHeld ==
  /\ done' = [s \in Others |->
                Shift(done[s], SlotDone(s) /\ \A c \in Children(s) : held[c])]
  /\ held' = [s \in Others |-> held[s] \/ done[s][BackLength(s)]]

\* ap_done: to the parent, and held there.
SendBack ==
  /\ done' = [s \in Others |->
                Shift(done[s], SlotDone(s) /\ \A c \in Children(s) : held[c])]
  /\ held' = [s \in Others |->
                SlotRstN(Parent(s)) /\ (held[s] \/ done[s][BackLength(s)])]

Cycle == SendOutward /\ RunKernels /\ JoinKernels /\ SendBack

Next ==
  \/ StartRun /\ Cycle
  \/ ReadDone /\ Cycle
  \/ NoAccess /\ Cycle
  \/ AssertReset /\ Cycle
  \/ KeepReset /\ Cycle

Spec == Init /\ [][Next]_vars

(***************************************************************************)
(* The clock ticks, the host polls, a reset ends, and each kernel ends the *)
(* run it was started for.  A kernel that starts again need not end again: *)
(* nobody sends it anything.                                               *)
(***************************************************************************)
EndsRun(k) == k \notin finished /\ k \in finished'

Fairness ==
  /\ WF_vars(Next)
  /\ WF_vars(ReadDone /\ Cycle)
  /\ WF_vars(KeepReset /\ Cycle /\ resetLeft' < resetLeft)
  /\ \A k \in Kernels : WF_vars(Next /\ EndsRun(k))

FairSpec == Spec /\ Fairness

-----------------------------------------------------------------------------
TypeOK ==
  /\ host \in {"idle", "waiting"} /\ runs \in 0..MaxRuns /\ fresh \in BOOLEAN
  /\ resetLeft \in 0..ResetCycles
  /\ ap_start_orig \in BOOLEAN /\ int_ap_done \in BOOLEAN
  /\ start \in [Others -> Line(OutLength)] /\ rst_n \in [Others -> Line(OutLength)]
  /\ ap_start_p \in [Slots -> Line(3)] /\ ap_rst_p \in [Slots -> Line(3)]
  /\ kernel \in [Kernels -> {"idle", "running", "done"}]
  /\ ap_done_p \in [Kernels -> Line(3)] /\ backup \in [Kernels -> BOOLEAN]
  /\ ap_done_reg_ \in [Slots -> BOOLEAN]
  /\ DOMAIN done = Others /\ \A s \in Others : done[s] \in Line(BackLength(s))
  /\ held \in [Others -> BOOLEAN]
  /\ finished \subseteq Kernels

\* The end of a run is reported only when each kernel has ended in this run.
NoEarlyDone == host = "waiting" /\ (ApDoneFinal \/ int_ap_done) => finished = Kernels

\* The same of the first run after power-up, whatever resets break it off.
FirstRunComplete == runs <= 1 /\ ApDoneFinal => finished = Kernels

(***************************************************************************)
(* In the first run, whatever is high on the way back to the root speaks   *)
(* for all kernels whose ap_done has to pass there.                        *)
(***************************************************************************)
\* Slots whose control signals pass through a slot, itself included.
Subtree(s) ==
  IF s = Root THEN Slots
  ELSE IF InRootRow(s)
    THEN {t \in Slots : IF s[1] < Root[1] THEN t[1] <= s[1] ELSE t[1] >= s[1]}
    ELSE {t \in Slots : /\ t[1] = s[1]
                        /\ IF s[2] < Root[2] THEN t[2] <= s[2] ELSE t[2] >= s[2]}

NothingStarted ==
  /\ ~ap_start_orig
  /\ \A s \in Others : start[s] = Low(OutLength)
  /\ \A s \in Slots : ap_start_p[s] = Low(3)
  /\ \A k \in Kernels : kernel[k] = "idle"
  /\ finished = {}

KernelsEarned ==
  \A k \in Kernels :
    (kernel[k] = "done" \/ backup[k] \/ \E i \in 1..3 : ap_done_p[k][i]) => k \in finished

SlotsEarned == \A s \in Slots : ap_done_reg_[s] => KernelsIn(s) \subseteq finished

BackEarned ==
  \A s \in Others :
    (held[s] \/ \E i \in 1..BackLength(s) : done[s][i]) =>
      \A k \in Kernels : SlotOf[k] \in Subtree(s) => k \in finished

Earned ==
  /\ runs = 0 => NothingStarted
  /\ runs <= 1 => KernelsEarned /\ SlotsEarned /\ BackEarned

\* Each run that is started ends, and the host reads its end.
DoneArrives == host = "waiting" ~> host = "idle"
=============================================================================
