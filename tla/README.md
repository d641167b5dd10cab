# TLA+ models of RapidStream

RapidStream compiles a large dataflow design for an FPGA in parallel. The front
end (`src/python/rapidstream/FE`) divides the design into *slots* and routes the
channels between them through neighbouring slots. The back end
(`src/python/rapidstream/BE`, `src/bash/run_back_end.sh`) synthesises, places and
routes every slot by itself, on several servers, then stitches the slots
together. Between two adjacent slots lie the *anchor* registers of their *pair*.

This directory holds TLA+ specifications of the parts whose correctness is hard
to test, TLC configurations for small instances, and proofs for TLAPS.

    tlc -workers 2 -config flow_chain.cfg MCBackendFlow.tla
    tlapm BackendFlow_proofs.tla

## 1. The system

| part | state it keeps | operations | talks to |
|---|---|---|---|
| `run_back_end.sh` | its position in the polling loops, the scripts in `BASE_DIR/scripts` | starts all steps at once, counts files on the main server's disk, stitches, removes `BASE_DIR` elsewhere | every server by ssh and rsync |
| `parallel_<step>_<server>.txt` lines | files in `BASE_DIR/<step>/<slot or pair>` | guards, tool, flags, transfers, joined by `&&` | other lines, only through files |
| `rsync_with_retry.sh` | attempt counter | rsync, at most `MAX_RETRIES` times | the line that called it |
| set-up scripts (`SlotSynthesis`, `InitialSlotPlacement`, `PairwiseAnchorPlacement SETUP`, `OptSlotPlacement`, `SlotAnchorClockRouting`, `SlotRouting`) | – | write the lines and divide them among servers | run once, before the flow |
| `TimingReportParser` | – | turns the timing reports of a slot into connections of its anchors, then writes the flag | anchor placement |
| `PairwiseAnchorPlacement RUN` | connections of both slots; bins or SLL channels of one pair | finds the anchors of the pair by name, assigns each a register by an ILP, writes two scripts | clock routing and optimisation of both slots |
| `UniversalWrapperCreater` | – | puts the anchor registers of a slot around it | synthesis of each slot |
| device data and pblocks (`U250`, `GenAnchorConstraints`, `addRoutingPblock`) | tables of SLICEs | say where anchors and cells of a slot may be placed and routed | anchor placement, scripts of all slots |
| `MergeDCP` (Java) | a design that grows | merges all checkpoints it finds | stitching |
| global routing (`GlobalRouting`, `ILPGlobalRouting`) | usage limit, candidate paths, path of each edge | searches paths over the slot grid, selects one per edge by an ILP, tries again with a higher limit | wrappers |
| slot and routing wrappers | generated Verilog: registers of passing edges, almost-full FIFOs | names of wires, pipelining, grace periods | the hardware that runs |
| control wrappers | generated Verilog: `ap_start`/`ap_done` trees | pipelining of control signals between slots | the host and the kernels |
| TAPA front end (`tapa_parser`, `rtl_gen`) | – | text generation | front-end manager |
| utilities, baselines, Tcl | – | measurement and experiments | – |

What is hard about it:

* **Ordering by files only.** All steps of the flow are started together. A line
  waits until flags of earlier steps exist on *its own* disk; what another server
  did is only visible through the order in which files arrive. Some lines open
  files they do not wait for, or poll data files instead of flags.
* **Failures.** A tool may fail, which ends its line; a transfer may be cut off at
  any file and may be given up, after which the line goes on.
* **A central observer with a local view.** The main server decides to stitch, and
  then to delete the other servers' directories, from counts of its own files.
* **Bounded workers that poll.** GNU parallel has a limited number of job slots,
  and a line occupies one while it waits.
* **Distributed constants.** The depth that a FIFO keeps free is computed from the
  length of a path; the registers it has to cover are generated by three other
  modules, by pipeline style and anchor plan. Names of wires are made in one slot and
  found by searching in another.
* **Copies that must agree.** Two slots share an anchor, and each has a copy of it in a
  design of its own, placed and routed without looking at the other. Merging the designs
  rewires the copies in an arbitrary order and silently drops cells whose place is taken.
* **Geometry in several places.** Regions of anchors, of slots and of the pblocks that contain
  routing are written down in functions that, as their comments say, "must sync".
* **Arithmetic of partitions**, retry counters, capacities.

PROJECT.json lists the hazards at their lines with the properties that cover them.

## 2. Modules

| module | models | composed with |
|---|---|---|
| `TaskPartition` | `ceil(len/len)` partition of the lines of a step over servers | used by `BackendFlow` |
| `Dataflow` | abstract specification: a scheduler with a view of all files | refined by `BackendFlow` |
| `BackendFlow` | all lines on all servers, `distributed_run_*.sh`, `run_back_end.sh` | extends `TaskPartition` |
| `AnchorConnections` | which anchors the reports of two slots give their pair, and what the scripts of all pairs do together in a slot | – |
| `LagunaPlacement` | anchors of a pair that crosses two SLRs take registers at the ends of super long lines | – |
| `CtrlTree` | `ap_start`, `ap_rst_n` and `ap_done` between the slots of a design, cycle by cycle | – |
| `GlobalRouting` | paths of edges over the grid, and the names of the wires of their segments | – |
| `AlmostFullFifo` | the two FIFOs as functions from one clock edge to the next | used by `EdgeLink` |
| `EdgeLink` | all registers between a sender and a receiver in different slots, and the grace period computed for them | extends `AlmostFullFifo` |
| `Stream` | abstract specification: a FIFO queue, and that items arrive | refined by `Channel` |
| `AnchorRegions` | which SLICEs of the U250 are for anchors, for placement, for routing | used by `Stitching` |
| `MergeDCP` | the netlist of a slot with its anchors, and the merging of two designs | used by `Stitching` |
| `Stitching` | a design from anchor placement over slot routing to the merged top level | extends `AnchorRegions`, `MergeDCP` |
| `Channel` | an edge from routing to running hardware | extends `GlobalRouting`, `EdgeLink` |
| `MCBackendFlow`, `MCAnchorConnections`, `MCLagunaPlacement`, `MCCtrlTree`, `MCGlobalRouting`, `MCChannel`, `MCStitching` | small grids, small channels for TLC | extend the above |
| `*_proofs` | theorems about the module of the same name (those about `TaskPartition` are in `BackendFlow_proofs`) | extend it |

### BackendFlow

A *task* `<<step, iteration, unit>>` is one line; its unit is a pair for anchor
placement and a slot otherwise. A *file* `<<kind, iteration, unit>>` is one of the
files that some guard, tool or polling loop looks for; `StepOf` names the 18 kinds
with their file names.

| state | in the code |
|---|---|
| `phase[t]` | how far line `t` is: in its guards, in its tool, in its transfers, failed |
| `disk[v]` | complete files in `BASE_DIR` of server `v` |
| `partial` | files created and not yet completed (`write_checkpoint` under way) |
| `pending[t]`, `tries[t]` | the rsync commands of the line not yet over, and `i` of the current one |
| `ilpDone` | servers with `ILP_anchor_placement_iter0/done.flag` |
| `stage`, `slr`, `merged`, `top`, `removed` | `run_back_end.sh`: polling loop, `parallel-route-slr.txt`, top stitch, `rm -rf` |

| action | in the code |
|---|---|
| `StartTool` | all `until [[ -f … ]]` guards have ended; the tool opens its inputs (`misread` if one is missing or incomplete) |
| `BeginWrite`, `CompleteWrite` | a file appears, is complete; `touch`/`exec touch` and the parser write flags |
| `Crash` | tool or parser exits with an error |
| `Copy`, `RsyncFails` | `rsync_with_retry.sh`: one file arrives on the target; an attempt breaks off, and is repeated or, after `MaxRetries`, given up with exit status 0 |
| `TouchDoneFlag` | `wait` in `distributed_run_<step>.sh` is over, `done.flag` on the next server |
| `PollLoop`, `StitchSlr`, `StitchDone`, `TopStitch`, `CleanServer`, `Exit` | `run_back_end.sh` |

`Guards` and `Inputs` are built from two operators per step (`OptPolls`, `OptOpens`
and so on): the difference between what a line polls and what its tool opens is
what most properties are about. `Causality` collects why a file on one disk
speaks for what happened on another, and `MainKnows` what `run_back_end.sh` may
conclude from its loops. `RefinesDataflow` says that the lines together start
their tools in an order in which a scheduler with a view of all disks
(`Dataflow`) could have started them, whatever fails.

Abstractions, with the reason each is sound for the properties:

* A transfer to a server where no line and no loop looks for any file of the task
  is left out (`Destinations`, `Watched`). It changes nothing anybody reads.
* All inputs of a tool are opened when it starts. Files are only added while tools
  run, so this is the worst case for missing files.
* `phys_opt_design_iter<OptIter>_anchor_connections.json` is not a file of the
  model: no iteration reads it.
* rsync makes a file visible under its name only when it is complete, and sends
  the files of a directory in the order of their names. Both are rsync's
  behaviour, which the flow relies on.
* A kind of file in `SlowWrites` is visible on its writer's server before it is
  complete. Runs choose the kinds.

### AnchorConnections

Each slot is placed with its own copies of the anchors around it. Two timing reports of the
slot tell which anchors have a path to a cell; `TimingReportParser` turns them into
connections. A pair takes the connections of both its slots, finds the anchors of its
boundary in them by searching for the names of wires inside the names of anchors, and
writes a script for all it found. Scripts of all pairs around a slot are sourced in it.

| state | in the code |
|---|---|
| `style`, `endsIn` | `InSlotPipelineStyle`; the names of wires, as far as they end in each other (chosen once) |
| `parser[s]`, `source[s]`, `sinks[s]` | how `TimingReportParser.py` of a slot ended; keys of its JSON files |
| `pair[p]`, `script[p]` | how `PairwiseAnchorPlacement --option RUN` of a pair ended; the anchors in its scripts, with the register each got |
| `clock[s]`, `opt[s]` | whether the sourced scripts ran: each creates its anchors in an empty design, or places those of the slot |

| action | in the code |
|---|---|
| `ParseReports` | `report_timing` of a slot with any of its paths missing that may be optimised away, then the parser and its assertions |
| `RunPair` | `collectAllConnectionsOfTargetAnchors` with its assertion, `_get_anchor_2_sll_dir` with its `KeyError`, one location per anchor |
| `RouteClock`, `OptimizeSlot` | the scripts of all pairs of a slot, in `slot_anchor_clock_routing` and `opt_placement` |

`PlacedAlike` is what merging relies on later: both copies of an anchor are at the same place,
though one of the slots may not know of it. `Passing` edges have two anchors in one slot.
`GridAssumption` leaves out slots with two neighbours in one direction. Of the iterations, one is
modelled: the others read `phys_opt_design_iter<i>_anchor_connections.json` in place of the first file. Where a pair
places its anchors is the matter of `LagunaPlacement` and `Stitching`.

### LagunaPlacement

`SLLChannel.py` and `__ILPLagunaAnchorPlacement`. A super long line (SLL) joins the
receive register at one end with the transmit register 120 Laguna rows away, and
can be used in one direction. The code keeps two lists of receive registers per
channel, at its upper and its lower end (`top`, `bottom`). The ILP gives each anchor
a channel (`Solve`: any assignment that meets the constraints, since any can be the
cheapest for some wire lengths); then upward anchors `pop()` the upper list and
downward anchors `pop(0)` the lower one (`PlaceUp`, `PlaceDown`), in the arbitrary order of a Python set.
The registers themselves are computed as in the code: rows of a channel from the
SLICE rows (`LagunaY`), sites and registers (`RX`), `PairingTX`, the SLR of a row. Costs, and
the spare channel lists that nothing reads, are left out.

### CtrlTree

The generated Verilog of `CreateCtrlSlotWrapper.py`, the control part of
`CreateSlotWrapper.py` and the registers of `getPipelining`. A step is a rising edge
of `ap_clk`: one of the host's actions together with `Cycle`, in which every register
takes its next value.

| state | in the generated Verilog |
|---|---|
| `start[s]`, `rst_n[s]` | the registers between a slot's parent and itself: `_q` of the root or `_pipeline_reg3` of the parent, the top level's `_q0`, `_pipeline_reg1`, `_reg2` |
| `done[s]`, `held[s]` | the way back: `_pipeline_reg3`, `_q0`, `_pipeline_reg1`; then the register that holds the bit at the parent, `_q` of the root or `_pipeline_reg2` |
| `ap_start_p[s]`, `ap_rst_p[s]` | `ap_start_p1`, `_p2`, `_pipe` and `ap_rst_p1`, `_p2`, `_pipe` of the slot |
| `ap_done_p[k]`, `backup[k]`, `ap_done_reg_[s]` | `<ap_done>_p1`, `_p2`, `_pipe`, `_backup` of a kernel, `ap_done_reg_` of its slot |
| `ap_start_orig`, `int_ap_done` | the control register of the HLS module `s_axi_control` (external) |
| `host`, `runs`, `fresh`, `resetLeft`, `kernel[k]` | the host, `ap_rst_n` and the kernels (external) |
| `finished` | history: kernels that have ended since the last `ap_start` |

`SourceDir` and `FanoutDir` are the two decisions of
`__getCtrlInboundAndOutboundDir`; `Parent` and `Children` follow from them, and it is a
theorem (`WiresMeet`), not an assumption, that they agree. `GridAssumption` is the
assertion of `__getOtherSlotCtrlIO`. In a kernel's place stands an HLS module with
`ap_continue = 1`: it runs when it sees `ap_start`, ends at any time with a pulse of one
cycle, and is idle in reset. The registers of an FPGA are 0 at power-up.
`ap_idle` is left out, nothing depends on it; `ap_ready` is `ap_done`, as in the code.

`NoEarlyDone` is what the host relies on: no run is reported done before its kernels
have ended. It depends on how long the host holds `ap_rst_n` and on what happened in
earlier runs. `Earned` is about the first run after
power-up, in which it holds for any reset; `FirstRunComplete` follows from it (§5). `DoneArrives` says that a run comes to its end.

### GlobalRouting, EdgeLink, AlmostFullFifo, Channel

| state | in the code |
|---|---|
| `queue`, `candidates` | `queue` and `paths` of `findAllPaths`, of each edge |
| `usageLimit` | `routing_usage_limit`, in percent |
| `path` | the selected path, which `e_name2path` holds without its ends |
| `wires`, `left` | `slot_to_dir_to_wires` after `getDirectionOfPassingEdgeWiresUpdated`, and what remains of `routing_wrapper_io_list` |
| `fwd` | `_output_reg`, `_q0` between and in slots, `_input_reg` of `_din` and `_write` |
| `back` | the same of `_full_n`, which travels the other way |
| `fifo` | registers and memory of `fifo_srl_almost_full` or `fifo_bram_almost_full` |
| `link` | style, plan, length of the path, `REAL_DEPTH`, `GRACE_PERIOD` |

| action | in the code |
|---|---|
| `Search`, `SearchDone` | one level of the breadth-first search of `findAllPaths`; the end of `_getBridgeToCandidatePaths` |
| `Solve`, `Retry` | the ILP has a solution, or `routing_usage_limit` is raised and all starts again |
| `NameWires` | `getDirectionOfPassingEdgeWiresUpdated` for all slots |
| `Start` | the generated design is loaded |
| `Cycle` | a rising edge of `ap_clk`, with or without a write of the sender and a read of the receiver |

A port of an edge is its name and the number behind `_pass_`: the pair `<<edge, number>>`.
`PassingPorts` and `InterSlotPorts` are the names a slot makes; `PortsIn` and `PortsOut` say
which of them the search finds. `PipelineLevel` and `GracePeriod` are what the front end counts;
`EndRegs`, `PassingRegs` and `BoundaryRegs` what it generates. Nothing in the code
compares the two, `NoItemLost` does. The registers with the falling clock of `INVERT_CLOCK` sit between
two with the rising clock and add no cycle.

The FIFO is modelled from the Verilog in
`src/test/autosa_mm_2x2_inputsize_1024_throttle_output/ip_for_verilator`. Its instances come from
autobridge (external), which sets `REAL_DEPTH` to `GRACE_PERIOD + DEPTH + 4`, as the results
under `src/examples` show. The width of `used` matters when `REAL_DEPTH` is a power of two (`tight`).
Senders and receivers are HLS modules that respect `full_n` and `empty_n`.

Left out: costs of paths (any selection within the capacities may be the cheapest), rounding of
`capacity * limit` in floating point, edges inside a slot, the data of `_din` beyond a number
modulo `Tags`. After `Start` the variables of the router are reset, since nothing reads them again.

### AnchorRegions, MergeDCP, Stitching

`BackendFlow` says when a checkpoint is there; `Stitching` says what is in it.

| state | in the code |
|---|---|
| `ends` | the IOs in `SlotIO` that two slots share, and their directions; one anchor for each bit |
| `body` | where a cell inside `<slot>_ctrl_U0` is placed |
| `ready`, `loc` | `place_anchors.tcl` of a pair, and the places in it |
| `stopped` | pairs whose `PairwiseAnchorPlacement RUN` ended with an `AssertionError` |
| `dcp` | `non_laguna_anchor_nets_unrouted.dcp` of a slot: its netlist and placement |
| `merged`, `thrown` | the variable `result` of each run of `MergeDCP` (one for each SLR, one for the top level); runs that ended with its `RuntimeException` |

| action | in the code |
|---|---|
| `PlaceInBins`, `PlacementFails` | `runILPWeightMatchingPlacement`: a solution of the ILP; `buffer region too crowded` or `failed in ILP placement` |
| `PlaceOnLaguna` | `placeLagunaAnchors` |
| `RouteSlot` | `opt_placement` and `slot_routing` of a slot |
| `MergeSlot`, `MergeSlr` | the next file that `Files.walk` found is merged into `result` |

The netlist is modelled to the pin: a net is a set of pins, `Rewired`, `PortsNotToCopy` and
`NetsNotToCopy` follow `mergeDCP`, and `Connected` compares the result with the netlist of the
design. `Merged` is what two slots of an SLR, or two SLRs, become. `AnchorRegions` has
the numbers of the code, each from the function that has them, so that the same region
appears several times, as it does there.

Modelling decisions:

* `place_anchors.tcl` names a SLICE and no BEL. Each slot's Vivado chooses the BELs of its own copies of
  the anchors (`PlacedAnchors`), and two slots may choose differently. Anchors stay in
  their SLICE afterwards: `place_cell` fixes them and `lock_design` keeps the placement.
* `phys_opt_design` may move cells inside a slot, which a comment of `routeWithGivenClock` warns of. They stay in the
  pblock, but that contains the neighbour across the SLR boundary as well. Hence the
  exception in `CellsKept`: cells that two slots of different SLRs put on the same BEL,
  one of them away from home, do not both survive. There is one cell in each slot, which may go anywhere.
* The coordinates of bins are *calibrated* for the cost function and converted back. The
  positions grow strictly with the column, so that the conversion is exact, and costs are left out.
* Any solution of the ILP may be the cheapest. With bins of a rounded share of registers
  there may be none although the region is not too crowded; then the pair stops and its slots are never routed.
* Left out: clock, VCC, GND and top-level IOs, which have no anchors and are treated by
  name in `mergeDCP`; routes (PIPs); DSP, BRAM and URAM sites; an anchor that no timing report
  mentions, which gets no place.

## 3. Runs

| run | question | instance | states |
|---|---|---|---|
| `flow_faults` | what survives a failed tool and an abandoned transfer, and in which order? | 2 slots on 2 servers, one crash, one transfer given up at once; a data file of each kind of line (`DataFiles`) is visible before it is complete | 353 K |
| `flow_chain` | do anchors of pairs nobody polls for arrive in time? can polling lines block each other in full queues? does the flow end when a transfer fails once? | 3 slots in a chain on 2 servers, each in an SLR of its own, all pairs center pairs, main server last, 1 job slot per step, one failed attempt of two | 551 K |
| `connections` | does each anchor of a boundary get one place, the same for both its slots, whatever paths the reports lack? | 4 slots in a square across an SLR boundary, 5 wires of which one edge passes a slot, 5 styles, 3 ways in which names end in each other | 403 K |
| `laguna` | is each super long line driven by one anchor, in the right direction? | 5 anchors in 2 channels of 4 lines, at both ends of a boundary's rows, capacity = width | 686 |
| `channel` | do the segments of all paths join, and does a link built for any path deliver what was sent, in order (`ItemsInOrder`, `IsAStream`) and at last (`Flows`, `EverythingArrives`)? | 3 edges on a grid of 2 columns and 4 rows, two rows in each of two SLRs, detours of up to 2, boundaries so narrow that the limit is raised ten times; `REG`, `LUT`, `DOUBLE_REG`, `INVERT_CLOCK`, both plans, both FIFOs, links of up to 3 boundaries | 253 K |
| `stitch` | is the merged design the one that was divided, whatever the order? is any cell lost? | 4 slots: three of an SLR around a corner, one above in the next SLR; 3 anchors between any of them in any direction, 3 Laguna registers, SLICEs of 3 registers, 8 SLICEs at the edges of the regions, 2 BELs | 518 K |
| `ctrl_reset` | does each join wait for all kernels behind it? is the end of a run reported too early after a reset that broke off the last one? | root in the middle of its row, kernels at both ends of the tree, 2 runs, `REG`, reset of at least 15 cycles | 1.2 M |
| `ctrl_live` | does the host always hear of the end? | two kernels in one slot behind a corner, `DOUBLE_REG` | 48 K |
| `ctrl_inner_done` | (violated) the end arrives | a kernel in a slot on the way to another | |
| `route_partial` | (violated) routing opens a finished checkpoint | one server, `opt_dcp` visible early | |
| `long_path` | (violated) the wire at the IN side has the smaller index | the whole grid of the U250, default limit on detours, one edge from (0,0) to (2,7) | |
| `parser_fails` | (violated) the parser finds the cell behind each anchor | the square of `connections` | |

Two servers are enough for every way a file can travel: written here, or written
there and received. Two slots with one pair give a line that depends on both
servers; the third slot of the chain adds a pair a slot is not part of
(`PlaceholderAnchors`) and a server with two lines in one queue. One crash and one
lost transfer cover each single failure at each point; the proofs cover any number.
In `connections` each slot has two pairs; the square has both directions of neighbours, two of its pairs cross
an SLR boundary, and every subset of paths is reported. In one naming the names that end in each
other are of the same boundary, or of boundaries without a common slot, so that `NamesApart` holds; in the other two
it does not, and all that `NothingFails` then says is that the double check of a pair passes.
In `laguna` some channel is always nearly full with both directions in it, which is
when the two lists could meet; rows 0 and 59 are the ends of the row arithmetic, and
the proof covers all rows, boundaries and sizes.
In `channel` the grid is as small as it can be for a path to be too long (`DetoursAreBounded`)
and for one edge to pass the source of another; one of its edges crosses the boundary of the SLRs. Links of three boundaries pass two slots, the
first and the last segment being special and all others alike; `DOUBLE_REG`, which has the longest
links, is cut at one. Two numbers of items are enough to tell a lost or doubled item from a
stream, since `ItemsInOrder` looks at the whole content of the link at each step, and the refinement at how much it is. With
`HlsDepth = 1` the FIFO has the least room. One of the block-RAM links is `tight`.
In `stitch` the four slots are the least that have a vertical, a horizontal and an SLR
boundary; a slot may have anchors at two boundaries and a merged SLR may have open anchors. The eight
SLICEs are where regions could overlap or miss each other: the corner of a vertical and a horizontal region,
first and last rows of regions, the outermost cells of placement and routing areas on either side, one of them over
the SLR boundary. Three registers per SLICE make bins small enough to be full and to have no solution.
Anchors are interchangeable until `ends` names their slots, and so are Laguna registers; hence the symmetry.
The branch in which `mergeDCP` throws is never taken, which `Stitched` says and the proof shows.
In `CtrlTree` the grid has each kind of slot: the root, a slot of its row that feeds a
column, a leaf of a column, a leaf of the row. `MaxRuns = 2` is one run and one that
sees its remains; `Reuse` says whether the host may start it without a reset.
`ResetCycles = 15` is the least reset for which `NoEarlyDone` holds with `REG`
(with 14 TLC finds a held bit that is set again after the reset has passed), and it is 17 with
`DOUBLE_REG`. No document of the code states such a bound; `NoRunEndsEarly` (§5) proves that it is enough for every grid. It does not grow with the depth of the
tree, since reset and `ap_start` take the same way; it has to outlast, at each parent, the
`ap_done` that its child sent before it was reset itself.
The passing runs of `BackendFlow` have one iteration of slot optimisation (`OptIter = 0`): two with failures
are too many states for TLC; the proofs are for any number. Deadlock checking is off in the runs of
`BackendFlow`, `AnchorConnections`, `LagunaPlacement` and `Stitching` because the system stops: at `Exit`, when all is
placed or merged, when a pair has no placement, and when a failed line keeps `run_back_end.sh` in a loop for ever.

**Fairness.** `FairSpec` asks only that as long as some line, some
`distributed_run` script or `run_back_end.sh` can take its next step, one of them
does (`WF_vars(Progress)`). All are processes that poll with `sleep`, and tools
and transfers end. Failures (`Crash`, `RsyncFails`) are not part of `Progress`: they
may happen, never must. `Finishes` holds under this weak assumption because every
step is taken at most once.
In `CtrlTree`, the clock ticks (`WF_vars(Next)`), the host polls `ap_done`, a reset ends,
and each kernel ends the run it was started for. That a kernel which starts again
because `ap_start` is still high ends again is not assumed: it waits for data nobody sends.

In `Channel`, the compiler runs and the clock ticks (`WF_vars(Next)`), and the receiver does not
leave an item in the FIFO for ever (weak fairness of `Take`), which the kernel behind it does only
if it waits for something else. Nothing is assumed of the sender: it may never send.

Each property is also checked against a faulty variant of the code (a definition
whose comment says "Faulty variant" stands before the original), which must violate
it: flags touched before the write ends, transfers in any order, guards that accept
one flag, a loop that ends on one slot, `;` in place of `&&`, and so on.

## 4. Where the code and its comments disagree

* `route_partial`: slot routing polls `<slot>_post_placed_opt.dcp`, not its
  `.done.flag`, which nothing polls. On the server that runs both lines of the
  slot, routing can open the checkpoint while Vivado is still writing it. On other
  servers the file would only appear complete, but lines of one slot share a server.
* `ctrl_inner_done`: a slot joins the held bits of its children with its own `ap_done`,
  which falls again after it was true. If it ends before its children the conjunction
  is never true and the host waits for ever. The root has the same join.
* `long_path`: names of wires are sorted as strings, with the comment "sort the updated io list so that small
  index comes first" (`CreateRoutingSlotWrapper.py:406`): `_pass_10` comes before `_pass_9`, and the
  IN side of a slot takes the wrong one of the two, against "The wire at the IN side always has a smaller
  index". That needs twelve slots; on the grid of the U250 such paths are detours within the default
  limit, such as (0,0) to (2,7) by the fourth column. With paths of at most eleven slots nothing of the
  kind happens (`SegmentsMeet`, checked in `channel` and proved in `ShortPathsMeet`).
* `parser_fails`: in the styles `REG`, `LUT` and `WIRE` a path of a passing edge ends in a cell that has `_q0_reg` in its name
  as the anchor has (`CreateRoutingSlotWrapper.py:160-204`), and `getEndCellName` reaches its `assert False`
  (`TimingReportParser.py:142`). Slots that no edge passes, and the two styles with registers on both sides of an
  anchor, which the examples use, are not affected.

Noticed, without a run of their own:

* The loop that reports "Slot Routing: n/n finished" (`run_back_end.sh:447`) counts
  `phys_opt_routed_with_ooc_clock.dcp`; stitching merges the
  `non_laguna_anchor_nets_unrouted.dcp` written afterwards. Slots of other servers
  are safe, because rsync sends `non_laguna…` before `phys_opt…`
  (`RemoteSlotsStitched`); slots of the main server are not, and may be missing from their SLR or make it fail
  (`OnlyLocalSlotsFailStitching`).
* The loop that reports "Slot Placement Opt: n/n finished" (`run_back_end.sh:421`) counts
  `post_placed_opt.dcp`, which the line writes before it reports and parses timing
  (`OptSlotPlacement.py:110`). If the parser stops, on the main server, the slot counts as finished and is routed and
  stitched. `FailureStopsTheFlow` says how far this goes: a failure of any line that is not behind `opt_dcp` or `phys_dcp`
  on the main server keeps the flow from stitching.
* The bits that hold `ap_done` at the parents are cleared by `ap_rst_n` only. After the first run `ap_done_final` stays
  high, and a later run that is started without a reset is reported done at once, against "hold the ap_done until the
  final ap_done is asserted" (`CreateSlotWrapper.py:205`). `NoEarlyDone` fails so in `ctrl_reset` with `Reuse = TRUE`.
* `_backup` and `ap_done_reg_` have no reset (`CreateSlotWrapper.py:211-219`). If one of two kernels of a slot
  has ended when a run is broken off, the next run does not wait for it, however long the reset: `NoEarlyDone` fails in
  `ctrl_reset` with `SlotOf <- AllAtEnd`. Hence `ctrl_reset` has one kernel per slot.
* `PairwiseAnchorPlacement.py:595` takes an anchor for one of the boundary if its name contains `<wire>_q0_reg`.
  Without `NamesApart`, which nothing checks, a pair also places an anchor of another boundary; then it may stop with a `KeyError`,
  the anchor is created twice, or a slot is to place one that it does not have. The namings of `connections` include such cases.
* "The inner pblock that only includes the slot" (`SlotRouting.py:119`) includes the neighbour across the
  SLR boundary. `phys_opt_design` may use it, in both slots, and of two cells on one BEL merging
  drops one without a word. All other cells survive (`CellsKept`).
* Every iteration of slot optimisation opens the checkpoint of `init_slot_placement`
  (`OptSlotPlacement.py:178`), which a comment calls "the checkpoint in the last iteration".
* An anchor without a path in either slot is in no script and is placed by nobody.
* Between two wires of edges, too, names are compared with `in` (`CreateRoutingSlotWrapper.py:386`): a wire whose name
  ends another's is found in its place.
* `getChildPaths` extends paths as long as they are not longer than the limit, so their children may be.
  Paths that arrive have the parity of the shortest one, hence `DetoursAreBounded` holds for even
  `detour_path_limit` (4 by default); an odd one allows one slot more.
* `routing_usage_limit` has no upper bound: it rises above 100 % until a solution exists.
* `compareAndMarkTwoTrees` swaps its trees and not the numbers of their children (`RouteParser.py:166-176`), and
  `group_instances` of `group_vertices.py` cannot run past its first check; nothing calls either.
* `rsync_with_retry.sh` says that it gives up when its last permitted attempt
  succeeds, and exits with 0 in every case.

## 5. Proofs

The theorems hold for any numbers of slots, pairs, servers, iterations, job slots,
retries, crashes and lost transfers, any set of slow kinds of files, and any grid in
which each slot has a neighbour (`SizesAssumption`, `GridAssumption`,
`SlowWritesAssumption`).

* `BackendFlow_proofs` starts with `TaskPartition`: slices of the partition cover all lines
  (`EveryTaskHasAServer`) and are disjoint (`NoTaskOnTwoServers`); hence each line
  has a host (`HostIsAServer`). The only arithmetic is that
  `k = ceil(n/m)` has `n <= m*k`.
* For every fault of the model: `TypeCorrect`; `CausalityHolds`; `FlagsAreTruthful`;
  `GuardsSuffice`; `MainKnowsHolds`; `FailuresStopTheFlow`; `RemoteSlotsAreStitched`;
  `ResultsSurviveCleanup`; and the refinement `FlowRefinesDataflow`.
* If no tool crashes and fewer attempts fail than `rsync_with_retry.sh` makes (`Undisturbed`):
  `NothingIsLostHolds`; `NoToolMisreads`, provided `opt_dcp` is not visible early (`route_partial` shows why), and
  `OnlyLocalSlotsFail`, provided each SLR has a slot: what an SLR lacks at the step in which it fails, and it lacks something,
  are checkpoints of slots that the main server routes itself. That these may not be there yet is the first of the notes in §4.

`FlagMeansComplete` is not inductive: a copied flag is truthful because its
original is, and rsync sends the file first; the original is truthful because the
line touches it after the file. `Causality` adds these facts: copies have
originals (`CopiesHaveOriginals`), a file exists only if its tool opened complete
inputs (`WritersHaveOpened`, `OpenedInputsStay`), and files of a line appear in order
(`WrittenInOrder`, `SendersAreDone`). It is checked by TLC in `flow_faults` and
proved inductive action by action.

`GuardsSuffice` follows from `Causality` for each step. The interesting case is
optimisation, which does not poll for the placed checkpoint it opens: the flag of an
anchor placement is on this server, so its tool ran somewhere, so it had opened the
connections of this slot, so the placement of this slot wrote them, after the
checkpoint, on the server that owns the slot's lines: this one, since all steps are
divided alike. For later iterations the argument is an induction over the
iterations, in the form of a chain of lemmas.

What the main server concludes is a second inductive invariant, `MainKnows`, on top of `Causality`: each file a passed loop
has counted is still on its disk and comes from a tool that had opened complete inputs, and from another server only when its
line had done all its work (`Counted`; rsync runs behind the tools); servers are removed only behind the loops, and what is
merged was complete at its writer. It does not say that a counted file of the main server itself is complete, or that its line went
on: the loops cannot know. `FailuresStopTheFlow` follows each counted file back to its writer, and from there
through the inputs of the tools to every line before. Every line of the first iteration has then succeeded
(`SuccessIsSending`), apart from the lines of the main server that stand behind `opt_dcp` or `phys_dcp`. `RemoteSlotsAreStitched` and `ResultsSurviveCleanup` need in addition that rsync
sends `non_laguna…` before `phys_opt…` (`CopiedInOrder`). `NoToolMisreads` rests on a third invariant, `NothingIsLost`: what a line has
behind it has arrived, since no transfer fails as often as it is tried, so that `done.flag` of anchor placement stands
for the anchors of all pairs.

`FlowRefinesDataflow` maps a tool to *started* when it has begun with complete inputs, a file to *made* when it is complete at its
writer. Each step of a line is a step of the scheduler or none: `GuardsSuffice` is what makes a
start of a tool a start the scheduler would allow, and copies make nothing new. The one tool that may find its inputs missing, slot
routing, has then not started in the scheduler's sense.

`LagunaPlacement_proofs`: `NoSharedSLL`, `NeverEmpty`, from the inductive invariant
`Allocation` (`Eaten`): the lists of a channel are eaten from opposite ends, one
entry for each anchor of its direction, and the eaten parts hold the anchors. The
same position in both lists is the same SLL, and the capacity bounds the two parts
together, so they do not overlap. Assumed: rows lie in a boundary's band
(`DeviceAssumption`), the capacity is at most the width of the channel
(`LoadAssumption`; 20 and 24 in the code). `TypeCorrect` and `CrossesAsItShould` take each anchor back
to the list it was taken from: registers of the upper end lie in the SLR above the boundary, and the
paired one, 120 rows away, in the SLR below, by the arithmetic of rows.

`AnchorConnections_proofs`: for any grid, wires, passing edges and names. The inductive invariant adds `Collected` to the properties:
the script of a pair has the anchors that the parsed connections of its two slots share, each at its location, and the steps
of a slot come after its pairs. Without names that
end in each other across the boundaries of a slot (`NamesApart`), the search by name and the intersection of the
connections agree (`MatchesOwn`), because a wire belongs to one pair. From this
follow `CollectingNeverFails` and `AnchorsArePlacedAlike`. That the double check of a pair never fails holds for all
names: an anchor both slots know is between them and matches by its own name (`KnownToBoth`).

`CtrlTree_proofs`: for any grid that passes the code's assertion, any kernels, style,
reset and number of runs. `WiresMeet` compares the two decisions case by case on positions.
`SubtreeOfChild` shows that every slot of the subtree of `s` is `s` or in the
subtree of a child; it needs that rows and columns between a slot and the root
have no gaps, which follows from the assertion by taking the nearest gap. `Earned` is
inductive: in the first run a register on the way back is high only if all kernels of
the subtree it comes from have ended (`EarnedHolds`); with all bits held at the root
this gives `FirstRunIsComplete`. Before the first run `NothingStarted` holds, which is
why resets cannot disturb it.

`NoRunEndsEarly` is `NoEarlyDone` for all runs, under three hypotheses. The host starts no run without a reset
(`~Reuse`), else TLC refutes it (§4). The reset lasts `15 + 2 * BetweenSlots` cycles
(`LongReset`): with one cycle less TLC refutes it. A slot has at most one kernel (`OneKernelPerSlot`): with two of
them, parts of the `ap_done` of a run broken off may wait in `_backup` and `ap_done_reg_`, which have no reset,
and a reset of 15 cycles, or of 25, does not clear them. The inductive invariant `ReportInv` follows the window of a reset: `t` cycles ago
the host took `ap_rst_n` down, and held it so for at least `ResetCycles` cycles (`ResetWindow`). What
a register `i` cycles behind the root holds is what the root had `i` cycles ago (`ResetTravels`, `Since`). The window and what
follows it pass each slot in the same order, whatever the distance: `ap_start` is gone before it ends (`NoStartFollows`),
so kernels are idle (`KernelDrained`), then `_backup`, `ap_done_reg_`, and the registers on the way
back (`BackDrained`) hold nothing old. A bit held at a parent can still be set again until its child's last
`ap_done` has passed; `LongReset` says that the parent is still in reset at that moment. From then on each high
register stands for kernels that ended in this run, as `Earned` says of the first.

`GlobalRouting_proofs`: for any grid, edges, widths, capacities and limit on detours. The search
only forbids a path to turn straight back, so that `NoSlotTwice` needs geometry: `Behind` says where
the slots of a path lie relative to its last step, after no bend, one and two. With a third bend
it would fail. `NoPathVisitsASlotTwice` and `EvenLimitsAreKept` (by parity: the search
itself allows paths one slot too long) follow from the inductive invariant `RoutingInv`.
`ShortPathsMeet` needs a second one, `SelectionInv`: selected paths go from neighbour to neighbour and visit no slot twice.
Hence an edge enters a slot once and leaves it by the segment after (`OneWayThrough`), the names a slot makes are those of its segments
(`PortsAreSegments`), and the first of two names in the sorted list is the one that enters, for numbers up to 9
(`EachSideGetsItsNames`). With one slot more than 11 the last step fails, as it does in the code.

`EdgeLink_proofs`: for any length of path, depth, style, plan and both FIFOs. `GraceCoversRegisters`
compares the two counts style by style. `NothingDropped` is not inductive: a write that arrives
was granted by a `full_n` seen many cycles ago. `CreditsCovered` adds what is under way: items in
the FIFO, items on their way to it and high `full_n` on their way back never exceed
its room. A new `full_n` is high only below `DEPTH - 1 - GRACE_PERIOD`, and all registers together
are not more than the grace period; a write turns one credit into one item. `MarksShift`
counts the marks in a chain of registers that shifts. `FifoTypeOK` ties the flags of each FIFO to
its counter; `used` never reaches `DEPTH`, which it could not count when `tight`.

`ItemsStayInOrder` is about content. `InOrder` says of each item how many sends ago it was sent: as many as there are
items between it and the sender. It is not inductive, since the block RAM has registers that do not show in `Items`.
`OrderInv` adds `Placed`: `waddr` is the cell behind the last item, the items are in the cells from `raddr` on
around the end of the RAM, and what the RAM gives next, from `q_tmp` or `q_buf` as `show_ahead` says, is the word at `raddr`.
`SrlOrder` and `BramOrder` show that one clock edge keeps this, for any content, when a write finds room
(`CreditsCovered` again) and a read finds an item. In the second, the step that writes to a RAM whose last item leaves is the one
in which `show_ahead` matters. `OrderCycle` adds the registers (`UnderWayTo` counts the items up to one of them) and the
numbering modulo `Tags` (`OneMore`).

`FifoIsAQueue` drops the numbering: for any content, a clock edge takes the first item away if the receiver reads,
appends the one that arrives, and leaves the rest, and what the receiver gets is the first (`QueueEdge`). A FIFO whose
pointers and output register fit together (`Coherent`, the part of `Placed` without items) holds its own items in
the places `Placed` asks for (`NumberedIsPlaced`), so that `FifoOrder` applies to them, whatever they are. The two versions differ
in where an item is; nothing outside the FIFO can tell them apart by the items it gives.

`Channel_proofs` joins the two: a path has at least two slots, hence the link built for it is one that
`EdgeLink_proofs` speaks of (`StartMakesLink`). `ChannelIsAStream` is the refinement, step by step: routing and the
start of the hardware leave the queue of `Stream` empty, and a clock edge is a `Transfer` with the same choice of
sending and receiving (`RunIsTransfer`). The queue is mapped to the numbers of as many items as the registers and the FIFO hold;
`ItemsInOrder` says that these are the items they hold. Items are numbered modulo `Tags`, for every `Tags`.

`Stitching_proofs`: for any slots of the U250, anchors, SLICEs, BELs, registers per SLICE and Laguna registers. Assumed:
slots are on the grid, slots and anchors have different names, the BEL of inner cells is one of the BELs
(`SlotsAssumption`, `NamesAssumption`, `BelsAssumption`, `ProbesAssumption`), and Laguna registers of different pairs differ
(`LagunaAssumption`). `IInv` says of each design, slot or merged, that it is `Connected`, that nets have their names by
rule, and that its cells are those of its slots at places where they may be. `MergedJoined` goes through the
nets of two such designs: an anchor that both have joins a port in each, at opposite pins, since its slots lie one
in each. `MergedFits` needs that cells of two designs never compete for a BEL: `BuffersApart` (the regions of two pairs have no SLICE
in common, which is why those at vertical boundaries are shorter than the slots) and `BodiesMeet`
(routing areas of two slots only meet across an SLR boundary, and never a buffer region). From this follow
`StitchedAlways`, `CellsKeptAlways` and `ContainedAlways`.

Only model-checked: the liveness properties `Finishes`, `DoneArrives`, `Routed`, `Flows`, `EverythingArrives`, since TLAPS
does not reason about fairness of actions. `NoEarlyDone` and `DetoursAreBounded` are proved under the hypotheses
named above (kind of reset, an even limit), without which they do not hold; `SegmentsMeet` says itself that paths have at most 11 slots.

## 6. Not modelled

Content of checkpoints beyond anchors and the cells they meet, Tcl and Verilog text; Vivado and RapidWright; the baseline
steps and `--use-rwroute-to-stitch`; re-used synthesis checkpoints; set-up and clean
re-runs in an existing `BASE_DIR`; the trackers. Of the anchor connections: sites, slacks and LUT counts (only the cost of an ILP reads
them), iterations after the first, and grids in which a slot has two neighbours in one direction. The clock routing helpers (`RouteParser`,
`GlobalClockRouting`) are one-off scripts that `run_back_end.sh` does not call. `group_vertices` is unfinished. PROJECT.json gives the reason for
each component that has no module.

## 7. Plan

1. (done) Flow of files: `TaskPartition`, `Dataflow`, `BackendFlow`, with all its safety properties and the refinement proved.
2. (done) Laguna registers of pairs that cross SLRs; bins of ILP anchor placement; connections of anchors.
3. (done) Control tree of `ap_start`/`ap_done`.
4. (done) Global routing, names of segments, links and FIFOs, as a refinement of a stream.
5. (done) Regions of anchors, netlist merging of `MergeDCP`, with theorems for any slots of the device.
6. (done) Theorems about `Channel` for any grid and length of path.
7. (done) A proof of `NoEarlyDone` for a sufficient reset, and of the step simulation of `IsAStream`.
