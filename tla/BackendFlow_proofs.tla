------------------------- MODULE BackendFlow_proofs -------------------------
(***************************************************************************)
(* Theorems about BackendFlow, for any number of slots, pairs, servers,    *)
(* iterations, job slots and failures; first, about the partition of the   *)
(* tasks of a step that they rest on: its slices cover every task exactly  *)
(* once, also when the numbers do not divide, and when there are more      *)
(* servers than tasks.                                                     *)
(***************************************************************************)
EXTENDS BackendFlow, TLAPS

\* Integer division by a positive number rounds down.
LEMMA DivBound ==
  ASSUME NEW a \in Nat, NEW b \in Nat, b > 0
  PROVE  /\ a \div b \in Nat
         /\ b * (a \div b) <= a
         /\ a < b * (a \div b) + b
  OBVIOUS

\* num_job_server jobs on every server are enough for all the tasks.
LEMMA NumJobServerBound ==
  ASSUME NEW tasks \in Nat, NEW servers \in Nat \ {0}
  PROVE  /\ NumJobServer(tasks, servers) \in Nat
         /\ tasks <= servers * NumJobServer(tasks, servers)
<1> DEFINE a == tasks + servers - 1
<1>1. a \in Nat
  OBVIOUS
<1>2. /\ a \div servers \in Nat
      /\ a < servers * (a \div servers) + servers
  BY <1>1, DivBound
<1> QED
  BY <1>2 DEF NumJobServer

\* A bound between two products bounds a factor.
LEMMA FactorBound ==
  ASSUME NEW q \in Nat, NEW servers \in Nat, NEW k \in Nat, k > 0,
         q * k < servers * k
  PROVE  q < servers
<1> SUFFICES ASSUME ~(q < servers) PROVE FALSE
  OBVIOUS
<1>1. q - servers \in Nat
  OBVIOUS
<1>2. (q - servers) * k >= 0
  BY <1>1
<1> QED
  BY <1>2

(***************************************************************************)
(* No task of a step is dropped: every task is in the file of some server. *)
(***************************************************************************)
THEOREM EveryTaskHasAServer ==
  ASSUME NEW tasks \in Nat, NEW servers \in Nat \ {0}, NEW j \in 1..tasks
  PROVE  \E server \in 1..servers : j \in LocalTasks(tasks, servers, server)
<1> DEFINE k == NumJobServer(tasks, servers)
<1>1. /\ k \in Nat
      /\ tasks <= servers * k
  BY NumJobServerBound
<1>2. k > 0
  <2> SUFFICES ASSUME k = 0 PROVE FALSE
    BY <1>1
  <2> QED
    BY <1>1
<1> HIDE DEF k
<1> DEFINE q == (j - 1) \div k
<1>3. /\ q \in Nat
      /\ k * q <= j - 1
      /\ j - 1 < k * q + k
  BY <1>1, <1>2, DivBound
<1> HIDE DEF q
<1>4. q < servers
  <2>1. q * k < servers * k
    BY <1>1, <1>3
  <2> QED
    BY <2>1, <1>1, <1>2, <1>3, FactorBound
<1>5. q + 1 \in 1..servers
  BY <1>3, <1>4
<1>6. /\ ((q + 1) - 1) * k < j
      /\ j <= (q + 1) * k
  BY <1>1, <1>3
<1>7. j \in LocalTasks(tasks, servers, q + 1)
  BY <1>6 DEF LocalTasks, k
<1> QED
  BY <1>5, <1>7

(***************************************************************************)
(* No task of a step is run twice: the files of two servers are disjoint.  *)
(***************************************************************************)
THEOREM NoTaskOnTwoServers ==
  ASSUME NEW tasks \in Nat, NEW servers \in Nat \ {0},
         NEW s1 \in 1..servers, NEW s2 \in 1..servers, s1 # s2
  PROVE  LocalTasks(tasks, servers, s1) \cap LocalTasks(tasks, servers, s2) = {}
<1> DEFINE k == NumJobServer(tasks, servers)
<1>1. k \in Nat
  BY NumJobServerBound
<1>2. ASSUME NEW lo \in 1..servers, NEW hi \in 1..servers, lo < hi
      PROVE  LocalTasks(tasks, servers, lo) \cap LocalTasks(tasks, servers, hi) = {}
  <2> HIDE DEF k
  <2>1. (hi - 1 - lo) * k >= 0
    BY <1>1, <1>2
  <2>2. lo * k <= (hi - 1) * k
    BY <2>1, <1>1
  <2>3. \A j \in 1..tasks : ~((hi - 1) * k < j /\ j <= lo * k)
    BY <2>2, <1>1
  <2> QED
    BY <2>3 DEF LocalTasks, k
<1> QED
  BY <1>2

\* The server that runs a task, as a function of its position.
LEMMA HostIsAServer ==
  ASSUME NEW tasks \in Nat, NEW servers \in Nat \ {0}, NEW j \in 1..tasks
  PROVE  /\ Host(tasks, servers, j) \in 1..servers
         /\ j \in LocalTasks(tasks, servers, Host(tasks, servers, j))
  BY EveryTaskHasAServer DEF Host

------------------------------------------------------------------------------

\* Every line is in the file of a server.
LEMMA OwnerIsAServer ==
  ASSUME NEW t \in Tasks
  PROVE  Owner[t] \in Servers
<1>1. /\ NumTasks(t[1]) \in Nat
      /\ t[3] \in 1..NumTasks(t[1])
  BY SizesAssumption DEF Tasks, NumTasks, UnitsOf, Slots, Pairs
<1>2. Host(NumTasks(t[1]), NumServers, t[3]) \in 1..NumServers
  BY <1>1, SizesAssumption, HostIsAServer
<1> QED
  BY <1>2 DEF Owner, Servers

\* A file is one of the outputs of the task that produces it.
LEMMA OutputsOfTasks ==
  /\ \A f \in Files : Producer(f) \in Tasks /\ f \in Outputs[Producer(f)]
  /\ \A t \in Tasks : \A f \in Outputs[t] : f \in Files /\ Producer(f) = t
<1>1. \A f \in Files : Producer(f) \in Tasks
  BY DEF Files, Producer
<1> QED
  BY <1>1 DEF Outputs

LEMMA DestinationsType == Destinations \in [Tasks -> SUBSET Servers]
<1>1. \A t \in Tasks : Destinations[t] \subseteq Servers
  BY SizesAssumption, GridAssumption DEF Destinations
<1> QED
  BY <1>1 DEF Destinations

-----------------------------------------------------------------------------
LEMMA TypeInit == Init => TypeOK
<1> SUFFICES ASSUME Init PROVE TypeOK
  OBVIOUS
<1>1. pending \in [Tasks -> SUBSET Servers]
  BY DestinationsType DEF Init
<1>2. tries \in [Tasks -> 0..(MaxRetries - 1)]
  BY SizesAssumption DEF Init
<1>3. stage \in 1..ExitStage /\ crashes \in 0..MaxCrashes /\ drops \in 0..MaxDrops
  BY SizesAssumption DEF Init, ExitStage
<1> QED
  BY <1>1, <1>2, <1>3 DEF Init, TypeOK

LEMMA TypeStep == TypeOK /\ [Next]_vars => TypeOK'
<1> SUFFICES ASSUME TypeOK, [Next]_vars PROVE TypeOK'
  OBVIOUS
<1> USE DEF TypeOK
<1>1. ASSUME NEW t \in Tasks, StartTool(t) PROVE TypeOK'
  BY <1>1 DEF StartTool, mainVars
<1>2. ASSUME NEW t \in Tasks, NEW f \in Outputs[t], BeginWrite(t, f) PROVE TypeOK'
  BY <1>2, OutputsOfTasks DEF BeginWrite, mainVars
<1>3. ASSUME NEW t \in Tasks, NEW f \in Outputs[t], CompleteWrite(t, f) PROVE TypeOK'
  BY <1>3, OutputsOfTasks, OwnerIsAServer DEF CompleteWrite, mainVars
<1>4. ASSUME NEW t \in Tasks, NEW v \in pending[t], NEW f \in Outputs[t], Copy(t, v, f)
      PROVE  TypeOK'
  <2>1. v \in Servers /\ f \in Files
    BY OutputsOfTasks
  <2>2. disk' \in [Servers -> SUBSET Files]
    BY <1>4, <2>1 DEF Copy
  <2>3. pending' \in [Tasks -> SUBSET Servers]
    BY <1>4 DEF Copy
  <2>4. tries' \in [Tasks -> 0..(MaxRetries - 1)]
    BY <1>4, SizesAssumption DEF Copy
  <2> QED
    BY <1>4, <2>2, <2>3, <2>4 DEF Copy, mainVars
<1>5. ASSUME NEW t \in Tasks, Crash(t) PROVE TypeOK'
  BY <1>5, SizesAssumption DEF Crash, mainVars
<1>6. ASSUME NEW t \in Tasks, NEW v \in pending[t], RsyncFails(t, v) PROVE TypeOK'
  <2>1. pending' \in [Tasks -> SUBSET Servers]
    BY <1>6 DEF RsyncFails
  <2>2. tries' \in [Tasks -> 0..(MaxRetries - 1)]
    BY <1>6, SizesAssumption DEF RsyncFails
  <2>3. drops' \in 0..MaxDrops
    BY <1>6, SizesAssumption DEF RsyncFails
  <2> QED
    BY <1>6, <2>1, <2>2, <2>3 DEF RsyncFails, mainVars
<1>7. ASSUME NEW v \in Servers, TouchDoneFlag(v) PROVE TypeOK'
  BY <1>7 DEF TouchDoneFlag, taskVars, mainVars
<1>8. CASE PollLoop
  BY <1>8 DEF PollLoop, taskVars, StitchStage, ExitStage
<1>9. ASSUME NEW r \in Slrs, StitchSlr(r) PROVE TypeOK'
  BY <1>9 DEF StitchSlr, SlotsOf, taskVars
<1>10. CASE StitchDone
  BY <1>10 DEF StitchDone, taskVars, TopStage, ExitStage
<1>11. CASE TopStitch
  BY <1>11 DEF TopStitch, taskVars, CleanStage, ExitStage
<1>12. ASSUME NEW v \in Servers, CleanServer(v) PROVE TypeOK'
  BY <1>12 DEF CleanServer, taskVars
<1>13. CASE Exit
  BY <1>13 DEF Exit, taskVars, ExitStage
<1>14. CASE UNCHANGED vars
  BY <1>14 DEF vars, taskVars, mainVars
<1> QED
  BY <1>1, <1>2, <1>3, <1>4, <1>5, <1>6, <1>7, <1>8, <1>9, <1>10, <1>11, <1>12,
     <1>13, <1>14 DEF Next, TaskStep, MainStep

(***************************************************************************)
(* Every reachable state has the shape the module's comments give it.      *)
(***************************************************************************)
THEOREM TypeCorrect == Spec => []TypeOK
  BY TypeInit, TypeStep, PTL DEF Spec

-----------------------------------------------------------------------------
\* A flag comes after its file, when a tool writes and when rsync sends.
LEMMA FlagAfterFile ==
  ASSUME NEW f \in Files, f[1] \in FlagKinds
  PROVE  /\ <<Signals[f[1]], f[2], f[3]>> \in WrittenBefore[f]
         /\ <<Signals[f[1]], f[2], f[3]>> \in SentBefore[f]
<1> DEFINE k == f[1]
           d == Signals[k]
           g == <<d, f[2], f[3]>>
<1>1. k \in {"synth_flag", "placed_flag", "init_conn_flag", "place_flag",
             "create_flag", "opt_flag", "opt_conn_flag", "clock_flag"}
  BY DEF FlagKinds, Signals
<1>2. /\ d \in Kinds
      /\ StepOf[d] = StepOf[k]
      /\ WriteOrder[d] < WriteOrder[k]
      /\ NameOrder[d] < NameOrder[k]
      /\ d \in {"opt_conn", "opt_conn_flag"} => k = "opt_conn_flag"
  BY <1>1 DEF Signals, Kinds, StepOf, WriteOrder, NameOrder
<1>3. g \in Kinds \X Iters \X (Slots \cup Pairs)
  BY <1>2 DEF Files
<1>4. g \in Files
  BY <1>2, <1>3 DEF Files
<1>5. Producer(g) = Producer(f)
  BY <1>2 DEF Producer
<1>6. g \in Outputs[Producer(f)]
  BY <1>4, <1>5, OutputsOfTasks
<1> QED
  BY <1>2, <1>6 DEF WrittenBefore, SentBefore

\* Every line writes a file.
LEMMA EveryLineWrites ==
  ASSUME NEW t \in Tasks
  PROVE  Outputs[t] # {}
<1> DEFINE First == [slot_synth |-> "synth_dcp", init_slot_placement |-> "placed_dcp",
                     ILP_anchor_placement |-> "place_tcl", opt_placement |-> "opt_dcp",
                     slot_anchor_clock_routing |-> "clock_tcl", slot_routing |-> "phys_dcp"]
           k == First[t[1]]
           f == <<k, t[2], t[3]>>
<1>1. /\ t[1] \in {"slot_synth", "init_slot_placement", "ILP_anchor_placement",
                   "opt_placement", "slot_anchor_clock_routing", "slot_routing"}
      /\ t = <<t[1], t[2], t[3]>> /\ t[2] \in Iters /\ t[3] \in Slots \cup Pairs
  BY DEF Tasks, Steps, Kinds, StepOf
<1>2. k \in Kinds /\ StepOf[k] = t[1] /\ k \notin {"opt_conn", "opt_conn_flag"}
  BY <1>1 DEF Kinds, StepOf
<1> HIDE DEF First
<1>3. Producer(f) = t
  BY <1>1, <1>2 DEF Producer
<1>4. f \in Files
  BY <1>1, <1>2, <1>3 DEF Files, Producer
<1> QED
  BY <1>3, <1>4, OutputsOfTasks

LEMMA CausalityInit == Init => Causality
<1> SUFFICES ASSUME Init PROVE Causality
  OBVIOUS
<1>1. \A f \in Files : ~AtWriter(f) /\ f \notin partial
  BY OutputsOfTasks, OwnerIsAServer DEF Init, AtWriter
<1>2. \A t \in Tasks : /\ ~Opened(t) /\ phase[t] # "send"
                      /\ \E f \in Outputs[t] : ~AtWriter(f)
  BY <1>1, EveryLineWrites, OutputsOfTasks DEF Init, Opened
<1>3. partial = {} /\ \A v \in Servers : disk[v] = {}
  BY DEF Init
<1> QED
  BY <1>1, <1>2, <1>3 DEF Causality, CopiesHaveOriginals, WritersHaveOpened,
     OpenedInputsStay, PolledFlagsStay, WrittenInOrder, SendersAreDone, PartialIsSlow,
     CopiedInOrder, FlagMeansComplete

\* Starting a tool, which changes nothing but the phase of its task.
LEMMA CausalityStart ==
  ASSUME TypeOK, Causality, NEW t \in Tasks, StartTool(t)
  PROVE  Causality'
<1> USE DEF Causality
<1>1. disk' = disk /\ partial' = partial
  BY DEF StartTool
<1>2. /\ \A f : AtWriter(f)' <=> AtWriter(f)
      /\ CopiesHaveOriginals' /\ WrittenInOrder' /\ PartialIsSlow' /\ FlagMeansComplete'
  BY <1>1 DEF AtWriter, CopiesHaveOriginals, WrittenInOrder, PartialIsSlow,
     FlagMeansComplete
<1>3. /\ phase[t] = "wait"
      /\ \A u \in Tasks \ {t} : phase'[u] = phase[u]
      /\ phase'[t] \in {"run", "misread"}
      /\ phase'[t] = "run" => Inputs[t] \subseteq disk[Owner[t]]
  BY DEF StartTool, TypeOK
<1>4. WritersHaveOpened'
  <2>1. \A u \in Tasks : Opened(u) => Opened(u)'
    BY <1>3 DEF Opened
  <2> QED
    BY <1>1, <1>2, <2>1, OutputsOfTasks DEF WritersHaveOpened
<1>5. OpenedInputsStay'
  BY <1>1, <1>3 DEF OpenedInputsStay, Opened
<1>6. PolledFlagsStay'
  <2>1. \A f \in Guards[t] : f[1] \in FlagKinds => f \in disk[Owner[t]]
    BY SlowWritesAssumption DEF StartTool, GuardsOpen, Exists, PartialIsSlow
  <2> QED
    BY <1>1, <1>3, <2>1 DEF PolledFlagsStay, Opened
<1>7. \A u \in Tasks : phase'[u] = "send" <=> phase[u] = "send"
  BY <1>3
<1>8. SendersAreDone'
  BY <1>2, <1>7 DEF SendersAreDone
<1>9. CopiedInOrder'
  BY <1>1, <1>7, OutputsOfTasks DEF CopiedInOrder, TypeOK
<1> QED
  BY <1>2, <1>4, <1>5, <1>6, <1>8, <1>9

LEMMA CausalityBegin ==
  ASSUME TypeOK, Causality, NEW t \in Tasks, NEW f \in Outputs[t], BeginWrite(t, f)
  PROVE  Causality'
<1> USE DEF Causality
<1>1. /\ disk' = disk /\ phase' = phase /\ partial' = partial \cup {f}
      /\ phase[t] = "run" /\ f[1] \in SlowWrites
      /\ WrittenBefore[f] \subseteq disk[Owner[t]]
  BY DEF BeginWrite, MayWrite
<1>2. f \in Files /\ Producer(f) = t
  BY OutputsOfTasks
<1>3. /\ \A g : AtWriter(g)' <=> AtWriter(g)
      /\ CopiesHaveOriginals' /\ OpenedInputsStay' /\ PolledFlagsStay'
      /\ SendersAreDone' /\ CopiedInOrder' /\ FlagMeansComplete' /\ PartialIsSlow'
  BY <1>1 DEF AtWriter, Opened, CopiesHaveOriginals, OpenedInputsStay, PolledFlagsStay,
     SendersAreDone, CopiedInOrder, PartialIsSlow, FlagMeansComplete
<1>4. WritersHaveOpened'
  BY <1>1, <1>2, <1>3 DEF WritersHaveOpened, Opened
<1>5. WrittenInOrder'
  <2>1. \A g \in WrittenBefore[f] : AtWriter(g)
    BY <1>1, <1>2, OutputsOfTasks DEF AtWriter, WrittenBefore
  <2> QED
    BY <1>1, <1>2, <1>3, <2>1 DEF WrittenInOrder
<1> QED
  BY <1>3, <1>4, <1>5

LEMMA CausalityComplete ==
  ASSUME TypeOK, Causality, NEW t \in Tasks, NEW f \in Outputs[t], CompleteWrite(t, f)
  PROVE  Causality'
<1> USE DEF Causality
<1>1. f \in Files /\ Producer(f) = t /\ Owner[t] \in Servers
  BY OutputsOfTasks, OwnerIsAServer
<1>2. /\ phase[t] = "run"
      /\ disk' = [disk EXCEPT ![Owner[t]] = @ \cup {f}]
      /\ partial' = partial \ {f}
      /\ phase' = [phase EXCEPT ![t] = IF Outputs[t] \subseteq disk'[Owner[t]]
                                       THEN "send" ELSE "run"]
  BY DEF CompleteWrite, MayWrite
<1>3. /\ \A v \in Servers : disk[v] \subseteq disk'[v]
      /\ \A v \in Servers : disk'[v] \subseteq disk[v] \cup {f}
      /\ \A v \in Servers \ {Owner[t]} : disk'[v] = disk[v]
      /\ f \in disk'[Owner[t]]
  BY <1>1, <1>2 DEF TypeOK
<1>4. /\ AtWriter(f)'
      /\ \A g \in Files : AtWriter(g) => AtWriter(g)'
      /\ \A g \in Files : AtWriter(g)' => AtWriter(g) \/ g = f
  BY <1>1, <1>3, OutputsOfTasks, OwnerIsAServer DEF AtWriter
<1>5. /\ \A u \in Tasks \ {t} : phase'[u] = phase[u]
      /\ \A u \in Tasks : Opened(u)' <=> Opened(u)
      /\ Opened(t)
  BY <1>2 DEF TypeOK, Opened
<1>6. \A g \in WrittenBefore[f] : g \in Files /\ AtWriter(g)
  <2>1. CASE f \in partial
    BY <2>1, <1>1, OutputsOfTasks DEF WrittenInOrder, WrittenBefore
  <2>2. CASE f \notin partial
    BY <2>2, <1>1, OutputsOfTasks
       DEF CompleteWrite, MayWrite, WrittenBefore, AtWriter
  <2> QED
    BY <2>1, <2>2
<1>7. CopiesHaveOriginals'
  <2> SUFFICES ASSUME NEW v \in Servers, NEW g \in disk'[v] PROVE AtWriter(g)'
    BY DEF CopiesHaveOriginals
  <2>1. CASE g = f
    BY <2>1, <1>4
  <2>2. CASE g # f
    BY <2>2, <1>3, <1>4 DEF CopiesHaveOriginals, TypeOK
  <2> QED
    BY <2>1, <2>2
<1>8. WritersHaveOpened'
  BY <1>1, <1>2, <1>4, <1>5, OutputsOfTasks DEF WritersHaveOpened
<1>9. OpenedInputsStay'
  BY <1>3, <1>5, OwnerIsAServer DEF OpenedInputsStay
<1>10. WrittenInOrder'
  <2> SUFFICES ASSUME NEW g \in Files, (AtWriter(g) \/ g \in partial)',
                      NEW h \in WrittenBefore[g]
               PROVE  AtWriter(h)'
    BY DEF WrittenInOrder
  <2>1. h \in Files
    BY OutputsOfTasks DEF WrittenBefore
  <2>2. CASE g = f
    BY <2>2, <1>4, <1>6
  <2>3. CASE g # f
    BY <2>1, <2>3, <1>2, <1>4 DEF WrittenInOrder
  <2> QED
    BY <2>2, <2>3
<1>11. SendersAreDone'
  <2> SUFFICES ASSUME NEW u \in Tasks
               PROVE  phase'[u] = "send" <=> \A g \in Outputs[u] : AtWriter(g)'
    BY DEF SendersAreDone
  <2>1. \A g \in Outputs[u] : g \in Files /\ Producer(g) = u
    BY OutputsOfTasks
  <2>2. CASE u = t
    <3>1. phase'[t] = "send" <=> Outputs[t] \subseteq disk'[Owner[t]]
      BY <1>2 DEF TypeOK
    <3> QED
      BY <3>1, <2>1, <2>2 DEF AtWriter
  <2>3. CASE u # t
    <3>1. \A g \in Outputs[u] : g # f
      BY <2>1, <2>3, <1>1
    <3> QED
      BY <3>1, <2>1, <2>3, <1>4, <1>5 DEF SendersAreDone
  <2> QED
    BY <2>2, <2>3
<1>12. PartialIsSlow'
  BY <1>2 DEF PartialIsSlow
<1>13. FlagMeansComplete'
  <2> SUFFICES ASSUME NEW v \in Servers, NEW g \in disk'[v], g[1] \in FlagKinds
               PROVE  <<Signals[g[1]], g[2], g[3]>> \in disk'[v]
    BY DEF FlagMeansComplete
  <2>1. CASE g \in disk[v]
    BY <2>1, <1>3 DEF FlagMeansComplete
  <2>2. CASE g \notin disk[v]
    <3>1. g = f /\ v = Owner[t]
      BY <2>2, <1>3
    <3>2. <<Signals[f[1]], f[2], f[3]>> \in WrittenBefore[f]
      BY <3>1, <1>1, FlagAfterFile
    <3>3. /\ AtWriter(<<Signals[f[1]], f[2], f[3]>>)
          /\ Producer(<<Signals[f[1]], f[2], f[3]>>) = t
      BY <3>2, <1>1, <1>6, OutputsOfTasks DEF WrittenBefore
    <3> QED
      BY <3>1, <3>3, <1>3 DEF AtWriter
  <2> QED
    BY <2>1, <2>2
<1>14. PolledFlagsStay'
  BY <1>3, <1>5, OwnerIsAServer DEF PolledFlagsStay
<1>15. CopiedInOrder'
  <2>1. \A u \in Tasks : phase[u] = "send" => phase'[u] = "send"
    BY <1>2, <1>5
  <2>2. \A v \in Servers : disk[v] \subseteq Files
    BY DEF TypeOK
  <2>3. ASSUME NEW v \in Servers, NEW g \in disk'[v], v # Owner[Producer(g)]
        PROVE  g \in disk[v]
    BY <2>3, <1>1, <1>3
  <2> QED
    BY <1>3, <2>1, <2>2, <2>3, OutputsOfTasks DEF CopiedInOrder
<1> QED
  BY <1>7, <1>8, <1>9, <1>10, <1>11, <1>12, <1>13, <1>14, <1>15

LEMMA CausalityCopy ==
  ASSUME TypeOK, Causality, NEW t \in Tasks, NEW v \in pending[t], NEW f \in Outputs[t],
         Copy(t, v, f)
  PROVE  Causality'
<1> USE DEF Causality
<1>1. f \in Files /\ Producer(f) = t /\ v \in Servers
  BY OutputsOfTasks DEF TypeOK
<1>2. /\ phase[t] = "send"
      /\ SentBefore[f] \subseteq disk[v]
      /\ disk' = [disk EXCEPT ![v] = @ \cup {f}]
      /\ phase' = phase /\ partial' = partial
  BY DEF Copy, Sending
<1>3. /\ \A w \in Servers : disk[w] \subseteq disk'[w]
      /\ \A w \in Servers : disk'[w] \subseteq disk[w] \cup {f}
      /\ \A w \in Servers \ {v} : disk'[w] = disk[w]
  BY <1>1, <1>2 DEF TypeOK
<1>4. AtWriter(f)
  BY <1>2 DEF SendersAreDone
<1>5. \A g \in Files : AtWriter(g)' <=> AtWriter(g)
  <2> SUFFICES ASSUME NEW g \in Files PROVE AtWriter(g)' <=> AtWriter(g)
    OBVIOUS
  <2>1. Owner[Producer(g)] \in Servers
    BY OutputsOfTasks, OwnerIsAServer
  <2>2. CASE g = f
    BY <2>1, <2>2, <1>3, <1>4 DEF AtWriter
  <2>3. CASE g # f
    BY <2>1, <2>3, <1>3 DEF AtWriter
  <2> QED
    BY <2>2, <2>3
<1>6. CopiesHaveOriginals'
  <2> SUFFICES ASSUME NEW w \in Servers, NEW g \in disk'[w] PROVE AtWriter(g)'
    BY DEF CopiesHaveOriginals
  <2>1. g \in Files /\ (g \in disk[w] \/ g = f)
    BY <1>1, <1>3 DEF TypeOK
  <2> QED
    BY <2>1, <1>4, <1>5 DEF CopiesHaveOriginals
<1>7. WritersHaveOpened'
  BY <1>2, <1>5 DEF WritersHaveOpened, Opened
<1>8. OpenedInputsStay'
  BY <1>2, <1>3, OwnerIsAServer DEF OpenedInputsStay, Opened
<1>9. WrittenInOrder'
  BY <1>2, <1>5, OutputsOfTasks DEF WrittenInOrder, WrittenBefore
<1>10. SendersAreDone'
  BY <1>2, <1>5, OutputsOfTasks DEF SendersAreDone
<1>11. PartialIsSlow'
  BY <1>2 DEF PartialIsSlow
<1>12. FlagMeansComplete'
  <2> SUFFICES ASSUME NEW w \in Servers, NEW g \in disk'[w], g[1] \in FlagKinds
               PROVE  <<Signals[g[1]], g[2], g[3]>> \in disk'[w]
    BY DEF FlagMeansComplete
  <2>1. CASE g \in disk[w]
    BY <2>1, <1>3 DEF FlagMeansComplete
  <2>2. CASE g \notin disk[w]
    <3>1. g = f /\ w = v
      BY <2>2, <1>3
    <3>2. <<Signals[f[1]], f[2], f[3]>> \in SentBefore[f]
      BY <3>1, <1>1, FlagAfterFile
    <3> QED
      BY <3>1, <3>2, <1>1, <1>2, <1>3
  <2> QED
    BY <2>1, <2>2
<1>13. PolledFlagsStay'
  BY <1>2, <1>3, OwnerIsAServer DEF PolledFlagsStay, Opened
<1>14. CopiedInOrder'
  BY <1>1, <1>2, <1>3 DEF CopiedInOrder
<1> QED
  BY <1>6, <1>7, <1>8, <1>9, <1>10, <1>11, <1>12, <1>13, <1>14

LEMMA CausalityCrash ==
  ASSUME TypeOK, Causality, NEW t \in Tasks, Crash(t)
  PROVE  Causality'
<1> USE DEF Causality
<1>1. /\ disk' = disk /\ partial' = partial
      /\ phase[t] = "run" /\ phase' = [phase EXCEPT ![t] = "crashed"]
  BY DEF Crash
<1>2. /\ \A f : AtWriter(f)' <=> AtWriter(f)
      /\ \A u \in Tasks : Opened(u)' <=> Opened(u)
      /\ \A u \in Tasks : phase'[u] = "send" <=> phase[u] = "send"
  BY <1>1 DEF AtWriter, Opened, TypeOK
<1>3. CopiedInOrder'
  BY <1>1, <1>2, OutputsOfTasks DEF CopiedInOrder, TypeOK
<1> QED
  BY <1>1, <1>2, <1>3, OutputsOfTasks
     DEF CopiesHaveOriginals, WritersHaveOpened, OpenedInputsStay, PolledFlagsStay,
         WrittenInOrder, SendersAreDone, PartialIsSlow, FlagMeansComplete

\* The other steps leave the tasks and the disks alone.
LEMMA CausalityUnchanged ==
  ASSUME Causality, UNCHANGED <<phase, disk, partial>>
  PROVE  Causality'
  BY DEF Causality, AtWriter, Opened, CopiesHaveOriginals, WritersHaveOpened,
     OpenedInputsStay, PolledFlagsStay, WrittenInOrder, SendersAreDone, PartialIsSlow,
     CopiedInOrder, FlagMeansComplete

LEMMA CausalityStep == TypeOK /\ Causality /\ [Next]_vars => Causality'
<1> SUFFICES ASSUME TypeOK, Causality, [Next]_vars PROVE Causality'
  OBVIOUS
<1>1. ASSUME NEW t \in Tasks, TaskStep(t) PROVE Causality'
  BY <1>1, CausalityStart, CausalityBegin, CausalityComplete, CausalityCopy DEF TaskStep
<1>2. ASSUME NEW t \in Tasks, Crash(t) PROVE Causality'
  BY <1>2, CausalityCrash
<1>3. ASSUME NEW t \in Tasks, NEW v \in pending[t], RsyncFails(t, v) PROVE Causality'
  BY <1>3, CausalityUnchanged DEF RsyncFails
<1>4. ASSUME NEW v \in Servers, TouchDoneFlag(v) PROVE Causality'
  BY <1>4, CausalityUnchanged DEF TouchDoneFlag, taskVars
<1>5. CASE MainStep
  BY <1>5, CausalityUnchanged DEF MainStep, PollLoop, StitchSlr, StitchDone, TopStitch,
     CleanServer, Exit, taskVars
<1>6. CASE UNCHANGED vars
  BY <1>6, CausalityUnchanged DEF vars, taskVars
<1> QED
  BY <1>1, <1>2, <1>3, <1>4, <1>5, <1>6 DEF Next

(***************************************************************************)
(* Every file on a disk goes back to a complete file of its own tool,      *)
(* written in order and from complete inputs; in particular a flag on any  *)
(* disk comes with its file, whatever tools and transfers fail.            *)
(***************************************************************************)
THEOREM CausalityHolds == Spec => []Causality
<1>1. Init => TypeOK /\ Causality
  BY TypeInit, CausalityInit
<1>2. (TypeOK /\ Causality) /\ [Next]_vars => (TypeOK /\ Causality)'
  BY TypeStep, CausalityStep
<1> QED
  BY <1>1, <1>2, PTL DEF Spec

(***************************************************************************)
(* A done flag on any disk, on which every guard of the flow relies, comes *)
(* with the complete file it signals.                                      *)
(***************************************************************************)
THEOREM FlagsAreTruthful == Spec => []FlagMeansComplete
<1>1. Causality => FlagMeansComplete
  BY DEF Causality
<1> QED
  BY <1>1, CausalityHolds, PTL

-----------------------------------------------------------------------------
\* A flag that a line sees on its server means that the file is there.
LEMMA FlagSeen ==
  ASSUME TypeOK, Causality, NEW v \in Servers, NEW f, f[1] \in FlagKinds, Exists(v, f)
  PROVE  <<Signals[f[1]], f[2], f[3]>> \in disk[v]
<1>1. f \notin partial
  BY SlowWritesAssumption DEF Causality, PartialIsSlow
<1>2. f \in disk[v]
  BY <1>1 DEF Exists
<1> QED
  BY <1>2 DEF Causality, FlagMeansComplete

\* All lines of a slot are on one server.
LEMMA SlotLinesTogether ==
  ASSUME NEW t \in Tasks, NEW u \in Tasks, t[3] = u[3],
         t[1] # "ILP_anchor_placement", u[1] # "ILP_anchor_placement"
  PROVE  Owner[t] = Owner[u]
  BY DEF Owner, NumTasks

\* Anchor placement of a pair of the slot, in any iteration, comes after the
\* initial placement of the slot.
LEMMA PlacedBeforeAnchors ==
  ASSUME TypeOK, Causality, NEW s \in Slots, NEW i \in Iters, NEW p \in Related(s),
         NEW v \in Servers, <<"place_flag", i, p>> \in disk[v],
         <<"opt_placement", i, s>> \in Tasks
  PROVE  <<"placed_dcp", 0, s>> \in disk[Owner[<<"opt_placement", i, s>>]]
<1> USE DEF Causality
<1> DEFINE f == <<"place_flag", i, p>>
           t == <<"ILP_anchor_placement", i, p>>
           o == <<"opt_placement", i, s>>
           d == <<"placed_dcp", 0, s>>
<1>1. f \in Files /\ Producer(f) = t /\ t \in Tasks
  <2>1. f \in Files
    BY DEF TypeOK
  <2>2. Producer(f) = t
    BY DEF Producer, StepOf
  <2> QED
    BY <2>1, <2>2, OutputsOfTasks
<1>2. Inputs[t] \subseteq disk[Owner[t]] /\ Owner[t] \in Servers
  <2>1. AtWriter(f)
    BY DEF CopiesHaveOriginals
  <2>2. Opened(t)
    BY <2>1, <1>1 DEF WritersHaveOpened
  <2> QED
    BY <2>2, <1>1, OwnerIsAServer DEF OpenedInputsStay
<1>3. s \in Ends[p]
  BY DEF Related
<1>4. CASE i = 0
  <2> DEFINE c == <<"init_conn", 0, s>>
             m == <<"init_slot_placement", 0, s>>
  <2>1. c \in Inputs[t]
    BY <1>1, <1>3, <1>4 DEF Inputs, AnchorOpens
  <2>2. c \in Files /\ AtWriter(c)
    BY <2>1, <1>2 DEF CopiesHaveOriginals, TypeOK
  <2>3. Producer(c) = m /\ m \in Tasks
    <3>1. Producer(c) = m
      BY DEF Producer, StepOf
    <3> QED
      BY <3>1, <2>2, OutputsOfTasks
  <2>4. d \in Files /\ Producer(d) = m
    <3>1. Producer(d) = m
      BY DEF Producer, StepOf
    <3>2. d \in Kinds \X Iters \X (Slots \cup Pairs)
      BY <2>2 DEF Files, Kinds, StepOf
    <3> QED
      BY <3>1, <3>2, <2>3 DEF Files, Producer
  <2>5. d \in WrittenBefore[c]
    <3>1. WriteOrder["placed_dcp"] < WriteOrder["init_conn"]
      BY DEF WriteOrder
    <3>2. d \in Outputs[Producer(c)]
      BY <2>3, <2>4, OutputsOfTasks
    <3> QED
      BY <3>1, <3>2, <2>2 DEF WrittenBefore
  <2>6. d \in disk[Owner[m]]
    BY <2>2, <2>4, <2>5 DEF WrittenInOrder, AtWriter
  <2>7. Owner[m] = Owner[o]
    BY <2>3, SlotLinesTogether
  <2> QED
    BY <2>6, <2>7
<1>5. CASE i # 0
  <2> DEFINE c == <<"opt_conn", i - 1, s>>
             q == <<"opt_placement", i - 1, s>>
  <2>1. c \in Inputs[t]
    BY <1>1, <1>3, <1>5 DEF Inputs, AnchorOpens
  <2>2. c \in Files /\ AtWriter(c)
    BY <2>1, <1>2 DEF CopiesHaveOriginals, TypeOK
  <2>3. Producer(c) = q /\ q \in Tasks
    <3>1. Producer(c) = q
      BY DEF Producer, StepOf
    <3> QED
      BY <3>1, <2>2, OutputsOfTasks
  <2>4. Inputs[q] \subseteq disk[Owner[q]]
    <3>1. Opened(q)
      BY <2>2, <2>3 DEF WritersHaveOpened
    <3> QED
      BY <3>1, <2>3 DEF OpenedInputsStay
  <2>5. d \in Inputs[q]
    BY <2>3 DEF Inputs, OptOpens
  <2>6. Owner[q] = Owner[o]
    BY <2>3, SlotLinesTogether
  <2> QED
    BY <2>4, <2>5, <2>6
<1> QED
  BY <1>4, <1>5

\* Open guards mean complete inputs, for every step but slot_routing.
LEMMA GuardsGiveInputs ==
  ASSUME TypeOK, Causality, NEW t \in Tasks, t[1] # "slot_routing", GuardsOpen(t)
  PROVE  Inputs[t] \subseteq disk[Owner[t]]
<1> DEFINE i == t[2]
           u == t[3]
           v == Owner[t]
<1>1. v \in Servers /\ \A f \in Guards[t] : Exists(v, f)
  BY OwnerIsAServer DEF GuardsOpen
<1>2. ASSUME NEW flag \in FlagKinds, NEW j, NEW x, <<flag, j, x>> \in Guards[t]
      PROVE  <<Signals[flag], j, x>> \in disk[v]
  <2> DEFINE f == <<flag, j, x>>
  <2>1. Exists(v, f) /\ f[1] = flag /\ f[2] = j /\ f[3] = x
    BY <1>1, <1>2
  <2> QED
    BY <2>1, <1>1, FlagSeen
<1>3. t[1] \in {"slot_synth", "init_slot_placement", "ILP_anchor_placement",
                "opt_placement", "slot_anchor_clock_routing"}
  BY DEF Tasks, Steps, Kinds, StepOf
<1>4. CASE t[1] = "slot_synth"
  BY <1>4 DEF Inputs
<1>5. CASE t[1] = "init_slot_placement"
  <2>1. Inputs[t] = {<<"synth_dcp", 0, u>>} /\ <<"synth_flag", 0, u>> \in Guards[t]
    BY <1>5 DEF Inputs, Guards, PlacementPolls, PlacementOpens
  <2>2. "synth_flag" \in FlagKinds /\ Signals["synth_flag"] = "synth_dcp"
    BY DEF FlagKinds, Signals
  <2>3. <<Signals["synth_flag"], 0, u>> \in disk[v]
    BY <2>1, <2>2, <1>2
  <2> QED
    BY <2>1, <2>2, <2>3
<1>6. CASE t[1] = "ILP_anchor_placement"
  <2>1. /\ "init_conn_flag" \in FlagKinds /\ Signals["init_conn_flag"] = "init_conn"
        /\ "opt_conn_flag" \in FlagKinds /\ Signals["opt_conn_flag"] = "opt_conn"
    BY DEF FlagKinds, Signals
  <2>2. CASE i = 0
    <3>1. /\ Inputs[t] = {<<"init_conn", 0, s>> : s \in Ends[u]}
          /\ Guards[t] = {<<"init_conn_flag", 0, s>> : s \in Ends[u]}
      BY <1>6, <2>2 DEF Inputs, Guards, AnchorPolls, AnchorOpens
    <3>2. \A s \in Ends[u] : <<Signals["init_conn_flag"], 0, s>> \in disk[v]
      BY <3>1, <2>1, <1>2
    <3> QED
      BY <3>1, <3>2, <2>1
  <2>3. CASE i # 0
    <3>1. /\ Inputs[t] = {<<"opt_conn", i - 1, s>> : s \in Ends[u]}
          /\ Guards[t] = {<<"opt_conn_flag", i - 1, s>> : s \in Ends[u]}
      BY <1>6, <2>3 DEF Inputs, Guards, AnchorPolls, AnchorOpens
    <3>2. \A s \in Ends[u] : <<Signals["opt_conn_flag"], i - 1, s>> \in disk[v]
      BY <3>1, <2>1, <1>2
    <3> QED
      BY <3>1, <3>2, <2>1
  <2> QED
    BY <2>2, <2>3
<1>7. CASE t[1] = "opt_placement"
  <2>1. /\ Inputs[t] = {<<"placed_dcp", 0, u>>} \cup {<<"place_tcl", i, p>> : p \in Related(u)}
        /\ Guards[t] = {<<"place_flag", i, p>> : p \in Related(u)}
    BY <1>7 DEF Inputs, Guards, OptPolls, OptOpens
  <2>2. "place_flag" \in FlagKinds /\ Signals["place_flag"] = "place_tcl"
    BY DEF FlagKinds, Signals
  <2>3. \A p \in Related(u) : <<Signals["place_flag"], i, p>> \in disk[v]
    BY <2>1, <2>2, <1>2
  <2>4. /\ u \in Slots /\ i \in Iters
        /\ t = <<"opt_placement", i, u>>
    BY <1>7 DEF Tasks, UnitsOf
  <2>5. PICK p \in Related(u) : TRUE
    BY <2>4, GridAssumption DEF Related
  <2>6. <<"place_flag", i, p>> \in disk[v]
    <3>1. <<"place_flag", i, p>> \in Guards[t]
      BY <2>1
    <3>2. Exists(v, <<"place_flag", i, p>>)
      BY <3>1, <1>1
    <3>3. <<"place_flag", i, p>> \notin partial
      BY <2>2, SlowWritesAssumption DEF Causality, PartialIsSlow
    <3> QED
      BY <3>2, <3>3 DEF Exists
  <2>7. <<"placed_dcp", 0, u>> \in disk[v]
    BY <2>4, <2>6, <1>1, PlacedBeforeAnchors
  <2> QED
    BY <2>1, <2>2, <2>3, <2>7
<1>8. CASE t[1] = "slot_anchor_clock_routing"
  <2>1. /\ Inputs[t] = {<<"create_tcl", 0, p>> : p \in Related(u)}
        /\ Guards[t] = {<<"create_flag", 0, p>> : p \in Related(u)}
    BY <1>8 DEF Inputs, Guards, ClockPolls, ClockOpens
  <2>2. "create_flag" \in FlagKinds /\ Signals["create_flag"] = "create_tcl"
    BY DEF FlagKinds, Signals
  <2>3. \A p \in Related(u) : <<Signals["create_flag"], 0, p>> \in disk[v]
    BY <2>1, <2>2, <1>2
  <2> QED
    BY <2>1, <2>2, <2>3
<1> QED
  BY <1>3, <1>4, <1>5, <1>6, <1>7, <1>8

LEMMA GuardsStep ==
  TypeOK /\ Causality /\ GuardsSufficeBeforeRouting /\ [Next]_vars
    => GuardsSufficeBeforeRouting'
<1> SUFFICES ASSUME TypeOK, Causality, GuardsSufficeBeforeRouting, [Next]_vars
             PROVE  GuardsSufficeBeforeRouting'
  OBVIOUS
<1> USE DEF GuardsSufficeBeforeRouting, TypeOK
<1>1. ASSUME NEW t \in Tasks, StartTool(t) PROVE GuardsSufficeBeforeRouting'
  <2>1. t[1] # "slot_routing" => phase'[t] = "run"
    BY <1>1, GuardsGiveInputs DEF StartTool
  <2> QED
    BY <1>1, <2>1 DEF StartTool
<1>2. ASSUME NEW t \in Tasks, NEW f \in Outputs[t], BeginWrite(t, f)
      PROVE  GuardsSufficeBeforeRouting'
  BY <1>2 DEF BeginWrite
<1>3. ASSUME NEW t \in Tasks, NEW f \in Outputs[t], CompleteWrite(t, f)
      PROVE  GuardsSufficeBeforeRouting'
  BY <1>3 DEF CompleteWrite
<1>4. ASSUME NEW t \in Tasks, NEW v \in pending[t], NEW f \in Outputs[t], Copy(t, v, f)
      PROVE  GuardsSufficeBeforeRouting'
  BY <1>4 DEF Copy
<1>5. ASSUME NEW t \in Tasks, Crash(t) PROVE GuardsSufficeBeforeRouting'
  BY <1>5 DEF Crash
<1>6. ASSUME NEW t \in Tasks, NEW v \in pending[t], RsyncFails(t, v)
      PROVE  GuardsSufficeBeforeRouting'
  BY <1>6 DEF RsyncFails
<1>7. ASSUME NEW v \in Servers, TouchDoneFlag(v) PROVE GuardsSufficeBeforeRouting'
  BY <1>7 DEF TouchDoneFlag, taskVars
<1>8. CASE MainStep
  BY <1>8 DEF MainStep, PollLoop, StitchSlr, StitchDone, TopStitch, CleanServer, Exit,
     taskVars
<1>9. CASE UNCHANGED vars
  BY <1>9 DEF vars, taskVars
<1> QED
  BY <1>1, <1>2, <1>3, <1>4, <1>5, <1>6, <1>7, <1>8, <1>9 DEF Next, TaskStep

(***************************************************************************)
(* No tool before slot routing ever opens a missing or incomplete file,    *)
(* for any placement of slots, any number of servers and any failures.     *)
(***************************************************************************)
THEOREM GuardsSuffice == Spec => []GuardsSufficeBeforeRouting
<1>1. Init => GuardsSufficeBeforeRouting
  BY DEF Init, GuardsSufficeBeforeRouting
<1> QED
  BY <1>1, GuardsStep, TypeCorrect, CausalityHolds, PTL DEF Spec

-----------------------------------------------------------------------------
\* A file that a server's disk holds stays there, and what the main server has
\* counted in a polling loop can be counted again.
LEMMA FilesStay ==
  ASSUME TypeOK, [Next]_vars
  PROVE  /\ \A v \in Servers : disk[v] \subseteq disk'[v]
         /\ \A f \in Files : AtWriter(f) => AtWriter(f)'
         /\ \A f \in Files : OnMain(f) => OnMain(f)'
<1>1. CASE UNCHANGED <<disk, partial>>
  BY <1>1 DEF AtWriter, OnMain
<1>2. ASSUME NEW t \in Tasks, NEW f \in Outputs[t], BeginWrite(t, f)
      PROVE  disk' = disk /\ partial \subseteq partial'
  BY <1>2 DEF BeginWrite
<1>3. ASSUME NEW t \in Tasks, NEW f \in Outputs[t], CompleteWrite(t, f)
      PROVE  /\ \A v \in Servers : disk[v] \subseteq disk'[v]
             /\ \A g \in Files : OnMain(g) => OnMain(g)'
  <2>1. f \in Files /\ Producer(f) = t /\ Owner[t] \in Servers
    BY OutputsOfTasks, OwnerIsAServer
  <2>2. /\ disk' = [disk EXCEPT ![Owner[t]] = @ \cup {f}]
        /\ partial' = partial \ {f}
    BY <1>3 DEF CompleteWrite
  <2>3. \A v \in Servers : disk[v] \subseteq disk'[v]
    BY <2>1, <2>2 DEF TypeOK
  <2>4. f \in disk'[Owner[t]]
    BY <2>1, <2>2 DEF TypeOK
  <2> QED
    BY <2>1, <2>2, <2>3, <2>4, GridAssumption DEF OnMain
<1>4. ASSUME NEW t \in Tasks, NEW v \in pending[t], NEW f \in Outputs[t], Copy(t, v, f)
      PROVE  partial' = partial /\ \A w \in Servers : disk[w] \subseteq disk'[w]
  BY <1>4 DEF Copy, TypeOK
<1>5. \/ UNCHANGED <<disk, partial>>
      \/ \E t \in Tasks : \E f \in Outputs[t] : BeginWrite(t, f)
      \/ \E t \in Tasks : \E f \in Outputs[t] : CompleteWrite(t, f)
      \/ \E t \in Tasks : \E v \in pending[t] : \E f \in Outputs[t] : Copy(t, v, f)
  BY DEF Next, TaskStep, StartTool, Crash, RsyncFails, TouchDoneFlag, MainStep, PollLoop,
     StitchSlr, StitchDone, TopStitch, CleanServer, Exit, taskVars, vars
<1>6. \A v \in Servers : disk[v] \subseteq disk'[v]
  BY <1>1, <1>2, <1>3, <1>4, <1>5
<1>7. \A f \in Files : AtWriter(f) => AtWriter(f)'
  BY <1>6, OutputsOfTasks, OwnerIsAServer DEF AtWriter
<1>8. \A f \in Files : OnMain(f) => OnMain(f)'
  BY <1>1, <1>2, <1>3, <1>4, <1>5, <1>6, GridAssumption DEF OnMain
<1> QED
  BY <1>6, <1>7, <1>8

\* A tool that has started stays so, and a line that has done its work does not fail.
LEMMA ProgressStays ==
  ASSUME TypeOK, [Next]_vars
  PROVE  \A t \in Tasks : /\ Opened(t) => Opened(t)'
                          /\ phase[t] = "send" => phase'[t] = "send"
<1>1. CASE UNCHANGED phase
  BY <1>1 DEF Opened
<1>2. ASSUME NEW t \in Tasks, phase[t] \in {"wait", "run"},
             \A u \in Tasks \ {t} : phase'[u] = phase[u],
             phase[t] = "run" => phase'[t] \in {"run", "send", "crashed"}
      PROVE  \A u \in Tasks : /\ Opened(u) => Opened(u)'
                              /\ phase[u] = "send" => phase'[u] = "send"
  BY <1>2 DEF Opened
<1>3. ASSUME NEW t \in Tasks,
             StartTool(t) \/ Crash(t) \/ \E f \in Outputs[t] : CompleteWrite(t, f)
      PROVE  /\ phase[t] \in {"wait", "run"}
             /\ \A u \in Tasks \ {t} : phase'[u] = phase[u]
             /\ phase[t] = "run" => phase'[t] \in {"run", "send", "crashed"}
  BY <1>3 DEF StartTool, Crash, CompleteWrite, MayWrite, TypeOK
<1>4. \/ UNCHANGED phase
      \/ \E t \in Tasks : StartTool(t) \/ Crash(t) \/ \E f \in Outputs[t] : CompleteWrite(t, f)
  BY DEF Next, TaskStep, BeginWrite, Copy, RsyncFails, TouchDoneFlag, MainStep, PollLoop,
     StitchSlr, StitchDone, TopStitch, CleanServer, Exit, taskVars, vars
<1> QED
  BY <1>1, <1>2, <1>3, <1>4

LEMMA MainKnowsInit == Init => MainKnows
<1> SUFFICES ASSUME Init PROVE MainKnows
  OBVIOUS
<1>1. LoopsPassed
  BY DEF Init, LoopsPassed, StitchStage
<1>2. RemovedAtTheEnd /\ MergedWereMade
  BY DEF Init, RemovedAtTheEnd, MergedWereMade
<1> QED
  BY <1>1, <1>2 DEF MainKnows

\* Steps that leave the main server's variables alone.
LEMMA MainKnowsUnchanged ==
  ASSUME TypeOK, MainKnows, [Next]_vars, UNCHANGED mainVars
  PROVE  MainKnows'
<1>1. LoopsPassed'
  <2> SUFFICES ASSUME NEW n \in 1..(StitchStage - 1), stage > n,
                      NEW u \in UnitsOf(StepOf[Polled[n]])
               PROVE  Counted(<<Polled[n], 0, u>>)'
    BY DEF LoopsPassed, mainVars
  <2>1. Counted(<<Polled[n], 0, u>>)
    BY DEF MainKnows, LoopsPassed
  <2>2. <<Polled[n], 0, u>> \in Files
    BY <2>1, GridAssumption DEF Counted, OnMain, TypeOK
  <2> QED
    BY <2>1, <2>2, FilesStay, ProgressStays, OutputsOfTasks DEF Counted
<1>2. RemovedAtTheEnd'
  BY DEF MainKnows, RemovedAtTheEnd, mainVars
<1>3. MergedWereMade'
  BY FilesStay DEF MainKnows, MergedWereMade, mainVars
<1> QED
  BY <1>1, <1>2, <1>3 DEF MainKnows

\* A file that the main server finds goes back to a tool that has opened complete
\* inputs and, if it is one of another server, to a line that has done its work.
LEMMA SeenFilesCount ==
  ASSUME TypeOK, Causality, NEW f, Exists(MainServer, f)
  PROVE  Counted(f)
<1>1. OnMain(f)
  BY DEF Exists, OnMain
<1>2. f \in Files
  BY <1>1, GridAssumption DEF OnMain, TypeOK
<1>3. Opened(Producer(f))
  BY <1>1, <1>2, GridAssumption
     DEF OnMain, Causality, CopiesHaveOriginals, WritersHaveOpened
<1>4. phase[Producer(f)] = "send" \/ Owner[Producer(f)] = MainServer
  BY <1>1, GridAssumption DEF OnMain, Causality, CopiedInOrder
<1> QED
  BY <1>1, <1>3, <1>4 DEF Counted

\* The steps of the main server, which leave all disks alone.
LEMMA MainKnowsMain ==
  ASSUME TypeOK, Causality, MainKnows, MainStep
  PROVE  MainKnows'
<1> USE DEF MainKnows
<1>1. disk' = disk /\ partial' = partial /\ phase' = phase
  BY DEF MainStep, PollLoop, StitchSlr, StitchDone, TopStitch, CleanServer, Exit, taskVars
<1>2. \A f : (Counted(f) <=> Counted(f)') /\ (AtWriter(f) <=> AtWriter(f)')
  BY <1>1 DEF Counted, Opened, OnMain, AtWriter
<1>3. stage \in 1..10 /\ StitchStage = 7 /\ TopStage = 8 /\ CleanStage = 9 /\ ExitStage = 10
  BY DEF TypeOK, StitchStage, TopStage, CleanStage, ExitStage
<1>4. CASE PollLoop
  <2>1. /\ stage < StitchStage /\ stage' = stage + 1 /\ UNCHANGED <<slr, merged, removed>>
        /\ \A u \in UnitsOf(StepOf[Polled[stage]]) : Counted(<<Polled[stage], 0, u>>)
    BY <1>4, SeenFilesCount DEF PollLoop
  <2>2. LoopsPassed'
    BY <2>1, <1>2, <1>3 DEF LoopsPassed
  <2>3. RemovedAtTheEnd'
    BY <2>1, <1>3 DEF RemovedAtTheEnd
  <2>4. MergedWereMade'
    BY <2>1, <1>2, <1>3 DEF MergedWereMade
  <2> QED
    BY <2>2, <2>3, <2>4
<1>5. ASSUME NEW r \in Slrs, StitchSlr(r) PROVE MainKnows'
  <2>1. /\ stage = StitchStage /\ stage' = stage /\ removed' = removed
        /\ slr[r] = "todo"
        /\ slr' = [slr EXCEPT ![r] = slr'[r]] /\ slr'[r] # "todo"
        /\ merged' = [merged EXCEPT ![r] = merged'[r]]
        /\ \A s \in merged'[r] : Unrouted(s) \in disk[MainServer]
    BY <1>5 DEF StitchSlr, TypeOK
  <2>2. LoopsPassed' /\ RemovedAtTheEnd'
    BY <2>1, <1>2 DEF LoopsPassed, RemovedAtTheEnd
  <2>3. \A s \in merged'[r] : Unrouted(s) \in Files /\ AtWriter(Unrouted(s))
    BY <2>1, GridAssumption DEF TypeOK, Causality, CopiesHaveOriginals
  <2>4. \A q \in Slrs \ {r} : slr'[q] = slr[q] /\ merged'[q] = merged[q]
    BY <2>1 DEF TypeOK
  <2>5. MergedWereMade'
    BY <2>1, <2>3, <2>4, <1>2, <1>3 DEF MergedWereMade
  <2> QED
    BY <2>2, <2>5
<1>6. CASE StitchDone \/ TopStitch \/ Exit
  <2>1. /\ stage >= StitchStage /\ stage' >= stage
        /\ UNCHANGED <<slr, merged, removed>>
    BY <1>6, <1>3 DEF StitchDone, TopStitch, Exit
  <2>2. LoopsPassed'
    BY <2>1, <1>2, <1>3 DEF LoopsPassed
  <2>3. RemovedAtTheEnd'
    BY <2>1, <1>3, <1>6 DEF RemovedAtTheEnd, StitchDone, TopStitch, Exit
  <2>4. MergedWereMade'
    BY <2>1, <1>2, <1>3, <1>6 DEF MergedWereMade, StitchDone, TopStitch, Exit
  <2> QED
    BY <2>2, <2>3, <2>4
<1>7. ASSUME NEW v \in Servers, CleanServer(v) PROVE MainKnows'
  <2>1. /\ stage = CleanStage /\ stage' = stage /\ UNCHANGED <<slr, merged>>
        /\ removed' = removed \cup {v} /\ v # MainServer
    BY <1>7 DEF CleanServer
  <2> QED
    BY <2>1, <1>2, <1>3 DEF LoopsPassed, RemovedAtTheEnd, MergedWereMade
<1> QED
  BY <1>4, <1>5, <1>6, <1>7 DEF MainStep

LEMMA MainKnowsStep == TypeOK /\ Causality /\ MainKnows /\ [Next]_vars => MainKnows'
<1> SUFFICES ASSUME TypeOK, Causality, MainKnows, [Next]_vars PROVE MainKnows'
  OBVIOUS
<1>1. CASE MainStep
  BY <1>1, MainKnowsMain
<1>2. CASE UNCHANGED mainVars
  BY <1>2, MainKnowsUnchanged
<1> QED
  BY <1>1, <1>2 DEF Next, TaskStep, StartTool, BeginWrite, CompleteWrite, Copy, Crash,
     RsyncFails, TouchDoneFlag, vars

(***************************************************************************)
(* A file that a loop of the main server has counted stays there and comes *)
(* from a tool that had opened complete inputs; when another server made   *)
(* it, the line has done its work there.  Servers are removed after        *)
(* stitching only, and what was merged had been completed.                 *)
(***************************************************************************)
THEOREM MainKnowsHolds == Spec => []MainKnows
  BY MainKnowsInit, MainKnowsStep, TypeCorrect, CausalityHolds, PTL DEF Spec

-----------------------------------------------------------------------------
\* When stitching starts, every slot's line of slot_routing has opened its inputs,
\* and what it writes first has come from other servers with what it writes last.
LEMMA SlotsRouted ==
  ASSUME TypeOK, Causality, MainKnows, stage >= StitchStage, NEW s \in Slots
  PROVE  /\ RouteTask(s) \in Tasks /\ Opened(RouteTask(s))
         /\ Owner[RouteTask(s)] # MainServer =>
              Unrouted(s) \in disk[MainServer] /\ phase[RouteTask(s)] = "send"
         /\ OnMain(<<"phys_dcp", 0, s>>)
<1> DEFINE f == <<"phys_dcp", 0, s>>
<1>1. Counted(f)
  <2>1. 6 \in 1..(StitchStage - 1) /\ stage > 6
    BY DEF StitchStage, TypeOK
  <2>2. Polled[6] = "phys_dcp" /\ UnitsOf(StepOf["phys_dcp"]) = Slots
    BY DEF Polled, StepOf, UnitsOf
  <2> QED
    BY <2>1, <2>2 DEF MainKnows, LoopsPassed
<1>2. f \in Files
  BY <1>1, GridAssumption DEF Counted, OnMain, TypeOK
<1>3. Producer(f) = RouteTask(s) /\ Producer(Unrouted(s)) = RouteTask(s)
  BY DEF Producer, StepOf, RouteTask, Unrouted
<1>4. RouteTask(s) \in Tasks
  BY <1>2, <1>3, OutputsOfTasks
<1>5. Opened(RouteTask(s)) /\ OnMain(f)
  BY <1>1, <1>3 DEF Counted
<1>6. Unrouted(s) \in SentBefore[f]
  <2>1. "unrouted_dcp" \in Kinds /\ NameOrder["unrouted_dcp"] < NameOrder["phys_dcp"]
    BY DEF Kinds, StepOf, NameOrder
  <2>2. Unrouted(s) \in Files
    BY <2>1, <1>2, <1>3, <1>4 DEF Files, Unrouted, Producer
  <2>3. Unrouted(s) \in Outputs[Producer(f)]
    BY <2>2, <1>3, OutputsOfTasks
  <2> QED
    BY <2>1, <2>3, <1>2 DEF SentBefore, Unrouted
<1>7. ASSUME Owner[RouteTask(s)] # MainServer
      PROVE  Unrouted(s) \in disk[MainServer] /\ phase[RouteTask(s)] = "send"
  <2>1. f \in disk[MainServer]
    BY <1>3, <1>5, <1>7 DEF OnMain
  <2> QED
    BY <2>1, <1>3, <1>6, <1>7, GridAssumption DEF Causality, CopiedInOrder
<1> QED
  BY <1>4, <1>5, <1>7

(***************************************************************************)
(* ssh rm -rf never removes a server whose results are not on the main     *)
(* server, although lines there may still be transferring.                 *)
(***************************************************************************)
THEOREM ResultsSurviveCleanup == Spec => []CleanupAfterDelivery
<1>1. TypeOK /\ Causality /\ MainKnows => CleanupAfterDelivery
  <2> SUFFICES ASSUME TypeOK, Causality, MainKnows, NEW v \in removed, NEW s \in Slots,
                      Owner[RouteTask(s)] = v
               PROVE  Unrouted(s) \in disk[MainServer]
    BY DEF CleanupAfterDelivery
  <2>1. stage >= StitchStage /\ v # MainServer
    BY DEF MainKnows, RemovedAtTheEnd, CleanStage, StitchStage, TypeOK
  <2> QED
    BY <2>1, SlotsRouted
<1> QED
  BY <1>1, TypeCorrect, CausalityHolds, MainKnowsHolds, PTL

LEMMA RemoteStep ==
  TypeOK /\ Causality /\ MainKnows /\ RemoteSlotsStitched /\ [Next]_vars
    => RemoteSlotsStitched'
<1> SUFFICES ASSUME TypeOK, Causality, MainKnows, RemoteSlotsStitched, [Next]_vars
             PROVE  RemoteSlotsStitched'
  OBVIOUS
<1>1. ASSUME NEW r \in Slrs, StitchSlr(r) PROVE RemoteSlotsStitched'
  <2>1. stage = StitchStage
    BY <1>1 DEF StitchSlr
  <2>2. MainServer \notin removed
    BY DEF MainKnows, RemovedAtTheEnd
  <2>3. ASSUME NEW s \in SlotsOf(r), Owner[RouteTask(s)] # MainServer
        PROVE  Exists(MainServer, Unrouted(s))
    <3>1. s \in Slots /\ stage >= StitchStage
      BY <2>1 DEF SlotsOf, StitchStage
    <3>2. Unrouted(s) \in disk[MainServer]
      BY <2>3, <3>1, SlotsRouted
    <3> QED
      BY <3>2, <2>2 DEF Exists
  <2>4. slr'[r] = "routed" =>
          {s \in SlotsOf(r) : Owner[RouteTask(s)] # MainServer} \subseteq merged'[r]
    <3>1. slr'[r] = "routed" =>
            merged'[r] = {s \in SlotsOf(r) : Exists(MainServer, Unrouted(s))}
      BY <1>1 DEF StitchSlr, TypeOK
    <3> QED
      BY <3>1, <2>3
  <2>5. \A q \in Slrs \ {r} : slr'[q] = slr[q] /\ merged'[q] = merged[q]
    BY <1>1 DEF StitchSlr, TypeOK
  <2> QED
    BY <2>4, <2>5 DEF RemoteSlotsStitched
<1>2. CASE UNCHANGED <<slr, merged>>
  BY <1>2 DEF RemoteSlotsStitched
<1>3. \/ \E r \in Slrs : StitchSlr(r)
      \/ UNCHANGED <<slr, merged>>
  BY DEF Next, TaskStep, StartTool, BeginWrite, CompleteWrite, Copy, Crash, RsyncFails,
     TouchDoneFlag, MainStep, PollLoop, StitchDone, TopStitch, CleanServer, Exit,
     mainVars, vars
<1> QED
  BY <1>1, <1>2, <1>3

(***************************************************************************)
(* A routed SLR holds all its slots of other servers, although the last    *)
(* loop counts another checkpoint: rsync sends the merged one before it.   *)
(***************************************************************************)
THEOREM RemoteSlotsAreStitched == Spec => []RemoteSlotsStitched
<1>1. Init => RemoteSlotsStitched
  BY DEF Init, RemoteSlotsStitched
<1> QED
  BY <1>1, RemoteStep, TypeCorrect, CausalityHolds, MainKnowsHolds, PTL DEF Spec

-----------------------------------------------------------------------------
\* A flag that a started tool's line has polled was made by a tool that had started.
LEMMA PolledFlagsAreMade ==
  ASSUME TypeOK, Causality, NEW t \in Tasks, Opened(t), NEW f \in Guards[t],
         f[1] \in FlagKinds
  PROVE  f \in Files /\ AtWriter(f) /\ Producer(f) \in Tasks /\ Opened(Producer(f))
<1>1. f \in disk[Owner[t]] /\ Owner[t] \in Servers
  BY OwnerIsAServer DEF Causality, PolledFlagsStay
<1>2. f \in Files /\ AtWriter(f)
  BY <1>1 DEF TypeOK, Causality, CopiesHaveOriginals
<1> QED
  BY <1>2, OutputsOfTasks DEF Causality, WritersHaveOpened

\* The last file of a line before slot routing stands for all its files.
LEMMA LastFlagStandsForAll ==
  ASSUME Causality, NEW f \in Files, AtWriter(f),
         f[1] \in {"synth_flag", "init_conn_flag", "create_flag", "clock_flag"}
  PROVE  Outputs[Producer(f)] \subseteq disk[Owner[Producer(f)]]
<1> SUFFICES ASSUME NEW g \in Outputs[Producer(f)] PROVE AtWriter(g)
  BY OutputsOfTasks DEF AtWriter
<1>1. g \in Files /\ Producer(g) = Producer(f)
  BY OutputsOfTasks
<1>2. /\ g = <<g[1], g[2], g[3]>> /\ f = <<f[1], f[2], f[3]>>
      /\ g[1] \in Kinds /\ f[1] \in Kinds
      /\ StepOf[g[1]] = StepOf[f[1]] /\ g[2] = f[2] /\ g[3] = f[3]
  BY <1>1 DEF Files, Producer
<1>3. g[1] = f[1] \/ WriteOrder[g[1]] < WriteOrder[f[1]]
  BY <1>2 DEF Kinds, StepOf, WriteOrder
<1>4. CASE g[1] = f[1]
  BY <1>2, <1>4
<1>5. CASE WriteOrder[g[1]] < WriteOrder[f[1]]
  BY <1>5 DEF WrittenBefore, Causality, WrittenInOrder
<1> QED
  BY <1>3, <1>4, <1>5

\* Why all lines of a slot, and those of its pairs, have gone all the way: from slot
\* routing back through the flags that each line polled before it started.
LEMMA ChainOfFlags ==
  ASSUME TypeOK, Causality, MainKnows, stage >= StitchStage, NEW s \in Slots
  PROVE  /\ AtWriter(<<"opt_dcp", 0, s>>)
         /\ <<"clock_flag", 0, s>> \in Files /\ AtWriter(<<"clock_flag", 0, s>>)
         /\ \A p \in Related(s) :
              /\ <<"create_flag", 0, p>> \in Files /\ AtWriter(<<"create_flag", 0, p>>)
              /\ Opened(<<"ILP_anchor_placement", 0, p>>)
              /\ <<"ILP_anchor_placement", 0, p>> \in Tasks
<1> DEFINE r == RouteTask(s)
           c == <<"slot_anchor_clock_routing", 0, s>>
           cf == <<"clock_flag", 0, s>>
           o == <<"opt_dcp", 0, s>>
<1>1. r \in Tasks /\ Opened(r) /\ r = <<"slot_routing", 0, s>>
  BY SlotsRouted DEF RouteTask
<1>2. o \in Inputs[r] /\ cf \in Guards[r]
  BY <1>1 DEF Inputs, Guards, RouteOpens, RoutePolls
<1>3. AtWriter(o)
  BY <1>1, <1>2, OwnerIsAServer DEF Causality, OpenedInputsStay, CopiesHaveOriginals
<1>4. "clock_flag" \in FlagKinds /\ "create_flag" \in FlagKinds
  BY DEF FlagKinds, Signals
<1>5. cf \in Files /\ AtWriter(cf) /\ Producer(cf) \in Tasks /\ Opened(Producer(cf))
  BY <1>1, <1>2, <1>4, PolledFlagsAreMade
<1>6. Producer(cf) = c
  BY DEF Producer, StepOf
<1>7. ASSUME NEW p \in Related(s)
      PROVE  /\ <<"create_flag", 0, p>> \in Files /\ AtWriter(<<"create_flag", 0, p>>)
             /\ Opened(<<"ILP_anchor_placement", 0, p>>)
             /\ <<"ILP_anchor_placement", 0, p>> \in Tasks
  <2> DEFINE f == <<"create_flag", 0, p>>
  <2>1. f \in Guards[c]
    BY <1>5, <1>6 DEF Guards, ClockPolls
  <2>2. f \in Files /\ AtWriter(f) /\ Producer(f) \in Tasks /\ Opened(Producer(f))
    BY <2>1, <1>4, <1>5, <1>6, PolledFlagsAreMade
  <2>3. Producer(f) = <<"ILP_anchor_placement", 0, p>>
    BY DEF Producer, StepOf
  <2> QED
    BY <2>2, <2>3
<1> QED
  BY <1>3, <1>5, <1>7

\* The same for the first two steps of a slot, from one of its pairs.
LEMMA ChainToSynthesis ==
  ASSUME TypeOK, Causality, NEW s \in Slots, NEW p \in Related(s),
         <<"ILP_anchor_placement", 0, p>> \in Tasks,
         Opened(<<"ILP_anchor_placement", 0, p>>)
  PROVE  /\ <<"init_conn_flag", 0, s>> \in Files /\ AtWriter(<<"init_conn_flag", 0, s>>)
         /\ <<"synth_flag", 0, s>> \in Files /\ AtWriter(<<"synth_flag", 0, s>>)
<1> DEFINE a == <<"ILP_anchor_placement", 0, p>>
           m == <<"init_slot_placement", 0, s>>
           f == <<"init_conn_flag", 0, s>>
           y == <<"synth_flag", 0, s>>
<1>1. f \in Guards[a]
  BY DEF Guards, AnchorPolls, Related
<1>2. "init_conn_flag" \in FlagKinds /\ "synth_flag" \in FlagKinds
  BY DEF FlagKinds, Signals
<1>3. f \in Files /\ AtWriter(f) /\ Producer(f) \in Tasks /\ Opened(Producer(f))
  BY <1>1, <1>2, PolledFlagsAreMade
<1>4. Producer(f) = m
  BY DEF Producer, StepOf
<1>5. y \in Guards[m]
  BY <1>3, <1>4 DEF Guards, PlacementPolls
<1>6. y \in Files /\ AtWriter(y)
  BY <1>2, <1>3, <1>4, <1>5, PolledFlagsAreMade
<1> QED
  BY <1>3, <1>6

\* A line has reached its transfers just when it has written all its files.
LEMMA SuccessIsSending ==
  ASSUME TypeOK, Causality, NEW t \in Tasks
  PROVE  /\ phase[t] = "send" => HasSucceeded(t)
         /\ Outputs[t] \subseteq disk[Owner[t]] => HasSucceeded(t)
<1>1. Outputs[t] \subseteq disk[Owner[t]] <=> \A f \in Outputs[t] : AtWriter(f)
  BY OutputsOfTasks DEF AtWriter
<1> QED
  BY <1>1 DEF Causality, SendersAreDone, HasSucceeded

(***************************************************************************)
(* run_back_end.sh stitches only when every line of the first iteration    *)
(* has done its work without failing, except lines of the main server in   *)
(* optimisation and routing whose counted checkpoint is there.             *)
(***************************************************************************)
THEOREM FailuresStopTheFlow == Spec => []FailureStopsTheFlow
<1>1. ASSUME TypeOK, Causality, MainKnows, stage >= StitchStage, NEW t \in Tasks,
             t[2] = 0, t[1] \notin {"opt_placement", "slot_routing"}
      PROVE  Outputs[t] \subseteq disk[Owner[t]]
  <2> DEFINE u == t[3]
  <2>1. /\ t = <<t[1], 0, u>> /\ u \in UnitsOf(t[1])
        /\ t[1] \in {"slot_synth", "init_slot_placement", "ILP_anchor_placement",
                     "slot_anchor_clock_routing"}
    BY <1>1 DEF Tasks, Steps, Kinds, StepOf
  <2>2. CASE t[1] = "ILP_anchor_placement"
    <3> DEFINE f == <<"create_flag", 0, u>>
    <3>1. u \in Pairs
      BY <2>1, <2>2 DEF UnitsOf
    <3>2. PICK s \in Slots : u \in Related(s)
      BY <3>1, GridAssumption DEF Related
    <3>3. f \in Files /\ AtWriter(f)
      BY <1>1, <3>2, ChainOfFlags
    <3>4. Producer(f) = t
      BY <2>1, <2>2 DEF Producer, StepOf
    <3>5. Outputs[Producer(f)] \subseteq disk[Owner[Producer(f)]]
      BY <1>1, <3>3, LastFlagStandsForAll
    <3> QED
      BY <3>4, <3>5
  <2>3. CASE t[1] = "slot_anchor_clock_routing"
    <3> DEFINE f == <<"clock_flag", 0, u>>
    <3>1. u \in Slots
      BY <2>1, <2>3 DEF UnitsOf
    <3>2. f \in Files /\ AtWriter(f)
      BY <1>1, <3>1, ChainOfFlags
    <3>3. Producer(f) = t
      BY <2>1, <2>3 DEF Producer, StepOf
    <3>4. Outputs[Producer(f)] \subseteq disk[Owner[Producer(f)]]
      BY <1>1, <3>2, LastFlagStandsForAll
    <3> QED
      BY <3>3, <3>4
  <2>4. CASE t[1] \in {"slot_synth", "init_slot_placement"}
    <3> DEFINE f == <<"init_conn_flag", 0, u>>
               y == <<"synth_flag", 0, u>>
    <3>1. u \in Slots
      BY <2>1, <2>4 DEF UnitsOf
    <3>2. PICK p \in Related(u) : TRUE
      BY <3>1, GridAssumption DEF Related
    <3>3. f \in Files /\ AtWriter(f) /\ y \in Files /\ AtWriter(y)
      BY <1>1, <3>1, <3>2, ChainOfFlags, ChainToSynthesis
    <3>4. /\ t[1] = "init_slot_placement" => Producer(f) = t
          /\ t[1] = "slot_synth" => Producer(y) = t
      BY <2>1 DEF Producer, StepOf
    <3>5. /\ Outputs[Producer(f)] \subseteq disk[Owner[Producer(f)]]
          /\ Outputs[Producer(y)] \subseteq disk[Owner[Producer(y)]]
      BY <1>1, <3>3, LastFlagStandsForAll
    <3> QED
      BY <2>4, <3>4, <3>5
  <2> QED
    BY <2>1, <2>2, <2>3, <2>4
<1>2. ASSUME TypeOK, Causality, MainKnows, stage >= StitchStage, NEW t \in Tasks,
             t[2] = 0, t[1] = "opt_placement"
      PROVE  \/ HasSucceeded(t)
             \/ Owner[t] = MainServer /\ Exists(MainServer, <<"opt_dcp", 0, t[3]>>)
  <2> DEFINE f == <<"opt_dcp", 0, t[3]>>
  <2>1. t[3] \in Slots /\ t = <<"opt_placement", 0, t[3]>>
    BY <1>2 DEF Tasks, UnitsOf
  <2>2. Producer(f) = t
    BY <2>1 DEF Producer, StepOf
  <2>3. Counted(f)
    <3>1. 4 \in 1..(StitchStage - 1) /\ stage > 4
      BY <1>2 DEF StitchStage, TypeOK
    <3>2. Polled[4] = "opt_dcp" /\ UnitsOf(StepOf["opt_dcp"]) = Slots
      BY DEF Polled, StepOf, UnitsOf
    <3> QED
      BY <1>2, <2>1, <3>1, <3>2 DEF MainKnows, LoopsPassed
  <2>4. AtWriter(f)
    BY <1>2, <2>1, ChainOfFlags
  <2>5. CASE phase[t] = "send"
    BY <1>2, <2>5, SuccessIsSending
  <2>6. CASE Owner[t] = MainServer
    <3>1. MainServer \notin removed
      BY <1>2 DEF MainKnows, RemovedAtTheEnd
    <3> QED
      BY <2>2, <2>4, <2>6, <3>1 DEF Exists, AtWriter
  <2> QED
    BY <2>2, <2>3, <2>5, <2>6 DEF Counted
<1>3. ASSUME TypeOK, Causality, MainKnows, stage >= StitchStage, NEW t \in Tasks,
             t[2] = 0, t[1] = "slot_routing"
      PROVE  \/ HasSucceeded(t)
             \/ Owner[t] = MainServer /\ Exists(MainServer, <<"phys_dcp", 0, t[3]>>)
  <2>1. t[3] \in Slots /\ t = RouteTask(t[3])
    BY <1>3 DEF Tasks, UnitsOf, RouteTask
  <2>2. /\ Owner[t] # MainServer => phase[t] = "send"
        /\ OnMain(<<"phys_dcp", 0, t[3]>>)
    BY <1>3, <2>1, SlotsRouted
  <2>3. MainServer \notin removed
    BY <1>3 DEF MainKnows, RemovedAtTheEnd
  <2> QED
    BY <1>3, <2>2, <2>3, SuccessIsSending DEF OnMain, Exists
<1>4. TypeOK /\ Causality /\ MainKnows => FailureStopsTheFlow
  <2> SUFFICES ASSUME TypeOK, Causality, MainKnows, stage >= StitchStage,
                      NEW t \in Tasks, t[2] = 0
               PROVE  \/ HasSucceeded(t)
                      \/ /\ Owner[t] = MainServer
                         /\ t[1] \in DOMAIN CountedEarly
                         /\ Exists(MainServer, <<CountedEarly[t[1]], 0, t[3]>>)
    BY DEF FailureStopsTheFlow
  <2>1. CASE t[1] \notin {"opt_placement", "slot_routing"}
    BY <1>1, <2>1, SuccessIsSending
  <2>2. CASE t[1] = "opt_placement"
    BY <1>2, <2>2 DEF CountedEarly
  <2>3. CASE t[1] = "slot_routing"
    BY <1>3, <2>3 DEF CountedEarly
  <2> QED
    BY <2>1, <2>2, <2>3
<1> QED
  BY <1>4, TypeCorrect, CausalityHolds, MainKnowsHolds, PTL

-----------------------------------------------------------------------------
LEMMA AbstractInit == Init => Abstract!Init
<1> SUFFICES ASSUME Init PROVE Abstract!Init
  OBVIOUS
<1>1. Started = {}
  BY DEF Init, Started
<1>2. Made = {}
  BY OutputsOfTasks, OwnerIsAServer DEF Init, Made, AtWriter
<1>3. Joined = {}
  BY DEF Init, Joined
<1> QED
  BY <1>1, <1>2, <1>3 DEF Abstract!Init

\* A tool that starts with complete inputs starts in the schedule; one of slot routing
\* that does not changes nothing there.
LEMMA AbstractStart ==
  ASSUME TypeOK, Causality, GuardsSufficeBeforeRouting', NEW t \in Tasks, StartTool(t)
  PROVE  Abstract!Start(t) \/ UNCHANGED <<Started, Made, Joined>>
<1>1. /\ phase[t] = "wait" /\ disk' = disk /\ merged' = merged
      /\ phase' = [phase EXCEPT ![t] = IF Inputs[t] \subseteq disk[Owner[t]]
                                       THEN "run" ELSE "misread"]
  BY DEF StartTool, mainVars
<1>2. Made' = Made /\ Joined' = Joined
  BY <1>1 DEF Made, AtWriter, Joined
<1>3. \A u \in Tasks \ {t} : phase'[u] = phase[u]
  BY <1>1 DEF TypeOK
<1>4. CASE Inputs[t] \subseteq disk[Owner[t]]
  <2>1. phase'[t] = "run"
    BY <1>1, <1>4 DEF TypeOK
  <2>2. Started' = Started \cup {t} /\ t \notin Started
    BY <1>1, <1>3, <2>1 DEF Started
  <2>3. Inputs[t] \subseteq Made
    BY <1>4, OwnerIsAServer DEF TypeOK, Causality, CopiesHaveOriginals, Made
  <2> QED
    BY <1>2, <2>2, <2>3 DEF Abstract!Start
<1>5. CASE ~(Inputs[t] \subseteq disk[Owner[t]])
  <2>1. phase'[t] = "misread" /\ t[1] = "slot_routing"
    BY <1>1, <1>5 DEF TypeOK, GuardsSufficeBeforeRouting
  <2>2. Started' = Started
    BY <1>1, <1>3, <2>1 DEF Started
  <2> QED
    BY <1>2, <2>2
<1> QED
  BY <1>4, <1>5

\* Completing a file makes it.
LEMMA AbstractComplete ==
  ASSUME TypeOK, NEW t \in Tasks, NEW f \in Outputs[t], CompleteWrite(t, f)
  PROVE  Abstract!Make(f) \/ UNCHANGED <<Started, Made, Joined>>
<1>1. f \in Files /\ Producer(f) = t /\ Owner[t] \in Servers
  BY OutputsOfTasks, OwnerIsAServer
<1>2. /\ phase[t] = "run" /\ merged' = merged
      /\ disk' = [disk EXCEPT ![Owner[t]] = @ \cup {f}]
      /\ phase' = [phase EXCEPT ![t] = phase'[t]] /\ phase'[t] \in {"run", "send"}
  BY DEF CompleteWrite, MayWrite, mainVars, TypeOK
<1>3. Started' = Started /\ t \in Started /\ Joined' = Joined
  BY <1>2 DEF Started, Joined, TypeOK
<1>4. Made' = Made \cup {f}
  <2>1. AtWriter(f)'
    BY <1>1, <1>2 DEF AtWriter, TypeOK
  <2>2. \A g \in Files : g # f => (AtWriter(g)' <=> AtWriter(g))
    BY <1>1, <1>2, OutputsOfTasks, OwnerIsAServer DEF AtWriter, TypeOK
  <2> QED
    BY <1>1, <2>1, <2>2 DEF Made
<1> QED
  BY <1>1, <1>3, <1>4 DEF Abstract!Make

\* A copy makes nothing new.
LEMMA AbstractCopy ==
  ASSUME TypeOK, Causality, NEW t \in Tasks, NEW v \in pending[t],
         NEW f \in Outputs[t], Copy(t, v, f)
  PROVE  UNCHANGED <<Started, Made, Joined>>
<1>1. f \in Files /\ Producer(f) = t /\ v \in Servers
  BY OutputsOfTasks DEF TypeOK
<1>2. /\ phase[t] = "send" /\ phase' = phase /\ merged' = merged
      /\ disk' = [disk EXCEPT ![v] = @ \cup {f}]
  BY DEF Copy, Sending, mainVars
<1>3. AtWriter(f)
  BY <1>2 DEF Causality, SendersAreDone
<1>4. \A g \in Files : AtWriter(g)' <=> AtWriter(g)
  <2> SUFFICES ASSUME NEW g \in Files PROVE AtWriter(g)' <=> AtWriter(g)
    OBVIOUS
  <2>1. Owner[Producer(g)] \in Servers
    BY OutputsOfTasks, OwnerIsAServer
  <2> QED
    BY <2>1, <1>1, <1>2, <1>3 DEF AtWriter, TypeOK
<1> QED
  BY <1>2, <1>4 DEF Started, Made, Joined

\* What an SLR is merged from joins the design.
LEMMA AbstractStitch ==
  ASSUME TypeOK, MainKnows, MainKnows', NEW r \in Slrs, StitchSlr(r)
  PROVE  Abstract!Join
<1>1. /\ phase' = phase /\ disk' = disk /\ slr[r] = "todo"
      /\ \A q \in Slrs \ {r} : merged'[q] = merged[q]
  BY DEF StitchSlr, taskVars, TypeOK
<1>2. Started' = Started /\ Made' = Made
  BY <1>1 DEF Started, Made, AtWriter
<1>3. merged[r] = {}
  BY <1>1 DEF MainKnows, MergedWereMade
<1>4. Joined \subseteq Joined'
  BY <1>1, <1>3 DEF Joined
<1>5. Joined' \subseteq Made'
  BY DEF MainKnows, MergedWereMade, Joined, Made
<1> QED
  BY <1>2, <1>4, <1>5 DEF Abstract!Join

LEMMA AbstractStep ==
  TypeOK /\ Causality /\ MainKnows /\ MainKnows' /\ GuardsSufficeBeforeRouting' /\ [Next]_vars
    => [Abstract!Next]_<<Started, Made, Joined>>
<1> SUFFICES ASSUME TypeOK, Causality, MainKnows, MainKnows', GuardsSufficeBeforeRouting',
                    [Next]_vars
             PROVE  [Abstract!Next]_<<Started, Made, Joined>>
  OBVIOUS
<1>1. ASSUME NEW t \in Tasks, StartTool(t) PROVE [Abstract!Next]_<<Started, Made, Joined>>
  BY <1>1, AbstractStart DEF Abstract!Next
<1>2. ASSUME NEW t \in Tasks, NEW f \in Outputs[t], CompleteWrite(t, f)
      PROVE  [Abstract!Next]_<<Started, Made, Joined>>
  BY <1>2, AbstractComplete, OutputsOfTasks DEF Abstract!Next
<1>3. ASSUME NEW t \in Tasks, NEW v \in pending[t], NEW f \in Outputs[t], Copy(t, v, f)
      PROVE  [Abstract!Next]_<<Started, Made, Joined>>
  BY <1>3, AbstractCopy
<1>4. ASSUME NEW r \in Slrs, StitchSlr(r) PROVE [Abstract!Next]_<<Started, Made, Joined>>
  BY <1>4, AbstractStitch DEF Abstract!Next
<1>5. ASSUME NEW t \in Tasks, Crash(t) PROVE UNCHANGED <<Started, Made, Joined>>
  <2>1. /\ disk' = disk /\ merged' = merged
        /\ phase[t] = "run" /\ phase' = [phase EXCEPT ![t] = "crashed"]
    BY <1>5 DEF Crash, mainVars
  <2> QED
    BY <2>1 DEF Started, Made, AtWriter, Joined, TypeOK
<1>6. CASE UNCHANGED <<phase, disk, merged>>
  BY <1>6 DEF Started, Made, AtWriter, Joined
<1>7. \/ \E t \in Tasks : StartTool(t) \/ Crash(t)
      \/ \E t \in Tasks : \E f \in Outputs[t] : CompleteWrite(t, f)
      \/ \E t \in Tasks : \E v \in pending[t] : \E f \in Outputs[t] : Copy(t, v, f)
      \/ \E r \in Slrs : StitchSlr(r)
      \/ UNCHANGED <<phase, disk, merged>>
  BY DEF Next, TaskStep, BeginWrite, RsyncFails, TouchDoneFlag, MainStep, PollLoop,
     StitchDone, TopStitch, CleanServer, Exit, taskVars, mainVars, vars
<1> QED
  BY <1>1, <1>2, <1>3, <1>4, <1>5, <1>6, <1>7

(***************************************************************************)
(* The lines of all servers, each of which sees only its own disk, take    *)
(* the steps of one scheduler that sees all files, or stutter.             *)
(***************************************************************************)
THEOREM FlowRefinesDataflow == Spec => RefinesDataflow
<1>1. Spec => [](TypeOK /\ Causality /\ MainKnows /\ GuardsSufficeBeforeRouting)
  BY TypeCorrect, CausalityHolds, MainKnowsHolds, GuardsSuffice, PTL
<1> QED
  BY <1>1, AbstractInit, AbstractStep, PTL DEF Spec, RefinesDataflow, Abstract!Spec

-----------------------------------------------------------------------------
\* What holds as long as no tool fails and the retries suffice.
LEMMA NothingIsLostInit == Init => NothingIsLost
<1> SUFFICES ASSUME Init PROVE NothingIsLost
  OBVIOUS
<1>1. \A t \in Tasks : phase[t] # "crashed" /\ tries[t] <= drops /\ ~Opened(t)
  BY DEF Init, Opened
<1>2. \A t \in Tasks : Destinations[t] \ pending[t] = {}
  BY DEF Init
<1>3. ilpDone = {} /\ \A s \in Slots : RouteTask(s) \in Tasks
  <2>1. 0 \in Iters /\ "slot_routing" \in Steps /\ "slot_routing" # "ILP_anchor_placement"
    BY SizesAssumption DEF Iters, Steps, Kinds, StepOf
  <2> QED
    BY <2>1 DEF Init, RouteTask, Tasks, UnitsOf, ItersOf, IterSteps
<1> QED
  BY <1>1, <1>2, <1>3 DEF NothingIsLost

\* The tasks that NothingIsLost names.
LEMMA NamedTasks ==
  /\ \A p \in Pairs : /\ <<"ILP_anchor_placement", 0, p>> \in Tasks
                      /\ <<"create_tcl", 0, p>> \in Outputs[<<"ILP_anchor_placement", 0, p>>]
                      /\ Producer(<<"create_tcl", 0, p>>) = <<"ILP_anchor_placement", 0, p>>
  /\ \A s \in Slots : RouteTask(s) \in Tasks
<1>1. /\ 0 \in Iters /\ {"slot_routing", "ILP_anchor_placement"} \subseteq Steps
      /\ "create_tcl" \in Kinds /\ StepOf["create_tcl"] = "ILP_anchor_placement"
  BY SizesAssumption DEF Iters, Steps, Kinds, StepOf
<1>2. \A p \in Pairs : <<"ILP_anchor_placement", 0, p>> \in Tasks
  BY <1>1 DEF Tasks, UnitsOf, ItersOf
<1>3. \A p \in Pairs : /\ Producer(<<"create_tcl", 0, p>>) = <<"ILP_anchor_placement", 0, p>>
                       /\ <<"create_tcl", 0, p>> \in Files
  BY <1>1, <1>2 DEF Producer, Files
<1>4. \A s \in Slots : RouteTask(s) \in Tasks
  BY <1>1 DEF Tasks, UnitsOf, ItersOf, IterSteps, RouteTask
<1> QED
  BY <1>2, <1>3, <1>4 DEF Outputs

LEMMA NothingIsLostTask ==
  ASSUME TypeOK, NothingIsLost, NEW t \in Tasks, ~Terminated(t), TaskStep(t)
  PROVE  NothingIsLost'
<1>1. /\ \A u \in Tasks \ {t} : /\ phase'[u] = phase[u] /\ pending'[u] = pending[u]
                               /\ tries'[u] = tries[u]
      /\ ilpDone' = ilpDone /\ drops' = drops /\ drops \in Nat
      /\ phase'[t] # "crashed"
      /\ tries'[t] \in {tries[t], 0}
  <2>1. drops \in Nat
    BY SizesAssumption DEF TypeOK
  <2>2. CASE StartTool(t)
    BY <2>1, <2>2 DEF StartTool, TypeOK
  <2>3. CASE \E f \in Outputs[t] : BeginWrite(t, f)
    BY <2>1, <2>3 DEF BeginWrite, NothingIsLost
  <2>4. CASE \E f \in Outputs[t] : CompleteWrite(t, f)
    BY <2>1, <2>4 DEF CompleteWrite, TypeOK
  <2>5. CASE \E v \in pending[t] : \E f \in Outputs[t] : Copy(t, v, f)
    BY <2>1, <2>5 DEF Copy, NothingIsLost, TypeOK
  <2> QED
    BY <2>2, <2>3, <2>4, <2>5 DEF TaskStep
<1>2. \A v \in Servers : disk[v] \subseteq disk'[v]
  BY OwnerIsAServer DEF TaskStep, StartTool, BeginWrite, CompleteWrite, Copy, TypeOK
<1>3. \A v \in Destinations[t] \ pending'[t] : Outputs[t] \subseteq disk'[v]
  <2>1. \A v \in Destinations[t] \ pending[t] : Outputs[t] \subseteq disk'[v]
    BY <1>2, DestinationsType DEF NothingIsLost
  <2>2. CASE pending' = pending
    BY <2>1, <2>2
  <2>3. CASE \E v \in pending[t] : \E f \in Outputs[t] : Copy(t, v, f)
    BY <2>1, <2>3 DEF Copy, TypeOK
  <2> QED
    BY <2>2, <2>3 DEF TaskStep, StartTool, BeginWrite, CompleteWrite
<1>4. \A u \in Tasks : Terminated(u) => Terminated(u)'
  BY <1>1 DEF Terminated, Delivered
<1>5. \A s \in Slots : Opened(RouteTask(s))' => ilpDone # {}
  <2> SUFFICES ASSUME NEW s \in Slots, Opened(RouteTask(s))' PROVE ilpDone # {}
    OBVIOUS
  <2>1. CASE Opened(RouteTask(s))
    BY <2>1 DEF NothingIsLost
  <2>2. CASE ~Opened(RouteTask(s))
    <3>1. t = RouteTask(s)
      BY <2>2, <1>1, NamedTasks DEF Opened
    <3>2. StartTool(t)
      BY <2>2, <3>1, <1>1 DEF TaskStep, Opened, Terminated, BeginWrite, Copy
    <3> QED
      BY <3>1, <3>2 DEF StartTool, GuardsOpen, RouteTask
  <2> QED
    BY <2>1, <2>2
<1>6. \A u \in Tasks : phase'[u] # "crashed" /\ tries'[u] <= drops'
  BY <1>1 DEF NothingIsLost
<1>7. \A u \in Tasks : \A v \in Destinations[u] \ pending'[u] : Outputs[u] \subseteq disk'[v]
  BY <1>1, <1>2, <1>3, DestinationsType DEF NothingIsLost
<1>8. ilpDone' # {} => \A p \in Pairs : Terminated(<<"ILP_anchor_placement", 0, p>>)'
  BY <1>1, <1>4, NamedTasks DEF NothingIsLost
<1> QED
  BY <1>1, <1>5, <1>6, <1>7, <1>8 DEF NothingIsLost

LEMMA NothingIsLostStep ==
  ASSUME Undisturbed, TypeOK, NothingIsLost, [Next]_vars
  PROVE  NothingIsLost'
<1>1. ASSUME NEW t \in Tasks, ~Terminated(t), TaskStep(t) PROVE NothingIsLost'
  BY <1>1, NothingIsLostTask
<1>2. ASSUME NEW t \in Tasks, Crash(t) PROVE FALSE
  BY <1>2, SizesAssumption DEF Crash, Undisturbed, TypeOK
<1>3. ASSUME NEW t \in Tasks, NEW v \in pending[t], RsyncFails(t, v) PROVE NothingIsLost'
  <2>1. tries[t] + 1 < MaxRetries /\ tries[t] \in Nat /\ drops \in Nat
    BY <1>3, SizesAssumption DEF RsyncFails, Undisturbed, NothingIsLost, TypeOK
  <2>2. /\ tries' = [tries EXCEPT ![t] = @ + 1] /\ drops' = drops + 1
        /\ UNCHANGED <<phase, disk, pending, ilpDone>>
    BY <1>3, <2>1 DEF RsyncFails
  <2>3. \A u \in Tasks : tries'[u] <= drops'
    BY <2>1, <2>2 DEF NothingIsLost, TypeOK
  <2> QED
    BY <2>2, <2>3 DEF NothingIsLost, Terminated, Delivered, Opened
<1>4. ASSUME NEW v \in Servers, TouchDoneFlag(v) PROVE NothingIsLost'
  BY <1>4 DEF TouchDoneFlag, taskVars, NothingIsLost, Terminated, Delivered, Opened
<1>5. CASE UNCHANGED <<phase, disk, pending, tries, ilpDone, drops>>
  BY <1>5 DEF NothingIsLost, Terminated, Delivered, Opened
<1>6. MainStep => UNCHANGED <<phase, disk, pending, tries, ilpDone, drops>>
  BY DEF MainStep, PollLoop, StitchSlr, StitchDone, TopStitch, CleanServer, Exit, taskVars
<1> QED
  BY <1>1, <1>2, <1>3, <1>4, <1>5, <1>6 DEF Next, vars, taskVars

(***************************************************************************)
(* If no tool crashes and fewer attempts fail than rsync_with_retry.sh     *)
(* makes, every transfer behind a line has arrived, and done.flag of the   *)
(* anchor placement comes after all its lines.                             *)
(***************************************************************************)
THEOREM NothingIsLostHolds == ASSUME Undisturbed PROVE Spec => []NothingIsLost
<1>1. TypeOK /\ NothingIsLost /\ [Next]_vars => NothingIsLost'
  BY NothingIsLostStep
<1> QED
  BY <1>1, NothingIsLostInit, TypeCorrect, PTL DEF Spec

\* done.flag of the anchor placement on one server stands for the anchors of every
\* center pair on every server that looks for them.
LEMMA AnchorsArrived ==
  ASSUME TypeOK, Causality, NothingIsLost, GuardsSufficeBeforeRouting, ilpDone # {},
         NEW p \in CenterPairs, NEW v \in Servers, <<"create_tcl", 0, p>> \in Watched[v]
  PROVE  <<"create_tcl", 0, p>> \in disk[v]
<1> DEFINE f == <<"create_tcl", 0, p>>
           a == <<"ILP_anchor_placement", 0, p>>
<1>1. a \in Tasks /\ f \in Outputs[a] /\ Producer(f) = a
  BY NamedTasks, GridAssumption
<1>2. Delivered(a)
  BY <1>1, GridAssumption DEF NothingIsLost, Terminated, GuardsSufficeBeforeRouting
<1>3. f \in disk[Owner[a]]
  BY <1>1, <1>2 DEF Delivered, Causality, SendersAreDone, AtWriter
<1>4. CASE v = Owner[a]
  BY <1>3, <1>4
<1>5. CASE v # Owner[a]
  <2>1. v \in Destinations[a]
    BY <1>1, <1>5 DEF Destinations
  <2>2. Outputs[a] \subseteq disk[v]
    BY <1>1, <1>2, <2>1 DEF NothingIsLost, Delivered
  <2> QED
    BY <1>1, <2>2
<1> QED
  BY <1>4, <1>5

(***************************************************************************)
(* Without failures no tool opens a missing file, slot routing included,   *)
(* unless it opens the checkpoint that optimisation is still writing.      *)
(***************************************************************************)
THEOREM NoToolMisreads ==
  ASSUME Undisturbed, "opt_dcp" \notin SlowWrites
  PROVE  Spec => []NoMisread
<1>1. ASSUME TypeOK, Causality, NothingIsLost, GuardsSufficeBeforeRouting,
             NEW s \in Slots, StartTool(RouteTask(s))
      PROVE  Inputs[RouteTask(s)] \subseteq disk[Owner[RouteTask(s)]]
  <2> DEFINE t == RouteTask(s)
             v == Owner[t]
  <2>1. t \in Tasks /\ v \in Servers
    BY NamedTasks, OwnerIsAServer
  <2>2. /\ Inputs[t] = {<<"opt_dcp", 0, s>>, <<"clock_tcl", 0, s>>} \cup PlaceholderAnchors({s})
        /\ Guards[t] = {<<"clock_flag", 0, s>>, <<"opt_dcp", 0, s>>}
        /\ t[1] = "slot_routing"
    BY <2>1 DEF RouteTask, Inputs, Guards, RouteOpens, RoutePolls
  <2>3. v \in ilpDone /\ \A f \in Guards[t] : Exists(v, f)
    BY <1>1, <2>2 DEF StartTool, GuardsOpen
  <2>4. <<"opt_dcp", 0, s>> \in disk[v]
    BY <1>1, <2>2, <2>3 DEF Exists, Causality, PartialIsSlow
  <2>5. <<"clock_tcl", 0, s>> \in disk[v]
    <3> DEFINE f == <<"clock_flag", 0, s>>
    <3>1. f[1] \in FlagKinds /\ Signals[f[1]] = "clock_tcl" /\ f[2] = 0 /\ f[3] = s
      BY DEF FlagKinds, Signals
    <3>2. Exists(v, f)
      BY <2>2, <2>3
    <3>3. <<Signals[f[1]], f[2], f[3]>> \in disk[v]
      BY <1>1, <2>1, <3>1, <3>2, FlagSeen
    <3> QED
      BY <3>1, <3>3
  <2>6. ASSUME NEW p \in CenterPairs, <<"create_tcl", 0, p>> \in Inputs[t]
        PROVE  <<"create_tcl", 0, p>> \in disk[v]
    <3>1. <<"create_tcl", 0, p>> \in Watched[v]
      BY <2>1, <2>6 DEF Watched
    <3> QED
      BY <1>1, <2>1, <2>3, <3>1, AnchorsArrived
  <2> QED
    BY <2>2, <2>4, <2>5, <2>6 DEF PlaceholderAnchors
<1>2. ASSUME TypeOK, Causality, NothingIsLost, GuardsSufficeBeforeRouting,
             GuardsSufficeBeforeRouting', NoMisread, [Next]_vars
      PROVE  NoMisread'
  <2>1. ASSUME NEW t \in Tasks, StartTool(t) PROVE NoMisread'
    <3>1. \A u \in Tasks \ {t} : phase'[u] = phase[u]
      BY <1>2, <2>1 DEF StartTool, TypeOK
    <3>2. phase'[t] # "misread"
      <4>1. CASE t[1] = "slot_routing"
        <5>1. t[3] \in Slots /\ t = RouteTask(t[3])
          BY <4>1 DEF Tasks, UnitsOf, ItersOf, IterSteps, RouteTask
        <5>2. Inputs[t] \subseteq disk[Owner[t]]
          BY <1>1, <1>2, <2>1, <5>1
        <5> QED
          BY <1>2, <2>1, <5>2 DEF StartTool, TypeOK
      <4>2. CASE t[1] # "slot_routing"
        BY <1>2, <4>2 DEF GuardsSufficeBeforeRouting
      <4> QED
        BY <4>1, <4>2
    <3> QED
      BY <1>2, <3>1, <3>2 DEF NoMisread
  <2>2. ASSUME NEW t \in Tasks, TaskStep(t), ~StartTool(t) PROVE NoMisread'
    BY <1>2, <2>2 DEF TaskStep, BeginWrite, CompleteWrite, Copy, NoMisread, TypeOK
  <2>3. ASSUME NEW t \in Tasks, Crash(t) PROVE NoMisread'
    BY <1>2, <2>3 DEF Crash, NoMisread, TypeOK
  <2>4. CASE phase' = phase
    BY <1>2, <2>4 DEF NoMisread
  <2> QED
    BY <1>2, <2>1, <2>2, <2>3, <2>4 DEF Next, RsyncFails, TouchDoneFlag, MainStep, PollLoop,
       StitchSlr, StitchDone, TopStitch, CleanServer, Exit, taskVars, vars
<1>3. Init => NoMisread
  BY DEF Init, NoMisread
<1>4. Spec => []NothingIsLost
  BY NothingIsLostHolds
<1> QED
  BY <1>2, <1>3, <1>4, TypeCorrect, CausalityHolds, GuardsSuffice, PTL DEF Spec

(***************************************************************************)
(* Without failures, an SLR fails only for want of checkpoints of slots    *)
(* that the main server routes itself: some are missing at that moment,    *)
(* and nothing else that its stitching opens is.                           *)
(***************************************************************************)
THEOREM OnlyLocalSlotsFail ==
  ASSUME Undisturbed, \A r \in Slrs : SlotsOf(r) # {}
  PROVE  Spec => OnlyLocalSlotsFailStitching
<1> DEFINE Fails(r) == slr[r] # "failed" /\ slr'[r] = "failed"
<1>1. ASSUME TypeOK, Causality, MainKnows, NothingIsLost, GuardsSufficeBeforeRouting,
             NEW r \in Slrs, StitchSlr(r), Fails(r)
      PROVE  /\ Lacking(r) # {}
             /\ Lacking(r) \subseteq {Unrouted(s) : s \in RoutedOnMain(r)}
  <2>1. stage >= StitchStage /\ MainServer \notin removed /\ MainServer \in Servers
    BY <1>1, GridAssumption
       DEF StitchSlr, StitchStage, MainKnows, RemovedAtTheEnd
  <2>2. \A s \in SlotsOf(r) : /\ s \in Slots /\ Opened(RouteTask(s))
                              /\ s \notin RoutedOnMain(r) => Unrouted(s) \in disk[MainServer]
    BY <1>1, <2>1, SlotsRouted DEF SlotsOf, RoutedOnMain
  <2>3. PICK q \in SlotsOf(r) : TRUE
    OBVIOUS
  <2>4. ilpDone # {}
    <3>1. \A s \in Slots : Opened(RouteTask(s)) => ilpDone # {}
      BY <1>1 DEF NothingIsLost
    <3> QED
      BY <2>2, <2>3, <3>1
  <2>5. PlaceholderAnchors(SlotsOf(r)) \subseteq disk[MainServer]
    <3> SUFFICES ASSUME NEW p \in CenterPairs
                 PROVE  <<"create_tcl", 0, p>> \in disk[MainServer]
      BY DEF PlaceholderAnchors
    <3>1. <<"create_tcl", 0, p>> \in PlaceholderAnchors({})
      BY DEF PlaceholderAnchors
    <3>2. <<"create_tcl", 0, p>> \in Watched[MainServer]
      BY <2>1, <3>1 DEF Watched, WatchedOnMain
    <3> QED
      BY <1>1, <2>1, <2>4, <3>2, AnchorsArrived
  <2>6. ASSUME Lacking(r) = {} PROVE FALSE
    <3> DEFINE found == {s \in SlotsOf(r) : Exists(MainServer, Unrouted(s))}
    <3>1. \A s \in SlotsOf(r) : Unrouted(s) \in disk[MainServer]
      BY <2>6 DEF Lacking
    <3>2. found = SlotsOf(r)
      BY <2>1, <3>1 DEF Exists
    <3>3. slr'[r] = "routed"
      BY <1>1, <2>3, <2>5, <3>1, <3>2 DEF StitchSlr, TypeOK
    <3> QED
      BY <1>1, <3>3
  <2>7. ASSUME NEW f \in Lacking(r) PROVE f \in {Unrouted(s) : s \in RoutedOnMain(r)}
    <3>1. PICK s \in SlotsOf(r) : f = Unrouted(s)
      BY <2>5, <2>7 DEF Lacking
    <3>2. s \in RoutedOnMain(r)
      BY <2>2, <2>7, <3>1 DEF Lacking
    <3> QED
      BY <3>1, <3>2
  <2> QED
    BY <2>6, <2>7
<1>2. ASSUME TypeOK, Causality, MainKnows, NothingIsLost, GuardsSufficeBeforeRouting,
             Next, NEW r \in Slrs, Fails(r)
      PROVE  StitchSlr(r)
  <2>1. (\E q \in Slrs : StitchSlr(q)) \/ slr' = slr
    BY <1>2 DEF Next, TaskStep, StartTool, BeginWrite, CompleteWrite, Copy, Crash,
       RsyncFails, TouchDoneFlag, MainStep, PollLoop, StitchDone, TopStitch, CleanServer,
       Exit, mainVars, vars
  <2>2. ASSUME NEW q \in Slrs, StitchSlr(q) PROVE q = r
    BY <1>2, <2>2 DEF StitchSlr, TypeOK
  <2> QED
    BY <1>2, <2>1, <2>2
<1>3. TypeOK /\ Causality /\ MainKnows /\ NothingIsLost /\ GuardsSufficeBeforeRouting
        /\ [Next]_vars
      => [\A r \in Slrs : Fails(r) =>
            /\ Lacking(r) # {}
            /\ Lacking(r) \subseteq {Unrouted(s) : s \in RoutedOnMain(r)}]_vars
  BY <1>1, <1>2
<1>4. Spec => []NothingIsLost
  BY NothingIsLostHolds
<1> QED
  BY <1>3, <1>4, TypeCorrect, CausalityHolds, MainKnowsHolds, GuardsSuffice, PTL
     DEF Spec, OnlyLocalSlotsFailStitching
=============================================================================
