------------------------- MODULE NpuPipelineProofs -------------------------
(***************************************************************************)
(* Proofs about NpuPipeline, for networks of any length and any layers.    *)
(*                                                                         *)
(* First, of every configuration: types, and what makes them inductive     *)
(* (Threading), how the program counters, flags and events of the three    *)
(* threads of the controller go together.                                  *)
(*                                                                         *)
(* Then, of the first run of the configurations without double buffering   *)
(* whose packet groups are not followed by a plain group (Sequential): how *)
(* the three threads hand each layer on (Orderly).  Backpressure and       *)
(* peak_bw timing can stop such a pipeline but not confuse it; a second    *)
(* START, which finds streams_done_ up, can (NpuPipelineAgain.cfg).        *)
(***************************************************************************)
EXTENDS NpuPipeline, QueueLemmas, TLAPS

----------------------------------------------------------------------------
(* The inductive invariant: what holds under every configuration *)

\* Labels, by what their thread is doing.
AtGroup     == {"r_chunk", "r_loaded", "r_computed", "r_free", "r_written", "r_next"}
ReadLabels  == {"r_start", "r_image", "r_layer", "r_tiled", "r_ran"} \cup AtGroup
WorkLabels  == {"c_check", "c_gate", "c_loop", "c_stall", "c_batch", "c_done"}
AfterLabels == {"c_written", "c_free", "c_next", "c_sub", "c_synced"}
ComputeLabels == {"c_start", "c_init", "c_layer"} \cup WorkLabels \cup AfterLabels
WriteLabels == {"w_wait", "w_dma", "w_done"}
Labels == ReadLabels \cup ComputeLabels \cup WriteLabels

LabelOf(t, l) ==
  /\ t = "read" => l \in ReadLabels
  /\ t = "compute" => l \in ComputeLabels
  /\ t = "write" => l \in WriteLabels

WaitsAt(l) == Blocked(l) \/ Timed(l)

\* One thread at a time has the processor: the one that is not in a wait.
Kernel ==
  /\ setup \in Setup /\ started \in 0 .. setup.starts /\ cpu \in Threads \cup {Nobody}
  /\ awake \in [Threads -> BOOLEAN]
  /\ pc \in [Threads -> Labels]
  /\ \A t \in Threads : LabelOf(t, pc[t])
  /\ \A t \in Threads : (cpu = t <=> ~WaitsAt(pc[t])) /\ (cpu = t => ~awake[t])

Numbers == loaded \in Nat /\ pending \in Nat /\ consumed \in Nat /\ rChunk \in Nat
Flags ==
  /\ allLoaded \in BOOLEAN /\ computeDone \in BOOLEAN /\ outputHeld \in BOOLEAN
  /\ streamsDone \in BOOLEAN /\ active \in BOOLEAN /\ allDone \in BOOLEAN
Positions ==
  /\ rG \in 0 .. Len(net) + 1 /\ cG \in 0 .. Len(net) + 1
  /\ ran \subseteq Groups /\ computed \subseteq Groups /\ misfed \subseteq Groups

\* Which group a thread is at, by its label.
ReadPlace ==
  /\ pc["read"] = "r_start" => rG = 0 \/ rG = Len(net) + 1
  /\ pc["read"] = "r_image" => rG = 0
  /\ pc["read"] = "r_layer" => rG # 0
  /\ pc["read"] \in {"r_tiled", "r_ran"} => rG \in Groups \ PlainGroups
  /\ pc["read"] \in AtGroup => rG \in PlainGroups
ComputePlace ==
  /\ pc["compute"] = "c_start" => cG = 0 \/ cG = Len(net) + 1
  /\ pc["compute"] = "c_init" => cG = 0
  /\ pc["compute"] = "c_layer" => cG # 0
  /\ pc["compute"] \in WorkLabels \cup AfterLabels => cG \in PlainGroups

\* Of a network started once: what START and the end of the run do to the threads.
Once ==
  /\ started = 0 => rG = 0 /\ pc["read"] = "r_start" /\ ~awake["read"]
  /\ rG = 0 => ~streamsDone
  /\ pc["read"] = "r_start" /\ rG # 0 => streamsDone /\ ~awake["read"]
  /\ streamsDone => pc["read"] = "r_start" /\ rG = Len(net) + 1
  /\ pc["compute"] = "c_start" /\ cG # 0 => ~awake["compute"]

\* START finds both threads at their start; compute is at its wait for the first data
\* before read has loaded the image.
Starting ==
  rG = 0 =>
    /\ cG = 0 /\ ~(pc["compute"] = "c_init" /\ awake["compute"])
    /\ pc["read"] = "r_start" /\ ~awake["read"] => pc["compute"] = "c_start" /\ ~awake["compute"]
    /\ pc["read"] = "r_start" /\ awake["read"] /\ pc["compute"] = "c_start" => awake["compute"]
    /\ pc["read"] = "r_image" /\ pc["compute"] = "c_start" => awake["compute"] /\ ~awake["read"]

Threading == Kernel /\ Numbers /\ Flags /\ Positions /\ ReadPlace /\ ComputePlace
SingleRun == Threading /\ Once /\ Starting

----------------------------------------------------------------------------
(* The kernel *)

LEMMA BlockedLabels ==
  \A l : Blocked(l) <=> l \in {"r_start", "r_computed", "r_written", "c_start", "c_init",
                               "c_gate", "c_stall", "c_written", "c_next", "c_synced", "w_wait"}
BY DEF Blocked, EventOf

LEMMA Events ==
  /\ EventOf["r_start"] = "start" /\ EventOf["c_start"] = "start"
  /\ EventOf["r_computed"] = "compute_done" /\ EventOf["r_written"] = "write_done"
  /\ EventOf["c_init"] = "data_chunk" /\ EventOf["c_gate"] = "data_chunk"
  /\ EventOf["c_stall"] = "data_chunk" /\ EventOf["c_next"] = "data_chunk"
  /\ EventOf["c_written"] = "write_done" /\ EventOf["c_synced"] = "write_done"
  /\ EventOf["w_wait"] = "output_ready"
BY DEF EventOf

\* A thread that waits is woken by one of the events of E.
Wakes(u, E) == Blocked(pc[u]) /\ EventOf[pc[u]] \in E

\* What a step from a label of thread t to label l does.
LEMMA GotoKernel ==
  ASSUME Kernel, NEW t \in Threads, NEW x, NEW l \in Labels, LabelOf(t, l), NEW E,
         Runs(t, x), Goto(t, l, E)
  PROVE  /\ Kernel' /\ setup' = setup /\ started' = started
         /\ pc[t] = x /\ (WaitsAt(x) => awake[t]) /\ pc'[t] = l /\ ~awake'[t]
         /\ \A u \in Threads : u # t =>
              /\ pc'[u] = pc[u] /\ WaitsAt(pc[u])
              /\ awake'[u] <=> awake[u] \/ Wakes(u, E)
<1>1. /\ pc' = [pc EXCEPT ![t] = l] /\ setup' = setup /\ started' = started
      /\ cpu' = IF Blocked(l) \/ Timed(l) THEN Nobody ELSE t
      /\ awake' = [u \in Threads |->
                    IF u = t THEN FALSE
                    ELSE awake[u] \/ (Blocked(pc[u]) /\ EventOf[pc[u]] \in E)]
  BY DEF Goto
<1>2. pc[t] = x /\ (cpu = t \/ (cpu = Nobody /\ awake[t]))
  BY DEF Runs
<1>3. \A u \in Threads : u # Nobody
  BY DEF Threads, Nobody
<1>4. pc \in [Threads -> Labels] /\ awake \in [Threads -> BOOLEAN]
  BY DEF Kernel
<1>5. pc' \in [Threads -> Labels] /\ pc'[t] = l /\ \A u \in Threads : u # t => pc'[u] = pc[u]
  BY <1>1, <1>4
<1>6. ~awake'[t] /\ \A u \in Threads : u # t => (awake'[u] <=> awake[u] \/ Wakes(u, E))
  BY <1>1, Zenon DEF Wakes
<1>7. awake' \in [Threads -> BOOLEAN]
  <2>1. \A u \in Threads : (awake[u] \/ (Blocked(pc[u]) /\ EventOf[pc[u]] \in E)) \in BOOLEAN
    OBVIOUS
  <2> QED
    BY <1>1, <2>1, Zenon
<1>8. \A u \in Threads : u # t => WaitsAt(pc[u])
  BY <1>2, <1>3, Zenon DEF Kernel
<1>9. WaitsAt(x) => awake[t]
  BY <1>2, Zenon DEF Kernel
<1>10. \A y : WaitsAt(y)' <=> WaitsAt(y)
  BY <1>1 DEF WaitsAt, Timed
<1>11. \A u \in Threads : LabelOf(u, pc[u])'
  BY <1>5, Zenon DEF Kernel, LabelOf
<1>12. \A u \in Threads : (cpu' = u <=> ~WaitsAt(pc'[u])) /\ (cpu' = u => ~awake'[u])
  BY <1>1, <1>3, <1>5, <1>8, Zenon DEF WaitsAt
<1>13. Kernel'
  BY <1>1, <1>10, <1>12 DEF Kernel
<1> QED
  BY <1>1, <1>2, <1>5, <1>6, <1>8, <1>9, <1>13, Zenon

\* The steps of each thread, with what they leave of the others'.
ReadMoves(x, l, E) ==
  /\ Kernel' /\ setup' = setup /\ started' = started
  /\ pc["read"] = x /\ pc'["read"] = l /\ (WaitsAt(x) => awake["read"]) /\ ~awake'["read"]
  /\ pc'["compute"] = pc["compute"] /\ pc'["write"] = pc["write"]
  /\ WaitsAt(pc["compute"]) /\ WaitsAt(pc["write"])
  /\ awake'["compute"] <=> awake["compute"] \/ Wakes("compute", E)
  /\ awake'["write"] <=> awake["write"] \/ Wakes("write", E)
ComputeMoves(x, l, E) ==
  /\ Kernel' /\ setup' = setup /\ started' = started
  /\ pc["compute"] = x /\ pc'["compute"] = l
  /\ (WaitsAt(x) => awake["compute"]) /\ ~awake'["compute"]
  /\ pc'["read"] = pc["read"] /\ pc'["write"] = pc["write"]
  /\ WaitsAt(pc["read"]) /\ WaitsAt(pc["write"])
  /\ awake'["read"] <=> awake["read"] \/ Wakes("read", E)
  /\ awake'["write"] <=> awake["write"] \/ Wakes("write", E)
WriteMoves(x, l, E) ==
  /\ Kernel' /\ setup' = setup /\ started' = started
  /\ pc["write"] = x /\ pc'["write"] = l /\ (WaitsAt(x) => awake["write"]) /\ ~awake'["write"]
  /\ pc'["read"] = pc["read"] /\ pc'["compute"] = pc["compute"]
  /\ WaitsAt(pc["read"]) /\ WaitsAt(pc["compute"])
  /\ awake'["read"] <=> awake["read"] \/ Wakes("read", E)
  /\ awake'["compute"] <=> awake["compute"] \/ Wakes("compute", E)

LEMMA ReadGoes ==
  ASSUME Kernel, NEW x, NEW l \in ReadLabels, NEW E, Runs("read", x), Goto("read", l, E)
  PROVE  ReadMoves(x, l, E)
<1>1. "read" \in Threads /\ "compute" \in Threads /\ "write" \in Threads
      /\ "compute" # "read" /\ "write" # "read"
  BY DEF Threads
<1>2. l \in Labels /\ LabelOf("read", l)
  BY DEF LabelOf, Labels
<1> QED
  BY <1>1, <1>2, GotoKernel, Zenon DEF ReadMoves

LEMMA ComputeGoes ==
  ASSUME Kernel, NEW x, NEW l \in ComputeLabels, NEW E, Runs("compute", x), Goto("compute", l, E)
  PROVE  ComputeMoves(x, l, E)
<1>1. "read" \in Threads /\ "compute" \in Threads /\ "write" \in Threads
      /\ "read" # "compute" /\ "write" # "compute"
  BY DEF Threads
<1>2. l \in Labels /\ LabelOf("compute", l)
  BY DEF LabelOf, Labels
<1> QED
  BY <1>1, <1>2, GotoKernel, Zenon DEF ComputeMoves

LEMMA WriteGoes ==
  ASSUME Kernel, NEW x, NEW l \in WriteLabels, NEW E, Runs("write", x), Goto("write", l, E)
  PROVE  WriteMoves(x, l, E)
<1>1. "read" \in Threads /\ "compute" \in Threads /\ "write" \in Threads
      /\ "read" # "write" /\ "compute" # "write"
  BY DEF Threads
<1>2. l \in Labels /\ LabelOf("write", l)
  BY DEF LabelOf, Labels
<1> QED
  BY <1>1, <1>2, GotoKernel, Zenon DEF WriteMoves

\* Which labels the events wake, and which are waits at all.
LEMMA Wakeful ==
  ASSUME NEW u
  PROVE  /\ ~Wakes(u, {})
         /\ Wakes(u, {"data_chunk"}) <=> pc[u] \in {"c_init", "c_gate", "c_stall", "c_next"}
         /\ Wakes(u, {"compute_done", "output_ready"}) <=> pc[u] \in {"r_computed", "w_wait"}
         /\ Wakes(u, {"write_done"}) <=> pc[u] \in {"r_written", "c_written", "c_synced"}
BY BlockedLabels, Events DEF Wakes

LEMMA WaitLabels ==
  /\ \A l \in {"r_start", "r_computed", "r_written", "c_start", "c_init", "c_gate", "c_stall",
               "c_written", "c_next", "c_synced", "w_wait", "r_image", "r_tiled", "c_batch"} :
       WaitsAt(l)
  /\ \A l \in {"r_layer", "r_ran", "r_loaded", "r_free", "r_next", "c_layer", "c_check", "c_loop",
               "c_done", "c_free", "c_sub", "w_done"} : ~WaitsAt(l)
BY BlockedLabels DEF WaitsAt, Timed

LEMMA SetupFrame ==
  ASSUME setup' = setup
  PROVE  net' = net /\ Groups' = Groups /\ PlainGroups' = PlainGroups
BY DEF net, Groups, PlainGroups

LEMMA NetFacts ==
  ASSUME Kernel
  PROVE  /\ Len(net) \in Nat \ {0} /\ Groups \subseteq Nat
         /\ \A g : g \in Groups <=> g \in Nat /\ 1 <= g /\ g <= Len(net)
         /\ PlainGroups \subseteq Groups
         /\ \A g \in Groups : /\ net[g] \in Group
                              /\ net[g].chunks \in Nat \ {0}
                              /\ Len(net[g].writes) \in Nat \ {0}
                              /\ g \in PlainGroups <=> net[g].path = "plain"
<1>1. net \in Seq(Group) \ {<<>>}
  BY DEF Kernel, Setup, net
<1>2. Len(net) \in Nat \ {0} /\ \A g \in 1 .. Len(net) : net[g] \in Group
  BY <1>1
<1>3. \A h \in Group : h.chunks \in Nat \ {0} /\ Len(h.writes) \in Nat \ {0}
  BY DEF Group
<1> QED
  BY <1>2, <1>3 DEF Groups, PlainGroups

----------------------------------------------------------------------------
(* Where each step goes *)

LEMMA ReadStartMoves ==
  ASSUME Kernel, ReadStart
  PROVE  ReadMoves("r_start", "r_image", {})
BY ReadGoes DEF ReadStart, ReadLabels, AtGroup

LEMMA ReadImageMoves ==
  ASSUME Kernel, ReadImage
  PROVE  ReadMoves("r_image", "r_layer", {})
BY ReadGoes DEF ReadImage, ReadLabels, AtGroup

LEMMA ReadTiledMoves ==
  ASSUME Kernel, ReadTiled
  PROVE  \E x \in {"r_tiled", "r_ran"} : ReadMoves(x, "r_layer", {})
BY ReadGoes DEF ReadTiled, ReadLabels, AtGroup

LEMMA ReadFreeMoves ==
  ASSUME Kernel, ReadFree
  PROVE  \E x \in {"r_computed", "r_free"}, l \in {"r_written", "r_next"} : ReadMoves(x, l, {})
BY ReadGoes DEF ReadFree, ReadLabels, AtGroup

LEMMA ReadNextMoves ==
  ASSUME Kernel, ReadNext
  PROVE  \E x \in {"r_written", "r_next"} : ReadMoves(x, "r_layer", {})
BY ReadGoes DEF ReadNext, ReadLabels, AtGroup

LEMMA ReadFinishMoves ==
  ASSUME Kernel, ReadFinish
  PROVE  ReadMoves("r_layer", "r_start", {"data_chunk"})
BY ReadGoes DEF ReadFinish, ReadLabels, AtGroup

LEMMA ComputeStartMoves ==
  ASSUME Kernel, ComputeStart
  PROVE  ComputeMoves("c_start", "c_init", {})
BY ComputeGoes DEF ComputeStart, ComputeLabels

LEMMA ComputeInitMoves ==
  ASSUME Kernel, ComputeInit
  PROVE  ComputeMoves("c_init", "c_layer", {})
BY ComputeGoes DEF ComputeInit, ComputeLabels

LEMMA ComputeSkipMoves ==
  ASSUME Kernel, ComputeSkip
  PROVE  ComputeMoves("c_layer", "c_layer", {})
BY ComputeGoes DEF ComputeSkip, ComputeLabels

LEMMA ComputeLayerMoves ==
  ASSUME Kernel, ComputeLayer
  PROVE  ComputeMoves("c_layer", "c_check", {})
BY ComputeGoes DEF ComputeLayer, ComputeLabels, WorkLabels

LEMMA ComputeGateMoves ==
  ASSUME Kernel, ComputeGate
  PROVE  \E x \in {"c_check", "c_gate"}, l \in {"c_loop", "c_gate"} : ComputeMoves(x, l, {})
BY ComputeGoes DEF ComputeGate, ComputeLabels, WorkLabels

LEMMA ComputeLoopMoves ==
  ASSUME Kernel, ComputeLoop
  PROVE  \E x \in {"c_loop", "c_stall", "c_batch"}, l \in {"c_done", "c_stall", "c_batch"} :
           ComputeMoves(x, l, {})
BY ComputeGoes DEF ComputeLoop, ComputeLabels, WorkLabels

LEMMA ComputeFreeMoves ==
  ASSUME Kernel, ComputeFree
  PROVE  \E x \in {"c_written", "c_free"}, l \in {"c_next", "c_sub"} : ComputeMoves(x, l, {})
BY ComputeGoes DEF ComputeFree, ComputeLabels, AfterLabels

LEMMA ComputeSubMoves ==
  ASSUME Kernel, ComputeSub
  PROVE  \E x \in {"c_next", "c_sub"} :
           ComputeMoves(x, "c_synced", {"compute_done", "output_ready"})
BY ComputeGoes DEF ComputeSub, ComputeLabels, AfterLabels

LEMMA ComputeSyncedMoves ==
  ASSUME Kernel, ComputeSynced
  PROVE  ComputeMoves("c_synced", "c_sub", {})
BY ComputeGoes DEF ComputeSynced, ComputeLabels, AfterLabels

LEMMA ComputeNextMoves ==
  ASSUME Kernel, ComputeNext
  PROVE  \E x \in {"c_next", "c_sub"} : ComputeMoves(x, "c_layer", {})
BY ComputeGoes DEF ComputeNext, ComputeLabels

LEMMA ComputeFinishMoves ==
  ASSUME Kernel, ComputeFinish
  PROVE  ComputeMoves("c_layer", "c_start", {})
BY ComputeGoes DEF ComputeFinish, ComputeLabels

LEMMA WriteStartMoves ==
  ASSUME Kernel, WriteStart
  PROVE  \E l \in {"w_dma", "w_done"} : WriteMoves("w_wait", l, {})
BY WriteGoes DEF WriteStart, WriteLabels

LEMMA WriteDoneMoves ==
  ASSUME Kernel, WriteDone
  PROVE  \E x \in {"w_dma", "w_done"} : WriteMoves(x, "w_wait", {"write_done"})
BY WriteGoes DEF WriteDone, WriteLabels

LEMMA ReadLayerMoves ==
  ASSUME Kernel, ReadLayer
  PROVE  /\ rG \in Groups
         /\ \/ rG \in PlainGroups /\ ReadMoves("r_layer", "r_chunk", {})
            \/ rG \notin PlainGroups /\ \E l \in {"r_tiled", "r_ran"} : ReadMoves("r_layer", l, {})
<1>1. rG \in Groups /\ Runs("read", "r_layer") /\ net[rG].path \in {"plain", "tiled", "fused"}
  BY NetFacts DEF ReadLayer, Group
<1>2. \/ net[rG].path = "plain" /\ Goto("read", "r_chunk", {})
      \/ net[rG].path = "tiled" /\ Goto("read", "r_tiled", {})
      \/ net[rG].path = "fused" /\ Goto("read", "r_ran", {})
  BY <1>1 DEF ReadLayer
<1>3. \A l \in {"r_chunk", "r_tiled", "r_ran"} : l \in ReadLabels
  BY DEF ReadLabels, AtGroup
<1>4. rG \in PlainGroups <=> net[rG].path = "plain"
  BY <1>1, NetFacts
<1> QED
  BY <1>1, <1>2, <1>3, <1>4, ReadGoes

LEMMA ReadChunkMoves ==
  ASSUME Kernel, ReadChunk
  PROVE  \/ allLoaded' /\ ReadMoves("r_chunk", "r_loaded", {"data_chunk"})
         \/ ~allLoaded' /\ ReadMoves("r_chunk", "r_chunk", {"data_chunk"})
BY ReadGoes DEF ReadChunk, ReadLabels, AtGroup

LEMMA ReadLoadedMoves ==
  ASSUME Kernel, ReadLoaded
  PROVE  \/ computeDone /\ ReadMoves("r_loaded", "r_free", {})
         \/ ~computeDone /\ ReadMoves("r_loaded", "r_computed", {})
BY ReadGoes DEF ReadLoaded, ReadLabels, AtGroup

LEMMA ComputeDoneMoves ==
  ASSUME Kernel, ComputeDone
  PROVE  \E l \in {"c_free", "c_written"} :
           /\ ComputeMoves("c_done", l, {"compute_done", "output_ready"})
           /\ ~setup.doubleBuffer => l = "c_written"
<1>1. PICK l \in {"c_free", "c_written"} :
        /\ Goto("compute", l, {"compute_done", "output_ready"})
        /\ ~setup.doubleBuffer => l = "c_written"
  BY Zenon DEF ComputeDone
<1> QED
  BY ComputeGoes DEF ComputeDone, ComputeLabels, AfterLabels

----------------------------------------------------------------------------
(* Every step keeps the threading *)

\* What a step leaves alone.
LEMMA ThreadingFrame ==
  ASSUME Threading, net' = net, Groups' = Groups, PlainGroups' = PlainGroups
  PROVE  /\ UNCHANGED <<loaded, pending, consumed, rChunk>> => Numbers'
         /\ UNCHANGED <<allLoaded, computeDone, outputHeld, streamsDone, active, allDone>> => Flags'
         /\ UNCHANGED <<rG, cG, ran, computed, misfed>> => Positions'
         /\ UNCHANGED rG /\ pc'["read"] = pc["read"] => ReadPlace'
         /\ UNCHANGED cG /\ pc'["compute"] = pc["compute"] => ComputePlace'
<1>1. UNCHANGED <<loaded, pending, consumed, rChunk>> => Numbers'
  BY DEF Threading, Numbers
<1>2. UNCHANGED <<allLoaded, computeDone, outputHeld, streamsDone, active, allDone>> => Flags'
  BY DEF Threading, Flags
<1>3. UNCHANGED <<rG, cG, ran, computed, misfed>> => Positions'
  BY DEF Threading, Positions
<1>4. UNCHANGED rG /\ pc'["read"] = pc["read"] => ReadPlace'
  BY DEF Threading, ReadPlace
<1>5. UNCHANGED cG /\ pc'["compute"] = pc["compute"] => ComputePlace'
  BY DEF Threading, ComputePlace
<1> QED
  BY <1>1, <1>2, <1>3, <1>4, <1>5

LEMMA ReadStartThreading == Threading /\ ReadStart => Threading'
<1> SUFFICES ASSUME Threading, ReadStart PROVE Threading'
  OBVIOUS
<1>0. Kernel
  BY DEF Threading
<1>1. ReadMoves("r_start", "r_image", {})
  BY <1>0, ReadStartMoves
<1>2. Kernel' /\ net' = net /\ Groups' = Groups /\ PlainGroups' = PlainGroups
  BY <1>1, SetupFrame DEF ReadMoves
<1>3. Flags'
  BY Zenon DEF Threading, Flags, SetRunning, ReadStart
<1>4. ReadPlace'
  BY <1>1, WaitLabels DEF Threading, ReadPlace, ReadMoves, ReadStart, readVars,
     AtGroup
<1>5. Numbers' /\ ComputePlace'
  BY <1>1, <1>2, ThreadingFrame DEF ReadMoves, ReadStart
<1>6. Positions'
  BY <1>0, <1>2, NetFacts DEF Threading, Positions, ReadStart
<1> QED
  BY <1>2, <1>3, <1>4, <1>5, <1>6 DEF Threading

LEMMA ReadImageThreading == Threading /\ ReadImage => Threading'
<1> SUFFICES ASSUME Threading, ReadImage PROVE Threading'
  OBVIOUS
<1>0. Kernel
  BY DEF Threading
<1>1. ReadMoves("r_image", "r_layer", {})
  BY <1>0, ReadImageMoves
<1>2. Kernel' /\ net' = net /\ Groups' = Groups /\ PlainGroups' = PlainGroups
  BY <1>1, SetupFrame DEF ReadMoves
<1>3. Positions'
  BY <1>2 DEF Threading, Positions, ReadImage, computeVars
<1>4. ReadPlace'
  BY <1>1 DEF ReadPlace, ReadMoves, ReadImage, AtGroup
<1>5. Numbers' /\ Flags' /\ ComputePlace'
  BY <1>1, <1>2, ThreadingFrame DEF ReadMoves, ReadImage, shared, computeVars
<1> QED
  BY <1>2, <1>3, <1>4, <1>5 DEF Threading

LEMMA ReadLayerThreading == Threading /\ ReadLayer => Threading'
<1> SUFFICES ASSUME Threading, ReadLayer PROVE Threading'
  OBVIOUS
<1>0. Kernel
  BY DEF Threading
<1>1. PICK l \in {"r_chunk", "r_tiled", "r_ran"} : ReadMoves("r_layer", l, {})
  BY <1>0, ReadLayerMoves
<1>2. Kernel' /\ net' = net /\ Groups' = Groups /\ PlainGroups' = PlainGroups
  BY <1>1, SetupFrame DEF ReadMoves
<1>3. Numbers'
  BY DEF Threading, Numbers, ReadLayer, computeVars
<1>4. Flags'
  BY Zenon DEF Threading, Flags, SetRunning, ReadLayer
<1>5. ReadPlace'
  BY <1>2, ReadLayerMoves DEF Threading, ReadPlace, ReadMoves, ReadLayer, AtGroup
<1>6. Positions' /\ ComputePlace'
  BY <1>1, <1>2, ThreadingFrame DEF ReadMoves, ReadLayer, computeVars
<1> QED
  BY <1>2, <1>3, <1>4, <1>5, <1>6 DEF Threading

LEMMA ReadTiledThreading == Threading /\ ReadTiled => Threading'
<1> SUFFICES ASSUME Threading, ReadTiled PROVE Threading'
  OBVIOUS
<1>0. Kernel
  BY DEF Threading
<1>1. PICK x \in {"r_tiled", "r_ran"} : ReadMoves(x, "r_layer", {})
  BY <1>0, ReadTiledMoves
<1>2. Kernel' /\ net' = net /\ Groups' = Groups /\ PlainGroups' = PlainGroups
  BY <1>1, SetupFrame DEF ReadMoves
<1>3. Positions'
  BY <1>1, <1>2, NetFacts DEF Threading, Positions, ReadPlace, ReadMoves, ReadTiled,
     computeVars
<1>4. ReadPlace'
  BY <1>1 DEF Threading, Positions, ReadPlace, ReadMoves, ReadTiled, AtGroup
<1>5. Numbers' /\ Flags' /\ ComputePlace'
  BY <1>1, <1>2, ThreadingFrame DEF ReadMoves, ReadTiled, shared, computeVars
<1> QED
  BY <1>2, <1>3, <1>4, <1>5 DEF Threading

LEMMA ReadChunkThreading == Threading /\ ReadChunk => Threading'
<1> SUFFICES ASSUME Threading, ReadChunk PROVE Threading'
  OBVIOUS
<1>0. Kernel
  BY DEF Threading
<1>1. PICK l \in {"r_chunk", "r_loaded"} : ReadMoves("r_chunk", l, {"data_chunk"})
  BY <1>0, ReadChunkMoves
<1>2. Kernel' /\ net' = net /\ Groups' = Groups /\ PlainGroups' = PlainGroups
  BY <1>1, SetupFrame DEF ReadMoves
<1>3. Numbers'
  BY DEF Threading, Numbers, ReadChunk, computeVars
<1>4. Flags'
  BY Zenon DEF Threading, Flags, ReadChunk
<1>5. ReadPlace'
  BY <1>1, <1>2 DEF Threading, ReadPlace, ReadMoves, ReadChunk, AtGroup
<1>6. Positions' /\ ComputePlace'
  BY <1>1, <1>2, ThreadingFrame DEF ReadMoves, ReadChunk, computeVars
<1> QED
  BY <1>2, <1>3, <1>4, <1>5, <1>6 DEF Threading

LEMMA ReadLoadedThreading == Threading /\ ReadLoaded => Threading'
<1> SUFFICES ASSUME Threading, ReadLoaded PROVE Threading'
  OBVIOUS
<1>0. Kernel
  BY DEF Threading
<1>1. PICK l \in {"r_free", "r_computed"} : ReadMoves("r_loaded", l, {})
  BY <1>0, ReadLoadedMoves
<1>2. Kernel' /\ net' = net /\ Groups' = Groups /\ PlainGroups' = PlainGroups
  BY <1>1, SetupFrame DEF ReadMoves
<1>3. ReadPlace'
  BY <1>1, <1>2 DEF Threading, ReadPlace, ReadMoves, ReadLoaded, readVars, AtGroup
<1>4. Numbers' /\ Flags' /\ Positions' /\ ComputePlace'
  BY <1>1, <1>2, ThreadingFrame DEF ReadMoves, ReadLoaded, shared, readVars, computeVars
<1> QED
  BY <1>2, <1>3, <1>4 DEF Threading

LEMMA ReadFreeThreading == Threading /\ ReadFree => Threading'
<1> SUFFICES ASSUME Threading, ReadFree PROVE Threading'
  OBVIOUS
<1>0. Kernel
  BY DEF Threading
<1>1. PICK x \in {"r_computed", "r_free"}, l \in {"r_written", "r_next"} : ReadMoves(x, l, {})
  BY <1>0, ReadFreeMoves
<1>2. Kernel' /\ net' = net /\ Groups' = Groups /\ PlainGroups' = PlainGroups
  BY <1>1, SetupFrame DEF ReadMoves
<1>3. Numbers'
  BY DEF Threading, Numbers, ReadFree, readVars, computeVars
<1>4. ReadPlace'
  BY <1>1, <1>2 DEF Threading, ReadPlace, ReadMoves, ReadFree, readVars, AtGroup
<1>5. Flags' /\ Positions' /\ ComputePlace'
  BY <1>1, <1>2, ThreadingFrame DEF ReadMoves, ReadFree, readVars, computeVars
<1> QED
  BY <1>2, <1>3, <1>4, <1>5 DEF Threading

LEMMA ReadNextThreading == Threading /\ ReadNext => Threading'
<1> SUFFICES ASSUME Threading, ReadNext PROVE Threading'
  OBVIOUS
<1>0. Kernel
  BY DEF Threading
<1>1. PICK x \in {"r_written", "r_next"} : ReadMoves(x, "r_layer", {})
  BY <1>0, ReadNextMoves
<1>2. Kernel' /\ net' = net /\ Groups' = Groups /\ PlainGroups' = PlainGroups
  BY <1>1, SetupFrame DEF ReadMoves
<1>3. Positions'
  BY <1>1, <1>2, NetFacts DEF Threading, Positions, ReadPlace, ReadMoves, ReadNext,
     computeVars, AtGroup
<1>4. ReadPlace'
  BY <1>1 DEF Threading, Positions, ReadPlace, ReadMoves, ReadNext, AtGroup
<1>5. Numbers' /\ Flags' /\ ComputePlace'
  BY <1>1, <1>2, ThreadingFrame DEF ReadMoves, ReadNext, shared, computeVars
<1> QED
  BY <1>2, <1>3, <1>4, <1>5 DEF Threading

LEMMA ReadFinishThreading == Threading /\ ReadFinish => Threading'
<1> SUFFICES ASSUME Threading, ReadFinish PROVE Threading'
  OBVIOUS
<1>0. Kernel
  BY DEF Threading
<1>1. ReadMoves("r_layer", "r_start", {"data_chunk"})
  BY <1>0, ReadFinishMoves
<1>2. Kernel' /\ net' = net /\ Groups' = Groups /\ PlainGroups' = PlainGroups
  BY <1>1, SetupFrame DEF ReadMoves
<1>3. Flags'
  BY Zenon DEF Threading, Flags, Finalize, ReadFinish
<1>4. ReadPlace'
  BY <1>1, <1>2 DEF ReadPlace, ReadMoves, ReadFinish, readVars, AtGroup
<1>5. Numbers' /\ Positions' /\ ComputePlace'
  BY <1>1, <1>2, ThreadingFrame DEF ReadMoves, ReadFinish, readVars, computeVars
<1> QED
  BY <1>2, <1>3, <1>4, <1>5 DEF Threading

LEMMA ComputeStartThreading == Threading /\ ComputeStart => Threading'
<1> SUFFICES ASSUME Threading, ComputeStart PROVE Threading'
  OBVIOUS
<1>0. Kernel
  BY DEF Threading
<1>1. ComputeMoves("c_start", "c_init", {})
  BY <1>0, ComputeStartMoves
<1>2. Kernel' /\ net' = net /\ Groups' = Groups /\ PlainGroups' = PlainGroups
  BY <1>1, SetupFrame DEF ComputeMoves
<1>3. ComputePlace'
  BY <1>1, WaitLabels DEF Threading, ComputePlace, ComputeMoves, ComputeStart,
     computeVars, WorkLabels, AfterLabels
<1>4. Numbers' /\ Flags' /\ ReadPlace'
  BY <1>1, <1>2, ThreadingFrame DEF ComputeMoves, ComputeStart, shared, readVars
<1>5. Positions'
  BY <1>0, <1>2, NetFacts DEF Threading, Positions, ComputeStart, readVars
<1> QED
  BY <1>2, <1>3, <1>4, <1>5 DEF Threading

LEMMA ComputeInitThreading == Threading /\ ComputeInit => Threading'
<1> SUFFICES ASSUME Threading, ComputeInit PROVE Threading'
  OBVIOUS
<1>0. Kernel
  BY DEF Threading
<1>1. ComputeMoves("c_init", "c_layer", {})
  BY <1>0, ComputeInitMoves
<1>2. Kernel' /\ net' = net /\ Groups' = Groups /\ PlainGroups' = PlainGroups
  BY <1>1, SetupFrame DEF ComputeMoves
<1>3. Flags'
  BY Zenon DEF Threading, Flags, ComputeInit
<1>4. Positions'
  BY <1>2 DEF Threading, Positions, ComputeInit, readVars
<1>5. ComputePlace'
  BY <1>1 DEF ComputePlace, ComputeMoves, ComputeInit, WorkLabels, AfterLabels
<1>6. Numbers' /\ ReadPlace'
  BY <1>1, <1>2, ThreadingFrame DEF ComputeMoves, ComputeInit, readVars
<1> QED
  BY <1>2, <1>3, <1>4, <1>5, <1>6 DEF Threading

LEMMA ComputeSkipThreading == Threading /\ ComputeSkip => Threading'
<1> SUFFICES ASSUME Threading, ComputeSkip PROVE Threading'
  OBVIOUS
<1>0. Kernel
  BY DEF Threading
<1>1. ComputeMoves("c_layer", "c_layer", {})
  BY <1>0, ComputeSkipMoves
<1>2. Kernel' /\ net' = net /\ Groups' = Groups /\ PlainGroups' = PlainGroups
  BY <1>1, SetupFrame DEF ComputeMoves
<1>3. Flags'
  BY Zenon DEF Threading, Flags, SetRunning, ComputeSkip
<1>4. Positions'
  BY <1>2, NetFacts DEF Threading, Positions, ComputeSkip, readVars
<1>5. ComputePlace'
  BY <1>1, NetFacts DEF Threading, ComputePlace, ComputeMoves, ComputeSkip
<1>6. Numbers' /\ ReadPlace'
  BY <1>1, <1>2, ThreadingFrame DEF ComputeMoves, ComputeSkip, readVars
<1> QED
  BY <1>2, <1>3, <1>4, <1>5, <1>6 DEF Threading

LEMMA ComputeLayerThreading == Threading /\ ComputeLayer => Threading'
<1> SUFFICES ASSUME Threading, ComputeLayer PROVE Threading'
  OBVIOUS
<1>0. Kernel
  BY DEF Threading
<1>1. ComputeMoves("c_layer", "c_check", {})
  BY <1>0, ComputeLayerMoves
<1>2. Kernel' /\ net' = net /\ Groups' = Groups /\ PlainGroups' = PlainGroups
  BY <1>1, SetupFrame DEF ComputeMoves
<1>3. Numbers'
  BY DEF Threading, Numbers, ComputeLayer, readVars
<1>4. Flags'
  BY Zenon DEF Threading, Flags, SetRunning, ComputeLayer
<1>5. ComputePlace'
  BY <1>0, <1>1, <1>2, NetFacts DEF ComputePlace, ComputeMoves, ComputeLayer
<1>6. Positions' /\ ReadPlace'
  BY <1>1, <1>2, ThreadingFrame DEF ComputeMoves, ComputeLayer, readVars
<1> QED
  BY <1>2, <1>3, <1>4, <1>5, <1>6 DEF Threading

LEMMA ComputeGateThreading == Threading /\ ComputeGate => Threading'
<1> SUFFICES ASSUME Threading, ComputeGate PROVE Threading'
  OBVIOUS
<1>0. Kernel
  BY DEF Threading
<1>1. PICK x \in {"c_check", "c_gate"}, l \in {"c_loop", "c_gate"} : ComputeMoves(x, l, {})
  BY <1>0, ComputeGateMoves
<1>2. Kernel' /\ net' = net /\ Groups' = Groups /\ PlainGroups' = PlainGroups
  BY <1>1, SetupFrame DEF ComputeMoves
<1>3. ComputePlace'
  BY <1>1, <1>2 DEF Threading, ComputePlace, ComputeMoves, ComputeGate, computeVars,
     WorkLabels
<1>4. Numbers' /\ Flags' /\ Positions' /\ ReadPlace'
  BY <1>1, <1>2, ThreadingFrame DEF ComputeMoves, ComputeGate, shared, readVars, computeVars
<1> QED
  BY <1>2, <1>3, <1>4 DEF Threading

LEMMA ComputeLoopThreading == Threading /\ ComputeLoop => Threading'
<1> SUFFICES ASSUME Threading, ComputeLoop PROVE Threading'
  OBVIOUS
<1>0. Kernel
  BY DEF Threading
<1>1. PICK x \in {"c_loop", "c_stall", "c_batch"}, l \in {"c_done", "c_stall", "c_batch"} :
        ComputeMoves(x, l, {})
  BY <1>0, ComputeLoopMoves
<1>2. Kernel' /\ net' = net /\ Groups' = Groups /\ PlainGroups' = PlainGroups
  BY <1>1, SetupFrame DEF ComputeMoves
<1>3. Numbers'
  <2>1. net[cG].chunks \in Nat /\ loaded \in Nat /\ consumed \in Nat
    BY <1>1, NetFacts DEF Threading, Numbers, ComputePlace, ComputeMoves, WorkLabels
  <2>2. consumed' \in Nat
    BY <2>1 DEF ComputeLoop
  <2> QED
    BY <2>2 DEF Threading, Numbers, ComputeLoop, readVars
<1>4. Flags'
  BY Zenon DEF Threading, Flags, ComputeLoop
<1>5. Positions'
  BY <1>1, <1>2, NetFacts DEF Threading, Positions, ComputePlace, ComputeMoves, ComputeLoop,
     readVars, WorkLabels
<1>6. ComputePlace'
  BY <1>1, <1>2 DEF Threading, ComputePlace, ComputeMoves, ComputeLoop, WorkLabels
<1>7. ReadPlace'
  BY <1>1, <1>2, ThreadingFrame DEF ComputeMoves, ComputeLoop, readVars
<1> QED
  BY <1>2, <1>3, <1>4, <1>5, <1>6, <1>7 DEF Threading

LEMMA ComputeDoneThreading == Threading /\ ComputeDone => Threading'
<1> SUFFICES ASSUME Threading, ComputeDone PROVE Threading'
  OBVIOUS
<1>0. Kernel
  BY DEF Threading
<1>1. PICK l \in {"c_free", "c_written"} :
        ComputeMoves("c_done", l, {"compute_done", "output_ready"})
  BY <1>0, ComputeDoneMoves
<1>2. Kernel' /\ net' = net /\ Groups' = Groups /\ PlainGroups' = PlainGroups
  BY <1>1, SetupFrame DEF ComputeMoves
<1>3. Numbers'
  BY DEF Threading, Numbers, HandOver, ComputeDone, readVars
<1>4. Flags'
  BY Zenon DEF Threading, Flags, SetRunning, HandOver, ComputeDone
<1>5. Positions'
  BY <1>1, <1>2, NetFacts DEF Threading, Positions, ComputePlace, ComputeMoves, ComputeDone,
     readVars, WorkLabels
<1>6. ComputePlace'
  BY <1>1, <1>2 DEF Threading, ComputePlace, ComputeMoves, ComputeDone, WorkLabels
<1>7. ReadPlace'
  BY <1>1, <1>2, ThreadingFrame DEF ComputeMoves, ComputeDone, readVars
<1> QED
  BY <1>2, <1>3, <1>4, <1>5, <1>6, <1>7 DEF Threading

LEMMA ComputeFreeThreading == Threading /\ ComputeFree => Threading'
<1> SUFFICES ASSUME Threading, ComputeFree PROVE Threading'
  OBVIOUS
<1>0. Kernel
  BY DEF Threading
<1>1. PICK x \in {"c_written", "c_free"}, l \in {"c_next", "c_sub"} : ComputeMoves(x, l, {})
  BY <1>0, ComputeFreeMoves
<1>2. Kernel' /\ net' = net /\ Groups' = Groups /\ PlainGroups' = PlainGroups
  BY <1>1, SetupFrame DEF ComputeMoves
<1>3. Numbers'
  BY DEF Threading, Numbers, ComputeFree, readVars, computeVars
<1>4. ComputePlace'
  BY <1>1, <1>2 DEF Threading, ComputePlace, ComputeMoves, ComputeFree, computeVars,
     AfterLabels
<1>5. Flags' /\ Positions' /\ ReadPlace'
  BY <1>1, <1>2, ThreadingFrame DEF ComputeMoves, ComputeFree, readVars, computeVars
<1> QED
  BY <1>2, <1>3, <1>4, <1>5 DEF Threading

LEMMA ComputeSubThreading == Threading /\ ComputeSub => Threading'
<1> SUFFICES ASSUME Threading, ComputeSub PROVE Threading'
  OBVIOUS
<1>0. Kernel
  BY DEF Threading
<1>1. PICK x \in {"c_next", "c_sub"} : ComputeMoves(x, "c_synced", {"compute_done", "output_ready"})
  BY <1>0, ComputeSubMoves
<1>2. Kernel' /\ net' = net /\ Groups' = Groups /\ PlainGroups' = PlainGroups
  BY <1>1, SetupFrame DEF ComputeMoves
<1>3. Numbers'
  BY DEF Threading, Numbers, HandOver, ComputeSub, readVars
<1>4. Flags'
  BY Zenon DEF Threading, Flags, SetRunning, HandOver, ComputeSub
<1>5. ComputePlace'
  BY <1>1, <1>2 DEF Threading, ComputePlace, ComputeMoves, ComputeSub, AfterLabels
<1>6. Positions' /\ ReadPlace'
  BY <1>1, <1>2, ThreadingFrame DEF ComputeMoves, ComputeSub, readVars
<1> QED
  BY <1>2, <1>3, <1>4, <1>5, <1>6 DEF Threading

LEMMA ComputeSyncedThreading == Threading /\ ComputeSynced => Threading'
<1> SUFFICES ASSUME Threading, ComputeSynced PROVE Threading'
  OBVIOUS
<1>0. Kernel
  BY DEF Threading
<1>1. ComputeMoves("c_synced", "c_sub", {})
  BY <1>0, ComputeSyncedMoves
<1>2. Kernel' /\ net' = net /\ Groups' = Groups /\ PlainGroups' = PlainGroups
  BY <1>1, SetupFrame DEF ComputeMoves
<1>3. Numbers'
  BY DEF Threading, Numbers, ComputeSynced, readVars, computeVars
<1>4. ComputePlace'
  BY <1>1, <1>2 DEF Threading, ComputePlace, ComputeMoves, ComputeSynced, computeVars,
     AfterLabels
<1>5. Flags' /\ Positions' /\ ReadPlace'
  BY <1>1, <1>2, ThreadingFrame DEF ComputeMoves, ComputeSynced, readVars, computeVars
<1> QED
  BY <1>2, <1>3, <1>4, <1>5 DEF Threading

LEMMA ComputeNextThreading == Threading /\ ComputeNext => Threading'
<1> SUFFICES ASSUME Threading, ComputeNext PROVE Threading'
  OBVIOUS
<1>0. Kernel
  BY DEF Threading
<1>1. PICK x \in {"c_next", "c_sub"} : ComputeMoves(x, "c_layer", {})
  BY <1>0, ComputeNextMoves
<1>2. Kernel' /\ net' = net /\ Groups' = Groups /\ PlainGroups' = PlainGroups
  BY <1>1, SetupFrame DEF ComputeMoves
<1>3. Positions'
  BY <1>1, <1>2, NetFacts DEF Threading, Positions, ComputePlace, ComputeMoves, ComputeNext,
     readVars, AfterLabels
<1>4. ComputePlace'
  BY <1>1 DEF Threading, Positions, ComputePlace, ComputeMoves, ComputeNext, WorkLabels,
     AfterLabels
<1>5. Numbers' /\ Flags' /\ ReadPlace'
  BY <1>1, <1>2, ThreadingFrame DEF ComputeMoves, ComputeNext, shared, readVars
<1> QED
  BY <1>2, <1>3, <1>4, <1>5 DEF Threading

LEMMA ComputeFinishThreading == Threading /\ ComputeFinish => Threading'
<1> SUFFICES ASSUME Threading, ComputeFinish PROVE Threading'
  OBVIOUS
<1>0. Kernel
  BY DEF Threading
<1>1. ComputeMoves("c_layer", "c_start", {})
  BY <1>0, ComputeFinishMoves
<1>2. Kernel' /\ net' = net /\ Groups' = Groups /\ PlainGroups' = PlainGroups
  BY <1>1, SetupFrame DEF ComputeMoves
<1>3. Flags'
  BY Zenon DEF Threading, Flags, Finalize, ComputeFinish
<1>4. ComputePlace'
  BY <1>1, <1>2 DEF ComputePlace, ComputeMoves, ComputeFinish, computeVars, WorkLabels,
     AfterLabels
<1>5. Numbers' /\ Positions' /\ ReadPlace'
  BY <1>1, <1>2, ThreadingFrame DEF ComputeMoves, ComputeFinish, readVars, computeVars
<1> QED
  BY <1>2, <1>3, <1>4, <1>5 DEF Threading

LEMMA WriteStartThreading == Threading /\ WriteStart => Threading'
<1> SUFFICES ASSUME Threading, WriteStart PROVE Threading'
  OBVIOUS
<1>0. Kernel
  BY DEF Threading
<1>1. PICK l \in {"w_dma", "w_done"} : WriteMoves("w_wait", l, {})
  BY <1>0, WriteStartMoves
<1>2. Kernel' /\ net' = net /\ Groups' = Groups /\ PlainGroups' = PlainGroups
  BY <1>1, SetupFrame DEF WriteMoves
<1>3. Numbers' /\ Flags' /\ Positions' /\ ReadPlace' /\ ComputePlace'
  BY <1>1, <1>2, ThreadingFrame DEF WriteMoves, WriteStart, shared, readVars, computeVars
<1> QED
  BY <1>2, <1>3 DEF Threading

LEMMA WriteDoneThreading == Threading /\ WriteDone => Threading'
<1> SUFFICES ASSUME Threading, WriteDone PROVE Threading'
  OBVIOUS
<1>0. Kernel
  BY DEF Threading
<1>1. PICK x \in {"w_dma", "w_done"} : WriteMoves(x, "w_wait", {"write_done"})
  BY <1>0, WriteDoneMoves
<1>2. Kernel' /\ net' = net /\ Groups' = Groups /\ PlainGroups' = PlainGroups
  BY <1>1, SetupFrame DEF WriteMoves
<1>3. Numbers'
  BY DEF Threading, Numbers, WriteDone, readVars, computeVars
<1>4. Flags'
  BY Zenon DEF Threading, Flags, Finalize, WriteDone
<1>5. Positions' /\ ReadPlace' /\ ComputePlace'
  BY <1>1, <1>2, ThreadingFrame DEF WriteMoves, WriteDone, readVars, computeVars
<1> QED
  BY <1>2, <1>3, <1>4, <1>5 DEF Threading

LEMMA TickThreading == Threading /\ Tick => Threading'
<1> SUFFICES ASSUME Threading, Tick PROVE Threading'
  OBVIOUS
<1>1. /\ cpu = Nobody /\ \A t \in Threads : ~awake[t]
      /\ UNCHANGED <<setup, started, cpu, pc, shared, readVars, computeVars, writeVars>>
  BY DEF Tick
<1>2. PICK S \in SUBSET Waiting \ {{}} : awake' = [t \in Threads |-> t \in S]
  BY DEF Tick
<1>3. net' = net /\ Groups' = Groups /\ PlainGroups' = PlainGroups
  BY <1>1, SetupFrame
<1>4. Kernel'
  <2>1. awake' \in [Threads -> BOOLEAN]
    <3>1. \A t \in Threads : (t \in S) \in BOOLEAN
      OBVIOUS
    <3> QED
      BY <1>2, <3>1, Zenon
  <2>2. \A t \in Threads : t # Nobody
    BY DEF Threads, Nobody
  <2>3. \A y : WaitsAt(y)' <=> WaitsAt(y)
    BY <1>1 DEF WaitsAt, Timed
  <2> QED
    BY <1>1, <2>1, <2>2, <2>3 DEF Threading, Kernel
<1>5. Numbers' /\ Flags' /\ Positions' /\ ReadPlace' /\ ComputePlace'
  BY <1>1, <1>3, ThreadingFrame DEF shared, readVars, computeVars
<1> QED
  BY <1>4, <1>5 DEF Threading

LEMMA StartThreading == Threading /\ Start => Threading'
<1> SUFFICES ASSUME Threading, Start PROVE Threading'
  OBVIOUS
<1>1. /\ cpu = Nobody /\ started' = started + 1 /\ started < setup.starts
      /\ awake' = [t \in Threads |-> pc[t] \in {"r_start", "c_start"}]
      /\ UNCHANGED <<setup, cpu, pc, shared, readVars, computeVars, writeVars>>
  BY DEF Start
<1>2. net' = net /\ Groups' = Groups /\ PlainGroups' = PlainGroups
  BY <1>1, SetupFrame
<1>3. Kernel'
  <2>1. awake' \in [Threads -> BOOLEAN]
    <3>1. \A t \in Threads : (pc[t] \in {"r_start", "c_start"}) \in BOOLEAN
      OBVIOUS
    <3> QED
      BY <1>1, <3>1, Zenon
  <2>2. \A t \in Threads : t # Nobody
    BY DEF Threads, Nobody
  <2>3. \A y : WaitsAt(y)' <=> WaitsAt(y)
    BY <1>1 DEF WaitsAt, Timed
  <2>4. started' \in 0 .. setup.starts
    <3>1. setup.starts \in Nat /\ started \in 0 .. setup.starts
      BY DEF Threading, Kernel, Setup
    <3> QED
      BY <1>1, <3>1
  <2> QED
    BY <1>1, <2>1, <2>2, <2>3, <2>4 DEF Threading, Kernel
<1>4. Numbers' /\ Flags' /\ Positions' /\ ReadPlace' /\ ComputePlace'
  BY <1>1, <1>2, ThreadingFrame DEF shared, readVars, computeVars
<1> QED
  BY <1>3, <1>4 DEF Threading

LEMMA ResetThreading == Threading /\ Reset => Threading'
<1> SUFFICES ASSUME Threading, Reset PROVE Threading'
  OBVIOUS
<1>1. UNCHANGED <<setup, started, cpu, pc, awake, streamsDone, active, pending>>
      /\ UNCHANGED <<readVars, computeVars, writeVars>>
      /\ loaded' = 0 /\ ~allLoaded' /\ ~computeDone' /\ ~outputHeld' /\ ~allDone'
      /\ allLoaded' \in BOOLEAN /\ computeDone' \in BOOLEAN /\ outputHeld' \in BOOLEAN
      /\ allDone' \in BOOLEAN
  BY Zenon DEF Reset
<1>2. net' = net /\ Groups' = Groups /\ PlainGroups' = PlainGroups
  BY <1>1, SetupFrame
<1>3. Kernel'
  BY <1>1 DEF Threading, Kernel, WaitsAt, Timed
<1>4. Numbers'
  BY <1>1 DEF Threading, Numbers, readVars, computeVars
<1>5. Flags'
  BY <1>1, Zenon DEF Threading, Flags
<1>6. Positions' /\ ReadPlace' /\ ComputePlace'
  BY <1>1, <1>2, ThreadingFrame DEF readVars, computeVars
<1> QED
  BY <1>3, <1>4, <1>5, <1>6 DEF Threading

LEMMA StutterThreading == Threading /\ UNCHANGED vars => Threading'
<1> SUFFICES ASSUME Threading, UNCHANGED vars PROVE Threading'
  OBVIOUS
<1>1. UNCHANGED <<setup, started, cpu, pc, awake, shared, readVars, computeVars, writeVars>>
  BY DEF vars
<1>2. net' = net /\ Groups' = Groups /\ PlainGroups' = PlainGroups
  BY <1>1, SetupFrame
<1>3. Kernel'
  BY <1>1 DEF Threading, Kernel, WaitsAt, Timed
<1>4. Numbers' /\ Flags' /\ Positions' /\ ReadPlace' /\ ComputePlace'
  BY <1>1, <1>2, ThreadingFrame DEF shared, readVars, computeVars
<1> QED
  BY <1>3, <1>4 DEF Threading

LEMMA StepThreading == Threading /\ [Next]_vars => Threading'
<1> SUFFICES ASSUME Threading, [Next]_vars PROVE Threading'
  OBVIOUS
<1>1. CASE Start
  BY <1>1, StartThreading
<1>2. CASE Reset
  BY <1>2, ResetThreading
<1>3. CASE Tick
  BY <1>3, TickThreading
<1>4. CASE ReadStep
  BY <1>4, ReadStartThreading, ReadImageThreading, ReadLayerThreading, ReadTiledThreading,
     ReadChunkThreading, ReadLoadedThreading, ReadFreeThreading, ReadNextThreading,
     ReadFinishThreading DEF ReadStep
<1>5. CASE ComputeStep
  BY <1>5, ComputeStartThreading, ComputeInitThreading, ComputeSkipThreading,
     ComputeLayerThreading, ComputeGateThreading, ComputeLoopThreading,
     ComputeDoneThreading, ComputeFreeThreading, ComputeSubThreading,
     ComputeSyncedThreading, ComputeNextThreading, ComputeFinishThreading DEF ComputeStep
<1>6. CASE WriteStep
  BY <1>6, WriteStartThreading, WriteDoneThreading DEF WriteStep
<1>7. CASE UNCHANGED vars
  BY <1>7, StutterThreading
<1> QED
  BY <1>1, <1>2, <1>3, <1>4, <1>5, <1>6, <1>7 DEF Next, Progress, Idle

----------------------------------------------------------------------------
(* Every step of a network started once keeps it started once *)

LEMMA ReadStartSingleRun == SingleRun /\ ReadStart => Once' /\ Starting'
<1> SUFFICES ASSUME SingleRun, ReadStart PROVE Once' /\ Starting'
  OBVIOUS
<1>0. Kernel
  BY DEF SingleRun, Threading
<1>1. ReadMoves("r_start", "r_image", {})
  BY <1>0, ReadStartMoves
<1>2. Kernel' /\ net' = net /\ Groups' = Groups /\ PlainGroups' = PlainGroups
  BY <1>1, SetupFrame DEF ReadMoves
<1>3. Starting'
  BY <1>1, Wakeful, WaitLabels DEF SingleRun, Threading, Once, Starting, ReadMoves, ReadStart,
     computeVars
<1>4. Once'
  BY <1>1, Wakeful, WaitLabels DEF SingleRun, Threading, Once, ReadMoves, ReadStart, computeVars
<1> QED
  BY <1>3, <1>4

LEMMA ReadImageSingleRun == SingleRun /\ ReadImage => Once' /\ Starting'
<1> SUFFICES ASSUME SingleRun, ReadImage PROVE Once' /\ Starting'
  OBVIOUS
<1>0. Kernel
  BY DEF SingleRun, Threading
<1>1. ReadMoves("r_image", "r_layer", {})
  BY <1>0, ReadImageMoves
<1>2. Kernel' /\ net' = net /\ Groups' = Groups /\ PlainGroups' = PlainGroups
  BY <1>1, SetupFrame DEF ReadMoves
<1>3. Starting'
  BY DEF Starting, ReadImage
<1>4. Once'
  BY <1>1, Wakeful DEF SingleRun, Threading, Once, ReadMoves, ReadImage, shared, computeVars
<1> QED
  BY <1>3, <1>4

LEMMA ReadLayerSingleRun == SingleRun /\ ReadLayer => Once' /\ Starting'
<1> SUFFICES ASSUME SingleRun, ReadLayer PROVE Once' /\ Starting'
  OBVIOUS
<1>0. Kernel
  BY DEF SingleRun, Threading
<1>1. PICK l \in {"r_chunk", "r_tiled", "r_ran"} : ReadMoves("r_layer", l, {})
  BY <1>0, ReadLayerMoves
<1>2. Kernel' /\ net' = net /\ Groups' = Groups /\ PlainGroups' = PlainGroups
  BY <1>1, SetupFrame DEF ReadMoves
<1>3. Starting'
  BY <1>0, NetFacts DEF Starting, ReadLayer
<1>4. Once'
  BY <1>1, Wakeful DEF SingleRun, Threading, Once, ReadMoves, ReadLayer, computeVars
<1> QED
  BY <1>3, <1>4

LEMMA ReadTiledSingleRun == SingleRun /\ ReadTiled => Once' /\ Starting'
<1> SUFFICES ASSUME SingleRun, ReadTiled PROVE Once' /\ Starting'
  OBVIOUS
<1>0. Kernel
  BY DEF SingleRun, Threading
<1>1. PICK x \in {"r_tiled", "r_ran"} : ReadMoves(x, "r_layer", {})
  BY <1>0, ReadTiledMoves
<1>2. Kernel' /\ net' = net /\ Groups' = Groups /\ PlainGroups' = PlainGroups
  BY <1>1, SetupFrame DEF ReadMoves
<1>3. Starting'
  BY DEF SingleRun, Threading, Positions, Starting, ReadTiled
<1>4. Once'
  BY <1>1, Wakeful DEF SingleRun, Threading, Once, ReadMoves, ReadTiled, shared, computeVars
<1> QED
  BY <1>3, <1>4

LEMMA ReadChunkSingleRun == SingleRun /\ ReadChunk => Once' /\ Starting'
<1> SUFFICES ASSUME SingleRun, ReadChunk PROVE Once' /\ Starting'
  OBVIOUS
<1>0. Kernel
  BY DEF SingleRun, Threading
<1>1. PICK l \in {"r_chunk", "r_loaded"} : ReadMoves("r_chunk", l, {"data_chunk"})
  BY <1>0, ReadChunkMoves
<1>2. Kernel' /\ net' = net /\ Groups' = Groups /\ PlainGroups' = PlainGroups
  BY <1>1, SetupFrame DEF ReadMoves
<1>3. Starting'
  BY <1>1, NetFacts DEF SingleRun, Threading, ReadPlace, Starting, ReadMoves, ReadChunk, AtGroup
<1>4. Once'
  BY <1>1, Wakeful DEF SingleRun, Threading, Once, ReadMoves, ReadChunk, computeVars
<1> QED
  BY <1>3, <1>4

LEMMA ReadLoadedSingleRun == SingleRun /\ ReadLoaded => Once' /\ Starting'
<1> SUFFICES ASSUME SingleRun, ReadLoaded PROVE Once' /\ Starting'
  OBVIOUS
<1>0. Kernel
  BY DEF SingleRun, Threading
<1>1. PICK l \in {"r_free", "r_computed"} : ReadMoves("r_loaded", l, {})
  BY <1>0, ReadLoadedMoves
<1>2. Kernel' /\ net' = net /\ Groups' = Groups /\ PlainGroups' = PlainGroups
  BY <1>1, SetupFrame DEF ReadMoves
<1>3. Starting'
  BY <1>1, Wakeful DEF SingleRun, Threading, Starting, ReadMoves, ReadLoaded, readVars, computeVars
<1>4. Once'
  BY <1>1, Wakeful DEF SingleRun, Threading, Once, ReadMoves, ReadLoaded, shared, computeVars
<1> QED
  BY <1>3, <1>4

LEMMA ReadFreeSingleRun == SingleRun /\ ReadFree => Once' /\ Starting'
<1> SUFFICES ASSUME SingleRun, ReadFree PROVE Once' /\ Starting'
  OBVIOUS
<1>0. Kernel
  BY DEF SingleRun, Threading
<1>1. PICK x \in {"r_computed", "r_free"}, l \in {"r_written", "r_next"} : ReadMoves(x, l, {})
  BY <1>0, ReadFreeMoves
<1>2. Kernel' /\ net' = net /\ Groups' = Groups /\ PlainGroups' = PlainGroups
  BY <1>1, SetupFrame DEF ReadMoves
<1>3. Starting'
  BY <1>1, Wakeful DEF SingleRun, Threading, Starting, ReadMoves, ReadFree, readVars, computeVars
<1>4. Once'
  BY <1>1, Wakeful DEF SingleRun, Threading, Once, ReadMoves, ReadFree, computeVars
<1> QED
  BY <1>3, <1>4

LEMMA ReadNextSingleRun == SingleRun /\ ReadNext => Once' /\ Starting'
<1> SUFFICES ASSUME SingleRun, ReadNext PROVE Once' /\ Starting'
  OBVIOUS
<1>0. Kernel
  BY DEF SingleRun, Threading
<1>1. PICK x \in {"r_written", "r_next"} : ReadMoves(x, "r_layer", {})
  BY <1>0, ReadNextMoves
<1>2. Kernel' /\ net' = net /\ Groups' = Groups /\ PlainGroups' = PlainGroups
  BY <1>1, SetupFrame DEF ReadMoves
<1>3. Starting'
  BY DEF SingleRun, Threading, Positions, Starting, ReadNext
<1>4. Once'
  BY <1>1, Wakeful DEF SingleRun, Threading, Once, ReadMoves, ReadNext, shared, computeVars
<1> QED
  BY <1>3, <1>4

LEMMA ReadFinishSingleRun == SingleRun /\ ReadFinish => Once' /\ Starting'
<1> SUFFICES ASSUME SingleRun, ReadFinish PROVE Once' /\ Starting'
  OBVIOUS
<1>0. Kernel
  BY DEF SingleRun, Threading
<1>1. ReadMoves("r_layer", "r_start", {"data_chunk"})
  BY <1>0, ReadFinishMoves
<1>2. Kernel' /\ net' = net /\ Groups' = Groups /\ PlainGroups' = PlainGroups
  BY <1>1, SetupFrame DEF ReadMoves
<1>3. Starting'
  BY DEF Starting, ReadFinish, readVars
<1>4. Once'
  BY <1>1, <1>2, Wakeful DEF SingleRun, Threading, Once, ReadMoves, ReadFinish, readVars, computeVars
<1> QED
  BY <1>3, <1>4

LEMMA ComputeStartSingleRun == SingleRun /\ ComputeStart => Once' /\ Starting'
<1> SUFFICES ASSUME SingleRun, ComputeStart PROVE Once' /\ Starting'
  OBVIOUS
<1>0. Kernel
  BY DEF SingleRun, Threading
<1>1. ComputeMoves("c_start", "c_init", {})
  BY <1>0, ComputeStartMoves
<1>2. Kernel' /\ net' = net /\ Groups' = Groups /\ PlainGroups' = PlainGroups
  BY <1>1, SetupFrame DEF ComputeMoves
<1>3. Starting'
  BY <1>1, WaitLabels DEF SingleRun, Threading, Starting, ComputeMoves, ComputeStart, readVars,
     computeVars
<1>4. Once'
  BY <1>1, <1>2, Wakeful DEF SingleRun, Threading, Once, ComputeMoves, ComputeStart, shared, readVars
<1> QED
  BY <1>3, <1>4

LEMMA ComputeInitSingleRun == SingleRun /\ ComputeInit => Once' /\ Starting'
<1> SUFFICES ASSUME SingleRun, ComputeInit PROVE Once' /\ Starting'
  OBVIOUS
<1>0. Kernel
  BY DEF SingleRun, Threading
<1>1. ComputeMoves("c_init", "c_layer", {})
  BY <1>0, ComputeInitMoves
<1>2. Kernel' /\ net' = net /\ Groups' = Groups /\ PlainGroups' = PlainGroups
  BY <1>1, SetupFrame DEF ComputeMoves
<1>3. Starting'
  BY <1>1, WaitLabels DEF SingleRun, Threading, Starting, ComputeMoves, ComputeInit, readVars
<1>4. Once'
  BY <1>1, <1>2, Wakeful DEF SingleRun, Threading, Once, ComputeMoves, ComputeInit, readVars
<1> QED
  BY <1>3, <1>4

LEMMA ComputeSkipSingleRun == SingleRun /\ ComputeSkip => Once' /\ Starting'
<1> SUFFICES ASSUME SingleRun, ComputeSkip PROVE Once' /\ Starting'
  OBVIOUS
<1>0. Kernel
  BY DEF SingleRun, Threading
<1>1. ComputeMoves("c_layer", "c_layer", {})
  BY <1>0, ComputeSkipMoves
<1>2. Kernel' /\ net' = net /\ Groups' = Groups /\ PlainGroups' = PlainGroups
  BY <1>1, SetupFrame DEF ComputeMoves
<1>3. Starting'
  BY <1>1 DEF SingleRun, Threading, ComputePlace, Starting, ComputeMoves, ComputeSkip, readVars
<1>4. Once'
  BY <1>1, <1>2, Wakeful DEF SingleRun, Threading, Once, ComputeMoves, ComputeSkip, readVars
<1> QED
  BY <1>3, <1>4

LEMMA ComputeLayerSingleRun == SingleRun /\ ComputeLayer => Once' /\ Starting'
<1> SUFFICES ASSUME SingleRun, ComputeLayer PROVE Once' /\ Starting'
  OBVIOUS
<1>0. Kernel
  BY DEF SingleRun, Threading
<1>1. ComputeMoves("c_layer", "c_check", {})
  BY <1>0, ComputeLayerMoves
<1>2. Kernel' /\ net' = net /\ Groups' = Groups /\ PlainGroups' = PlainGroups
  BY <1>1, SetupFrame DEF ComputeMoves
<1>3. Starting'
  BY <1>1 DEF SingleRun, Threading, Starting, ComputeMoves, ComputeLayer, readVars
<1>4. Once'
  BY <1>1, <1>2, Wakeful DEF SingleRun, Threading, Once, ComputeMoves, ComputeLayer, readVars
<1> QED
  BY <1>3, <1>4

LEMMA ComputeGateSingleRun == SingleRun /\ ComputeGate => Once' /\ Starting'
<1> SUFFICES ASSUME SingleRun, ComputeGate PROVE Once' /\ Starting'
  OBVIOUS
<1>0. Kernel
  BY DEF SingleRun, Threading
<1>1. PICK x \in {"c_check", "c_gate"}, l \in {"c_loop", "c_gate"} : ComputeMoves(x, l, {})
  BY <1>0, ComputeGateMoves
<1>2. Kernel' /\ net' = net /\ Groups' = Groups /\ PlainGroups' = PlainGroups
  BY <1>1, SetupFrame DEF ComputeMoves
<1>3. Starting'
  BY <1>1 DEF SingleRun, Threading, Starting, ComputeMoves, ComputeGate, readVars, computeVars
<1>4. Once'
  BY <1>1, <1>2, Wakeful DEF SingleRun, Threading, Once, ComputeMoves, ComputeGate, shared, readVars
<1> QED
  BY <1>3, <1>4

LEMMA ComputeLoopSingleRun == SingleRun /\ ComputeLoop => Once' /\ Starting'
<1> SUFFICES ASSUME SingleRun, ComputeLoop PROVE Once' /\ Starting'
  OBVIOUS
<1>0. Kernel
  BY DEF SingleRun, Threading
<1>1. PICK x \in {"c_loop", "c_stall", "c_batch"}, l \in {"c_done", "c_stall", "c_batch"} :
        ComputeMoves(x, l, {})
  BY <1>0, ComputeLoopMoves
<1>2. Kernel' /\ net' = net /\ Groups' = Groups /\ PlainGroups' = PlainGroups
  BY <1>1, SetupFrame DEF ComputeMoves
<1>3. Starting'
  BY <1>1 DEF SingleRun, Threading, Starting, ComputeMoves, ComputeLoop, readVars
<1>4. Once'
  BY <1>1, <1>2, Wakeful DEF SingleRun, Threading, Once, ComputeMoves, ComputeLoop, readVars
<1> QED
  BY <1>3, <1>4

LEMMA ComputeDoneSingleRun == SingleRun /\ ComputeDone => Once' /\ Starting'
<1> SUFFICES ASSUME SingleRun, ComputeDone PROVE Once' /\ Starting'
  OBVIOUS
<1>0. Kernel
  BY DEF SingleRun, Threading
<1>1. PICK l \in {"c_free", "c_written"} :
        ComputeMoves("c_done", l, {"compute_done", "output_ready"})
  BY <1>0, ComputeDoneMoves
<1>2. Kernel' /\ net' = net /\ Groups' = Groups /\ PlainGroups' = PlainGroups
  BY <1>1, SetupFrame DEF ComputeMoves
<1>3. Starting'
  BY <1>1 DEF SingleRun, Threading, Starting, ComputeMoves, ComputeDone, readVars
<1>4. Once'
  BY <1>1, <1>2, Wakeful DEF SingleRun, Threading, Once, ComputeMoves, ComputeDone, readVars
<1> QED
  BY <1>3, <1>4

LEMMA ComputeFreeSingleRun == SingleRun /\ ComputeFree => Once' /\ Starting'
<1> SUFFICES ASSUME SingleRun, ComputeFree PROVE Once' /\ Starting'
  OBVIOUS
<1>0. Kernel
  BY DEF SingleRun, Threading
<1>1. PICK x \in {"c_written", "c_free"}, l \in {"c_next", "c_sub"} : ComputeMoves(x, l, {})
  BY <1>0, ComputeFreeMoves
<1>2. Kernel' /\ net' = net /\ Groups' = Groups /\ PlainGroups' = PlainGroups
  BY <1>1, SetupFrame DEF ComputeMoves
<1>3. Starting'
  BY <1>1 DEF SingleRun, Threading, Starting, ComputeMoves, ComputeFree, readVars, computeVars
<1>4. Once'
  BY <1>1, <1>2, Wakeful DEF SingleRun, Threading, Once, ComputeMoves, ComputeFree, readVars
<1> QED
  BY <1>3, <1>4

LEMMA ComputeSubSingleRun == SingleRun /\ ComputeSub => Once' /\ Starting'
<1> SUFFICES ASSUME SingleRun, ComputeSub PROVE Once' /\ Starting'
  OBVIOUS
<1>0. Kernel
  BY DEF SingleRun, Threading
<1>1. PICK x \in {"c_next", "c_sub"} : ComputeMoves(x, "c_synced", {"compute_done", "output_ready"})
  BY <1>0, ComputeSubMoves
<1>2. Kernel' /\ net' = net /\ Groups' = Groups /\ PlainGroups' = PlainGroups
  BY <1>1, SetupFrame DEF ComputeMoves
<1>3. Starting'
  BY <1>1 DEF SingleRun, Threading, Starting, ComputeMoves, ComputeSub, readVars
<1>4. Once'
  BY <1>1, <1>2, Wakeful DEF SingleRun, Threading, Once, ComputeMoves, ComputeSub, readVars
<1> QED
  BY <1>3, <1>4

LEMMA ComputeSyncedSingleRun == SingleRun /\ ComputeSynced => Once' /\ Starting'
<1> SUFFICES ASSUME SingleRun, ComputeSynced PROVE Once' /\ Starting'
  OBVIOUS
<1>0. Kernel
  BY DEF SingleRun, Threading
<1>1. ComputeMoves("c_synced", "c_sub", {})
  BY <1>0, ComputeSyncedMoves
<1>2. Kernel' /\ net' = net /\ Groups' = Groups /\ PlainGroups' = PlainGroups
  BY <1>1, SetupFrame DEF ComputeMoves
<1>3. Starting'
  BY <1>1 DEF SingleRun, Threading, Starting, ComputeMoves, ComputeSynced, readVars, computeVars
<1>4. Once'
  BY <1>1, <1>2, Wakeful DEF SingleRun, Threading, Once, ComputeMoves, ComputeSynced, readVars
<1> QED
  BY <1>3, <1>4

LEMMA ComputeNextSingleRun == SingleRun /\ ComputeNext => Once' /\ Starting'
<1> SUFFICES ASSUME SingleRun, ComputeNext PROVE Once' /\ Starting'
  OBVIOUS
<1>0. Kernel
  BY DEF SingleRun, Threading
<1>1. PICK x \in {"c_next", "c_sub"} : ComputeMoves(x, "c_layer", {})
  BY <1>0, ComputeNextMoves
<1>2. Kernel' /\ net' = net /\ Groups' = Groups /\ PlainGroups' = PlainGroups
  BY <1>1, SetupFrame DEF ComputeMoves
<1>3. Starting'
  BY <1>1, NetFacts DEF SingleRun, Threading, ComputePlace, Starting, ComputeMoves, ComputeNext,
     readVars, AfterLabels
<1>4. Once'
  BY <1>1, <1>2, Wakeful DEF SingleRun, Threading, Once, ComputeMoves, ComputeNext, shared, readVars
<1> QED
  BY <1>3, <1>4

LEMMA ComputeFinishSingleRun == SingleRun /\ ComputeFinish => Once' /\ Starting'
<1> SUFFICES ASSUME SingleRun, ComputeFinish PROVE Once' /\ Starting'
  OBVIOUS
<1>0. Kernel
  BY DEF SingleRun, Threading
<1>1. ComputeMoves("c_layer", "c_start", {})
  BY <1>0, ComputeFinishMoves
<1>2. Kernel' /\ net' = net /\ Groups' = Groups /\ PlainGroups' = PlainGroups
  BY <1>1, SetupFrame DEF ComputeMoves
<1>3. Starting'
  BY DEF SingleRun, Threading, Starting, ComputeFinish, readVars
<1>4. Once'
  BY <1>1, <1>2, Wakeful DEF SingleRun, Threading, Once, ComputeMoves, ComputeFinish, readVars
<1> QED
  BY <1>3, <1>4

LEMMA WriteStartSingleRun == SingleRun /\ WriteStart => Once' /\ Starting'
<1> SUFFICES ASSUME SingleRun, WriteStart PROVE Once' /\ Starting'
  OBVIOUS
<1>0. Kernel
  BY DEF SingleRun, Threading
<1>1. PICK l \in {"w_dma", "w_done"} : WriteMoves("w_wait", l, {})
  BY <1>0, WriteStartMoves
<1>2. Kernel' /\ net' = net /\ Groups' = Groups /\ PlainGroups' = PlainGroups
  BY <1>1, SetupFrame DEF WriteMoves
<1>3. Starting'
  BY <1>1, Wakeful DEF SingleRun, Threading, Starting, WriteMoves, WriteStart, readVars, computeVars
<1>4. Once'
  BY <1>1, <1>2, Wakeful DEF SingleRun, Threading, Once, WriteMoves, WriteStart, shared, readVars,
     computeVars
<1> QED
  BY <1>3, <1>4

LEMMA WriteDoneSingleRun == SingleRun /\ WriteDone => Once' /\ Starting'
<1> SUFFICES ASSUME SingleRun, WriteDone PROVE Once' /\ Starting'
  OBVIOUS
<1>0. Kernel
  BY DEF SingleRun, Threading
<1>1. PICK x \in {"w_dma", "w_done"} : WriteMoves(x, "w_wait", {"write_done"})
  BY <1>0, WriteDoneMoves
<1>2. Kernel' /\ net' = net /\ Groups' = Groups /\ PlainGroups' = PlainGroups
  BY <1>1, SetupFrame DEF WriteMoves
<1>3. Starting'
  BY <1>1, Wakeful DEF SingleRun, Threading, Starting, WriteMoves, WriteDone, readVars, computeVars
<1>4. Once'
  BY <1>1, <1>2, Wakeful DEF SingleRun, Threading, Once, WriteMoves, WriteDone, readVars, computeVars
<1> QED
  BY <1>3, <1>4

LEMMA TickSingleRun == SingleRun /\ Tick => Once' /\ Starting'
<1> SUFFICES ASSUME SingleRun, Tick PROVE Once' /\ Starting'
  OBVIOUS
<1>1. /\ cpu = Nobody /\ \A t \in Threads : ~awake[t]
      /\ UNCHANGED <<setup, started, cpu, pc, shared, readVars, computeVars, writeVars>>
  BY DEF Tick
<1>2. PICK S \in SUBSET Waiting \ {{}} : awake' = [t \in Threads |-> t \in S]
  BY DEF Tick
<1>3. net' = net /\ Groups' = Groups /\ PlainGroups' = PlainGroups
  BY <1>1, SetupFrame
<1>4. \A t \in Threads : awake'[t] => Timed(pc[t])
  BY <1>2, Zenon DEF Waiting
<1>5. Once'
  <2>1. pc["read"] = "r_start" => ~awake'["read"]
    BY <1>4 DEF Timed, Threads
  <2>2. pc["compute"] = "c_start" => ~awake'["compute"]
    BY <1>4 DEF Timed, Threads
  <2> QED
    BY <1>1, <1>3, <2>1, <2>2 DEF SingleRun, Once, shared, readVars
<1>6. Starting'
  <2>1. \A t \in Threads : ~Blocked(pc[t]) \/ ~awake'[t]
    BY <1>4, BlockedLabels DEF Timed
  <2>2. /\ pc["read"] = "r_start" => ~awake'["read"]
        /\ pc["compute"] \in {"c_start", "c_init"} => ~awake'["compute"]
    BY <2>1, BlockedLabels DEF Threads
  <2>3. ~awake["compute"] /\ ~awake["read"]
    BY <1>1 DEF Threads
  <2> QED
    BY <1>1, <2>2, <2>3 DEF SingleRun, Starting, readVars, computeVars
<1> QED
  BY <1>5, <1>6

\* The first START; there is no second, and no RESET.
LEMMA FirstStart ==
  ASSUME SingleRun, setup.starts = 1, Start \/ Reset
  PROVE  started = 0 /\ rG = 0 /\ cG = 0 /\ pc["read"] = "r_start" /\ pc["compute"] = "c_start"
<1>1. started < setup.starts /\ started \in 0 .. setup.starts
  BY DEF Start, Reset, SingleRun, Threading, Kernel
<1>2. started = 0
  BY <1>1
<1> QED
  BY <1>2 DEF SingleRun, Once, Starting

LEMMA StartSingleRun == SingleRun /\ setup.starts = 1 /\ Start => Once' /\ Starting'
<1> SUFFICES ASSUME SingleRun, setup.starts = 1, Start PROVE Once' /\ Starting'
  OBVIOUS
<1>1. /\ started' = started + 1
      /\ awake' = [t \in Threads |-> pc[t] \in {"r_start", "c_start"}]
      /\ UNCHANGED <<setup, cpu, pc, shared, readVars, computeVars, writeVars>>
  BY DEF Start
<1>2. started' # 0 /\ rG = 0 /\ cG = 0 /\ pc["read"] = "r_start" /\ pc["compute"] = "c_start"
  BY <1>1, FirstStart
<1>3. awake'["read"] = TRUE /\ awake'["compute"] = TRUE
  BY <1>1, <1>2 DEF Threads
<1>4. Once'
  BY <1>1, <1>2 DEF SingleRun, Once, shared, readVars, computeVars
<1> QED
  BY <1>1, <1>2, <1>3, <1>4 DEF Starting, computeVars

LEMMA ResetSingleRun == SingleRun /\ Reset => Once' /\ Starting'
<1> SUFFICES ASSUME SingleRun, Reset PROVE Once' /\ Starting'
  OBVIOUS
<1>1. UNCHANGED <<setup, started, pc, awake, streamsDone, readVars, computeVars>>
  BY Zenon DEF Reset
<1>2. net' = net
  BY <1>1, SetupFrame
<1> QED
  BY <1>1, <1>2 DEF SingleRun, Once, Starting, readVars, computeVars

LEMMA StutterSingleRun == SingleRun /\ UNCHANGED vars => Once' /\ Starting'
<1> SUFFICES ASSUME SingleRun, UNCHANGED vars PROVE Once' /\ Starting'
  OBVIOUS
<1>1. UNCHANGED <<setup, started, cpu, pc, awake, shared, readVars, computeVars, writeVars>>
  BY DEF vars
<1>2. net' = net
  BY <1>1, SetupFrame
<1> QED
  BY <1>1, <1>2 DEF SingleRun, Once, Starting, shared, readVars, computeVars

LEMMA StepSingleRun == SingleRun /\ setup.starts = 1 /\ [Next]_vars => SingleRun'
<1> SUFFICES ASSUME SingleRun, setup.starts = 1, [Next]_vars PROVE Once' /\ Starting'
  BY StepThreading DEF SingleRun
<1>1. CASE Start
  BY <1>1, StartSingleRun
<1>2. CASE Reset
  BY <1>2, ResetSingleRun
<1>3. CASE Tick
  BY <1>3, TickSingleRun
<1>4. CASE ReadStep
  BY <1>4, ReadStartSingleRun, ReadImageSingleRun, ReadLayerSingleRun, ReadTiledSingleRun,
     ReadChunkSingleRun, ReadLoadedSingleRun, ReadFreeSingleRun, ReadNextSingleRun,
     ReadFinishSingleRun DEF ReadStep
<1>5. CASE ComputeStep
  BY <1>5, ComputeStartSingleRun, ComputeInitSingleRun, ComputeSkipSingleRun,
     ComputeLayerSingleRun, ComputeGateSingleRun, ComputeLoopSingleRun,
     ComputeDoneSingleRun, ComputeFreeSingleRun, ComputeSubSingleRun,
     ComputeSyncedSingleRun, ComputeNextSingleRun, ComputeFinishSingleRun DEF ComputeStep
<1>6. CASE WriteStep
  BY <1>6, WriteStartSingleRun, WriteDoneSingleRun DEF WriteStep
<1>7. CASE UNCHANGED vars
  BY <1>7, StutterSingleRun
<1> QED
  BY <1>1, <1>2, <1>3, <1>4, <1>5, <1>6, <1>7 DEF Next, Progress, Idle

LEMMA InitThreading == Init => Threading /\ SingleRun
<1> SUFFICES ASSUME Init PROVE Threading /\ SingleRun
  OBVIOUS
<1>1. /\ pc["read"] = "r_start" /\ pc["compute"] = "c_start" /\ pc["write"] = "w_wait"
      /\ \A t \in Threads : ~awake[t]
  BY DEF Init, Threads
<1>2. Kernel
  <2>1. setup \in Setup /\ cpu = Nobody /\ started \in 0 .. setup.starts
    BY PipelineAssumption DEF Init, Setup
  <2>2. awake \in [Threads -> BOOLEAN] /\ pc \in [Threads -> Labels]
    BY DEF Init, Threads, Labels, ReadLabels, ComputeLabels, WriteLabels
  <2>3. \A t \in Threads : LabelOf(t, pc[t])
    BY <1>1 DEF LabelOf, ReadLabels, ComputeLabels, WriteLabels
  <2>4. \A t \in Threads : WaitsAt(pc[t]) /\ cpu # t
    BY <1>1, <2>1, WaitLabels DEF Threads, Nobody
  <2> QED
    BY <2>1, <2>2, <2>3, <2>4 DEF Kernel
<1>3. Numbers /\ Flags
  BY DEF Init, Numbers, Flags
<1>4. Positions /\ ReadPlace /\ ComputePlace
  BY DEF Init, Positions, ReadPlace, ComputePlace, AtGroup, WorkLabels, AfterLabels
<1>5. Once /\ Starting
  BY DEF Init, Once, Starting, Threads
<1> QED
  BY <1>2, <1>3, <1>4, <1>5 DEF Threading, SingleRun

----------------------------------------------------------------------------
(* The theorems *)

\* Whatever the configuration and however often it is started, the thread that has the
\* processor is the one outside a wait, and the labels the threads are at go with their
\* places in the network.
THEOREM PipelineThreading == Spec => []Threading
BY InitThreading, StepThreading, PTL DEF Spec

\* The type invariant, for every network and configuration, the ones the pipeline
\* stops or goes wrong under included: the indices of read_thread and
\* compute_thread stay within the network, one past its end when they are done.
THEOREM PipelineTypeCorrect == Spec => []TypeOK
<1>1. Threading => TypeOK
  BY DEF Threading, Kernel, Numbers, Flags, Positions, TypeOK
<1> QED
  BY <1>1, PipelineThreading, PTL

----------------------------------------------------------------------------
(* The inductive invariant: what holds of sequential configurations *)

\* One buffer, no plain group after a packet group of several functions, and one run:
\* then read, compute and write take turns on every layer.
Sequential(c) ==
  /\ ~c.doubleBuffer /\ c.starts = 1
  /\ \A i, j \in 1 .. Len(c.net) :
       i < j /\ c.net[i].path = "plain" /\ Len(c.net[i].writes) > 1 => c.net[j].path # "plain"

\* How far the threads are: read leaves a plain group after compute, and compute
\* finishes one only when all of it is loaded.
Progressed ==
  /\ \A g \in Groups : g \in ran <=> g \notin PlainGroups /\ g < rG
  /\ computed \subseteq PlainGroups
  /\ \A g \in PlainGroups :
       /\ g \in computed <=> g < cG \/ (g = cG /\ pc["compute"] \in AfterLabels)
       /\ g < rG => g \in computed
       /\ g \in computed => \/ g < rG
                            \/ g = rG /\ pc["read"] \in {"r_computed", "r_free", "r_written", "r_next"}
  /\ pc["read"] \in {"r_free", "r_written", "r_next"} => rG \in computed
  /\ pc["read"] = "r_computed" /\ awake["read"] => rG \in computed
  /\ pc["read"] \in {"r_chunk", "r_loaded"} => ~computeDone

Chunks ==
  /\ pc["read"] = "r_chunk" => rChunk < net[rG].chunks /\ ~allLoaded
  /\ pc["read"] \in {"r_loaded", "r_computed"} => rChunk = net[rG].chunks /\ allLoaded

\* The next plain group from g on, if there is one, is being loaded.
Fed(g) ==
  (\E p \in PlainGroups : p >= g) =>
     /\ pc["read"] \in {"r_chunk", "r_loaded", "r_computed"}
     /\ rG >= g /\ rG \notin computed /\ \A p \in PlainGroups : p >= g => p >= rG
     /\ rChunk >= 1 /\ loaded = rChunk

\* What compute is told to go on with is the operands of its own layer.
Feeding ==
  /\ pc["compute"] \in {"c_layer"} \cup WorkLabels => Fed(cG)
  /\ pc["compute"] = "c_init" /\ awake["compute"] => Fed(1)
  /\ pc["compute"] = "c_next" /\ awake["compute"] => Fed(cG + 1)
  /\ pc["compute"] \in {"c_sub", "c_synced"} => \A p \in PlainGroups : p <= cG
  /\ pc["compute"] \in WorkLabels => consumed <= loaded
  /\ pc["compute"] = "c_done" => consumed = net[cG].chunks
  /\ misfed = {}

\* compute waits for the write of what it has handed over.
Waits == pc["compute"] \in {"c_written", "c_synced"} /\ ~awake["compute"]

\* write has something to do exactly while compute waits for it.
Handing ==
  /\ pending = IF Waits THEN 1 ELSE 0
  /\ ~Waits => pc["write"] = "w_wait" /\ ~awake["write"]
  /\ Waits => /\ pc["write"] # "w_wait" \/ awake["write"]
              /\ writeIdx = <<cG, cSub>>
              /\ pc["write"] # "w_wait" => wL = <<cG, cSub>>
  /\ pc["compute"] # "c_free"

\* The outputs of the network, and the order they are written in.
Outputs == {h \in PlainGroups \X Nat : 1 <= h[2] /\ h[2] <= Len(net[h[1]].writes)}
Before(x, y) == x[1] < y[1] \/ (x[1] = y[1] /\ x[2] < y[2])

\* Those compute has handed over; all but the last have been written, the last
\* unless compute still waits for it.
HandedOver(h) == h[1] < cG \/ (h[1] = cG /\ pc["compute"] \in AfterLabels /\ h[2] <= cSub)
Due(h) == HandedOver(h) /\ ~(Waits /\ h = <<cG, cSub>>)
Written ==
  /\ cSub \in Nat
  /\ pc["compute"] \in WorkLabels => cSub = 1
  /\ pc["compute"] \in AfterLabels => 1 <= cSub /\ cSub <= Len(net[cG].writes)
  /\ written \in Seq(Outputs)
  /\ \A h \in Outputs : Holds(written, h) <=> Due(h)
  /\ \A j, k \in 1 .. Len(written) : j < k => Before(written[j], written[k])

\* AllDone is set when nothing is left, whichever thread comes last.
Ended ==
  /\ active <=> cG # 0 /\ pc["compute"] # "c_start"
  /\ allDone => streamsDone /\ ~Waits /\ \A g \in PlainGroups : g < cG
  /\ pc["compute"] = "c_init" /\ streamsDone => awake["compute"]
  /\ pc["compute"] = "c_start" /\ cG = 0 => rG = 0

Orderly == Progressed /\ Chunks /\ Feeding /\ Handing /\ Written /\ Ended

----------------------------------------------------------------------------
(* What a step leaves alone *)

LEMMA SequentialFacts ==
  ASSUME Kernel, Sequential(setup)
  PROVE  /\ ~setup.doubleBuffer
         /\ \A i, j \in PlainGroups : i < j => ~(Len(net[i].writes) > 1)
BY NetFacts DEF Sequential, net, Groups

LEMMA OutputFacts ==
  \A h \in Outputs : /\ h[1] \in PlainGroups /\ h[2] \in Nat /\ 1 <= h[2]
                     /\ h[2] <= Len(net[h[1]].writes)
                     /\ h = <<h[1], h[2]>>
BY DEF Outputs

LEMMA OutputPairs ==
  ASSUME NEW h \in Outputs, NEW a, NEW b
  PROVE  h = <<a, b>> <=> h[1] = a /\ h[2] = b
<1>1. h = <<h[1], h[2]>>
  BY OutputFacts
<1> QED
  BY <1>1

LEMMA OutputsFrame ==
  ASSUME net' = net, PlainGroups' = PlainGroups
  PROVE  Outputs' = Outputs
BY DEF Outputs

LEMMA WrittenFrame ==
  ASSUME Written, net' = net, PlainGroups' = PlainGroups, UNCHANGED written,
         cSub' \in Nat,
         pc'["compute"] \in WorkLabels => cSub' = 1,
         pc'["compute"] \in AfterLabels => 1 <= cSub' /\ cSub' <= Len(net[cG'].writes),
         \A h \in Outputs : Due(h)' <=> Due(h)
  PROVE  Written'
<1>1. Outputs' = Outputs
  BY OutputsFrame
<1>2. written' \in Seq(Outputs') /\ \A h \in Outputs' : Holds(written', h) <=> Due(h)'
  BY <1>1 DEF Written
<1>3. \A j, k \in 1 .. Len(written') : j < k => Before(written'[j], written'[k])
  BY DEF Written
<1> QED
  BY <1>2, <1>3 DEF Written

----------------------------------------------------------------------------
(* Every step keeps the order *)

\* Before the first layer nothing has been done.
LEMMA FreshStart ==
  ASSUME SingleRun, Orderly, rG = 0
  PROVE  ran = {} /\ computed = {} /\ written = <<>>
<1>1. Kernel /\ cG = 0
  BY DEF SingleRun, Threading, Starting
<1>2. PlainGroups \subseteq Nat \ {0} /\ Groups \subseteq Nat \ {0}
  BY <1>1, NetFacts
<1>3. ran = {} /\ computed = {}
  <2>1. ran \subseteq Groups /\ computed \subseteq Groups
    BY DEF SingleRun, Threading, Positions
  <2> QED
    BY <1>1, <1>2, <2>1 DEF Orderly, Progressed
<1>4. written = <<>>
  <2>1. \A h \in Outputs : ~Due(h)
    BY <1>1, <1>2, OutputFacts DEF Due, HandedOver
  <2>2. written \in Seq(Outputs) /\ \A h \in Outputs : ~Holds(written, h)
    BY <2>1 DEF Orderly, Written
  <2>3. ASSUME written # <<>> PROVE FALSE
    <3>1. Len(written) \in Nat /\ 1 \in 1 .. Len(written) /\ written[1] \in Outputs
      BY <2>2, <2>3
    <3> QED
      BY <2>2, <3>1 DEF Holds
  <2> QED
    BY <2>3
<1> QED
  BY <1>3, <1>4

LEMMA ReadStartOrderly ==
  ASSUME SingleRun, Orderly, Sequential(setup), ReadStart
  PROVE  Orderly'
<1>0. Kernel
  BY DEF SingleRun, Threading
<1>1. ReadMoves("r_start", "r_image", {})
  BY <1>0, ReadStartMoves, SequentialFacts DEF Orderly, Handing, ReadMoves
<1>2. net' = net /\ Groups' = Groups /\ PlainGroups' = PlainGroups /\ setup' = setup
  BY <1>1, SetupFrame DEF ReadMoves
<1>3. UNCHANGED <<rG, ran, computed, written>>
  <2>1. rG = 0
    BY <1>1, WaitLabels DEF SingleRun, Once, ReadMoves
  <2> QED
    BY <2>1, FreshStart DEF ReadStart
<1>4. Progressed'
  BY <1>0, <1>1, <1>2, NetFacts, Wakeful, WaitLabels DEF SingleRun, Threading, Positions, ReadPlace, ComputePlace, Once, Orderly, Progressed, ReadMoves, ReadStart, shared, readVars, computeVars, writeVars, AtGroup, WorkLabels, AfterLabels
<1>5. Chunks'
  BY <1>0, <1>1, <1>2, NetFacts, Wakeful, WaitLabels DEF SingleRun, Threading, Positions, ReadPlace, ComputePlace, Once, Orderly, Progressed, Chunks, ReadMoves, ReadStart, shared, readVars, computeVars, writeVars, AtGroup, WorkLabels, AfterLabels
<1>6. Feeding'
  BY <1>0, <1>1, <1>2, NetFacts, Wakeful, WaitLabels DEF SingleRun, Threading, Positions, ReadPlace, ComputePlace, Once, Orderly, Progressed, Chunks, Feeding, Fed, ReadMoves, ReadStart, shared, readVars, computeVars, writeVars, AtGroup, WorkLabels, AfterLabels
<1>7. Handing'
  BY <1>0, <1>1, <1>2, NetFacts, Wakeful, WaitLabels DEF SingleRun, Threading, Positions, ReadPlace, ComputePlace, Once, Orderly, Handing, Waits, ReadMoves, ReadStart, shared, readVars, computeVars, writeVars, AtGroup, WorkLabels, AfterLabels
<1>8. Written'
  <2>1. (Waits' <=> Waits) /\ cG' = cG /\ cSub' = cSub /\ pc'["compute"] = pc["compute"]
    BY <1>1, Wakeful DEF Waits, ReadMoves, ReadStart, readVars, computeVars
  <2>2. \A h \in Outputs : Due(h)' <=> Due(h)
    BY <2>1 DEF Due, HandedOver
  <2> QED
    BY <1>2, <1>3, <2>1, <2>2, WrittenFrame DEF Orderly, Written
<1>9. Ended'
  <2>1. active' <=> cG' # 0 /\ pc'["compute"] # "c_start"
    BY <1>0, <1>1, <1>2, NetFacts DEF SingleRun, Threading, Positions, ComputePlace, Orderly, Ended, ReadMoves, ReadStart, computeVars, shared, WorkLabels, AfterLabels
  <2>2. allDone' => streamsDone' /\ ~Waits' /\ \A g \in PlainGroups : g < cG'
    BY <1>0, <1>1, <1>2, NetFacts, Wakeful, WaitLabels DEF SingleRun, Threading, Flags, Positions, ComputePlace, Once, Orderly, Progressed, Handing, Waits, Ended, ReadMoves, ReadStart, HandOver, SetRunning, Finalize, shared, readVars, computeVars, WorkLabels, AfterLabels
  <2>3. /\ pc'["compute"] = "c_init" /\ streamsDone' => awake'["compute"]
        /\ pc'["compute"] = "c_start" /\ cG' = 0 => rG' = 0
    BY <1>0, <1>1, <1>2, NetFacts, Wakeful, WaitLabels DEF SingleRun, Threading, Positions, ReadPlace, ComputePlace, Once, Starting, Orderly, Ended, ReadMoves, ReadStart, AtGroup, shared, readVars, computeVars
  <2> QED
    BY <1>2, <2>1, <2>2, <2>3, Zenon DEF Ended
<1> QED
  BY <1>4, <1>5, <1>6, <1>7, <1>8, <1>9 DEF Orderly

LEMMA ReadImageOrderly ==
  ASSUME SingleRun, Orderly, Sequential(setup), ReadImage
  PROVE  Orderly'
<1>0. Kernel
  BY DEF SingleRun, Threading
<1>1. ReadMoves("r_image", "r_layer", {})
  BY <1>0, ReadImageMoves, SequentialFacts DEF Orderly, Handing, ReadMoves
<1>2. net' = net /\ Groups' = Groups /\ PlainGroups' = PlainGroups /\ setup' = setup
  BY <1>1, SetupFrame DEF ReadMoves
<1>3. Progressed'
  BY <1>0, <1>1, <1>2, NetFacts, Wakeful, WaitLabels DEF SingleRun, Threading, Positions, ReadPlace, ComputePlace, Once, Orderly, Progressed, ReadMoves, ReadImage, shared, readVars, computeVars, writeVars, AtGroup, WorkLabels, AfterLabels
<1>4. Chunks'
  BY <1>0, <1>1, <1>2, NetFacts, Wakeful, WaitLabels DEF SingleRun, Threading, Positions, ReadPlace, ComputePlace, Once, Orderly, Progressed, Chunks, ReadMoves, ReadImage, shared, readVars, computeVars, writeVars, AtGroup, WorkLabels, AfterLabels
<1>5. Feeding'
  BY <1>0, <1>1, <1>2, NetFacts, Wakeful, WaitLabels DEF SingleRun, Threading, Positions, ReadPlace, ComputePlace, Once, Orderly, Progressed, Chunks, Feeding, Fed, ReadMoves, ReadImage, shared, readVars, computeVars, writeVars, AtGroup, WorkLabels, AfterLabels
<1>6. Handing'
  BY <1>0, <1>1, <1>2, NetFacts, Wakeful, WaitLabels DEF SingleRun, Threading, Positions, ReadPlace, ComputePlace, Once, Orderly, Handing, Waits, ReadMoves, ReadImage, shared, readVars, computeVars, writeVars, AtGroup, WorkLabels, AfterLabels
<1>7. Written'
  <2>1. (Waits' <=> Waits) /\ cG' = cG /\ cSub' = cSub /\ pc'["compute"] = pc["compute"]
    BY <1>1, Wakeful DEF Waits, ReadMoves, ReadImage, readVars, computeVars
  <2>2. \A h \in Outputs : Due(h)' <=> Due(h)
    BY <2>1 DEF Due, HandedOver
  <2> QED
    BY <1>2, <2>1, <2>2, WrittenFrame DEF Orderly, Written, ReadImage, writeVars
<1>8. Ended'
  <2>1. active' <=> cG' # 0 /\ pc'["compute"] # "c_start"
    BY <1>0, <1>1, <1>2, NetFacts DEF SingleRun, Threading, Positions, ComputePlace, Orderly, Ended, ReadMoves, ReadImage, computeVars, shared, WorkLabels, AfterLabels
  <2>2. allDone' => streamsDone' /\ ~Waits' /\ \A g \in PlainGroups : g < cG'
    BY <1>0, <1>1, <1>2, NetFacts, Wakeful, WaitLabels DEF SingleRun, Threading, Flags, Positions, ComputePlace, Once, Orderly, Progressed, Handing, Waits, Ended, ReadMoves, ReadImage, HandOver, SetRunning, Finalize, shared, readVars, computeVars, WorkLabels, AfterLabels
  <2>3. /\ pc'["compute"] = "c_init" /\ streamsDone' => awake'["compute"]
        /\ pc'["compute"] = "c_start" /\ cG' = 0 => rG' = 0
    BY <1>0, <1>1, <1>2, NetFacts, Wakeful, WaitLabels DEF SingleRun, Threading, Positions, ReadPlace, ComputePlace, Once, Starting, Orderly, Ended, ReadMoves, ReadImage, AtGroup, shared, readVars, computeVars
  <2> QED
    BY <1>2, <2>1, <2>2, <2>3, Zenon DEF Ended
<1> QED
  BY <1>3, <1>4, <1>5, <1>6, <1>7, <1>8 DEF Orderly

LEMMA ReadLayerOrderly ==
  ASSUME SingleRun, Orderly, Sequential(setup), ReadLayer
  PROVE  Orderly'
<1>0. Kernel
  BY DEF SingleRun, Threading
<1>1. PICK l \in {"r_chunk", "r_tiled", "r_ran"} : ReadMoves("r_layer", l, {})
        /\ (l = "r_chunk" <=> rG \in PlainGroups) /\ rG \in Groups
  BY <1>0, ReadLayerMoves, SequentialFacts DEF Orderly, Handing, ReadMoves
<1>2. net' = net /\ Groups' = Groups /\ PlainGroups' = PlainGroups /\ setup' = setup
  BY <1>1, SetupFrame DEF ReadMoves
<1>3. Progressed'
  BY <1>0, <1>1, <1>2, NetFacts, Wakeful, WaitLabels DEF SingleRun, Threading, Positions, ReadPlace, ComputePlace, Once, Orderly, Progressed, ReadMoves, ReadLayer, shared, readVars, computeVars, writeVars, AtGroup, WorkLabels, AfterLabels
<1>4. Chunks'
  BY <1>0, <1>1, <1>2, NetFacts, Wakeful, WaitLabels DEF SingleRun, Threading, Positions, ReadPlace, ComputePlace, Once, Orderly, Progressed, Chunks, ReadMoves, ReadLayer, shared, readVars, computeVars, writeVars, AtGroup, WorkLabels, AfterLabels
<1>5. Feeding'
  BY <1>0, <1>1, <1>2, NetFacts, Wakeful, WaitLabels DEF SingleRun, Threading, Positions, ReadPlace, ComputePlace, Once, Orderly, Progressed, Chunks, Feeding, Fed, ReadMoves, ReadLayer, shared, readVars, computeVars, writeVars, AtGroup, WorkLabels, AfterLabels
<1>6. Handing'
  BY <1>0, <1>1, <1>2, NetFacts, Wakeful, WaitLabels DEF SingleRun, Threading, Positions, ReadPlace, ComputePlace, Once, Orderly, Handing, Waits, ReadMoves, ReadLayer, shared, readVars, computeVars, writeVars, AtGroup, WorkLabels, AfterLabels
<1>7. Written'
  <2>1. (Waits' <=> Waits) /\ cG' = cG /\ cSub' = cSub /\ pc'["compute"] = pc["compute"]
    BY <1>1, Wakeful DEF Waits, ReadMoves, ReadLayer, readVars, computeVars
  <2>2. \A h \in Outputs : Due(h)' <=> Due(h)
    BY <2>1 DEF Due, HandedOver
  <2> QED
    BY <1>2, <2>1, <2>2, WrittenFrame DEF Orderly, Written, ReadLayer, writeVars
<1>8. Ended'
  <2>1. active' <=> cG' # 0 /\ pc'["compute"] # "c_start"
    BY <1>0, <1>1, <1>2, NetFacts DEF SingleRun, Threading, Positions, ComputePlace, Orderly, Ended, ReadMoves, ReadLayer, computeVars, shared, WorkLabels, AfterLabels
  <2>2. allDone' => streamsDone' /\ ~Waits' /\ \A g \in PlainGroups : g < cG'
    BY <1>0, <1>1, <1>2, NetFacts, Wakeful, WaitLabels DEF SingleRun, Threading, Flags, Positions, ComputePlace, Once, Orderly, Progressed, Handing, Waits, Ended, ReadMoves, ReadLayer, HandOver, SetRunning, Finalize, shared, readVars, computeVars, WorkLabels, AfterLabels
  <2>3. /\ pc'["compute"] = "c_init" /\ streamsDone' => awake'["compute"]
        /\ pc'["compute"] = "c_start" /\ cG' = 0 => rG' = 0
    BY <1>0, <1>1, <1>2, NetFacts, Wakeful, WaitLabels DEF SingleRun, Threading, Positions, ReadPlace, ComputePlace, Once, Starting, Orderly, Ended, ReadMoves, ReadLayer, AtGroup, shared, readVars, computeVars
  <2> QED
    BY <1>2, <2>1, <2>2, <2>3, Zenon DEF Ended
<1> QED
  BY <1>3, <1>4, <1>5, <1>6, <1>7, <1>8 DEF Orderly

LEMMA ReadTiledOrderly ==
  ASSUME SingleRun, Orderly, Sequential(setup), ReadTiled
  PROVE  Orderly'
<1>0. Kernel
  BY DEF SingleRun, Threading
<1>1. PICK x \in {"r_tiled", "r_ran"} : ReadMoves(x, "r_layer", {})
  BY <1>0, ReadTiledMoves, SequentialFacts DEF Orderly, Handing, ReadMoves
<1>2. net' = net /\ Groups' = Groups /\ PlainGroups' = PlainGroups /\ setup' = setup
  BY <1>1, SetupFrame DEF ReadMoves
<1>3. Progressed'
  BY <1>0, <1>1, <1>2, NetFacts, Wakeful, WaitLabels DEF SingleRun, Threading, Positions, ReadPlace, ComputePlace, Once, Orderly, Progressed, ReadMoves, ReadTiled, shared, readVars, computeVars, writeVars, AtGroup, WorkLabels, AfterLabels
<1>4. Chunks'
  BY <1>0, <1>1, <1>2, NetFacts, Wakeful, WaitLabels DEF SingleRun, Threading, Positions, ReadPlace, ComputePlace, Once, Orderly, Progressed, Chunks, ReadMoves, ReadTiled, shared, readVars, computeVars, writeVars, AtGroup, WorkLabels, AfterLabels
<1>5. Feeding'
  BY <1>0, <1>1, <1>2, NetFacts, Wakeful, WaitLabels DEF SingleRun, Threading, Positions, ReadPlace, ComputePlace, Once, Orderly, Progressed, Chunks, Feeding, Fed, ReadMoves, ReadTiled, shared, readVars, computeVars, writeVars, AtGroup, WorkLabels, AfterLabels
<1>6. Handing'
  BY <1>0, <1>1, <1>2, NetFacts, Wakeful, WaitLabels DEF SingleRun, Threading, Positions, ReadPlace, ComputePlace, Once, Orderly, Handing, Waits, ReadMoves, ReadTiled, shared, readVars, computeVars, writeVars, AtGroup, WorkLabels, AfterLabels
<1>7. Written'
  <2>1. (Waits' <=> Waits) /\ cG' = cG /\ cSub' = cSub /\ pc'["compute"] = pc["compute"]
    BY <1>1, Wakeful DEF Waits, ReadMoves, ReadTiled, readVars, computeVars
  <2>2. \A h \in Outputs : Due(h)' <=> Due(h)
    BY <2>1 DEF Due, HandedOver
  <2> QED
    BY <1>2, <2>1, <2>2, WrittenFrame DEF Orderly, Written, ReadTiled, writeVars
<1>8. Ended'
  <2>1. active' <=> cG' # 0 /\ pc'["compute"] # "c_start"
    BY <1>0, <1>1, <1>2, NetFacts DEF SingleRun, Threading, Positions, ComputePlace, Orderly, Ended, ReadMoves, ReadTiled, computeVars, shared, WorkLabels, AfterLabels
  <2>2. allDone' => streamsDone' /\ ~Waits' /\ \A g \in PlainGroups : g < cG'
    BY <1>0, <1>1, <1>2, NetFacts, Wakeful, WaitLabels DEF SingleRun, Threading, Flags, Positions, ComputePlace, Once, Orderly, Progressed, Handing, Waits, Ended, ReadMoves, ReadTiled, HandOver, SetRunning, Finalize, shared, readVars, computeVars, WorkLabels, AfterLabels
  <2>3. /\ pc'["compute"] = "c_init" /\ streamsDone' => awake'["compute"]
        /\ pc'["compute"] = "c_start" /\ cG' = 0 => rG' = 0
    BY <1>0, <1>1, <1>2, NetFacts, Wakeful, WaitLabels DEF SingleRun, Threading, Positions, ReadPlace, ComputePlace, Once, Starting, Orderly, Ended, ReadMoves, ReadTiled, AtGroup, shared, readVars, computeVars
  <2> QED
    BY <1>2, <2>1, <2>2, <2>3, Zenon DEF Ended
<1> QED
  BY <1>3, <1>4, <1>5, <1>6, <1>7, <1>8 DEF Orderly

LEMMA ReadChunkOrderly ==
  ASSUME SingleRun, Orderly, Sequential(setup), ReadChunk
  PROVE  Orderly'
<1>0. Kernel
  BY DEF SingleRun, Threading
<1>1. PICK l \in {"r_chunk", "r_loaded"} :
        ReadMoves("r_chunk", l, {"data_chunk"}) /\ (l = "r_loaded" <=> allLoaded')
  BY <1>0, ReadChunkMoves, SequentialFacts DEF Orderly, Handing, ReadMoves
<1>2. net' = net /\ Groups' = Groups /\ PlainGroups' = PlainGroups /\ setup' = setup
  BY <1>1, SetupFrame DEF ReadMoves
<1>3. Progressed'
  BY <1>0, <1>1, <1>2, NetFacts, Wakeful, WaitLabels DEF SingleRun, Threading, Positions, ReadPlace, ComputePlace, Once, Orderly, Progressed, ReadMoves, ReadChunk, shared, readVars, computeVars, writeVars, AtGroup, WorkLabels, AfterLabels
<1>4. Chunks'
  <2>1. pc["read"] = "r_chunk" /\ pc'["read"] = l
    BY <1>1 DEF ReadMoves
  <2>2. /\ rChunk \in Nat /\ rChunk < net[rG].chunks /\ net[rG].chunks \in Nat
        /\ rChunk' = rChunk + 1 /\ rG' = rG
    BY <1>0, <2>1, NetFacts DEF SingleRun, Threading, Numbers, ReadPlace, AtGroup, Orderly, Chunks, ReadChunk
  <2>3. allLoaded' <=> rChunk' = net[rG].chunks
    BY <2>2, Zenon DEF ReadChunk
  <2> QED
    BY <1>1, <1>2, <2>1, <2>2, <2>3 DEF Chunks
<1>5. Feeding'
  <2>1. /\ pc["read"] = "r_chunk" /\ pc'["read"] \in {"r_chunk", "r_loaded"}
        /\ pc'["compute"] = pc["compute"]
        /\ awake'["compute"] => awake["compute"] \/ pc["compute"] \in {"c_init", "c_gate", "c_stall", "c_next"}
    BY <1>1, Wakeful DEF ReadMoves
  <2>2. /\ rChunk \in Nat /\ rChunk' = rChunk + 1 /\ loaded' = rChunk'
        /\ UNCHANGED <<rG, cG, computed, consumed, misfed>>
    BY DEF SingleRun, Threading, Numbers, ReadChunk, computeVars
  <2>3. /\ rG \in PlainGroups /\ rG \in Nat \ {0} /\ cG \in Nat /\ PlainGroups \subseteq Nat
        /\ rG \notin computed /\ \A p \in PlainGroups : p < rG => p \in computed
    BY <1>0, <2>1, NetFacts DEF SingleRun, Threading, Positions, ReadPlace, AtGroup, Orderly, Progressed
  <2>4. rChunk' >= 1 /\ loaded' = rChunk' /\ rG' = rG /\ rG \notin computed' /\ cG' = cG
    BY <2>2, <2>3
  <2>5. ASSUME pc["compute"] \in {"c_layer"} \cup WorkLabels PROVE Fed(cG)'
    <3>1. Fed(cG)
      BY <2>5 DEF Orderly, Feeding
    <3> QED
      BY <1>2, <2>1, <2>4, <3>1 DEF Fed
  <2>6. ASSUME pc["compute"] = "c_init" PROVE Fed(1)'
    <3>1. cG = 0 /\ pc["compute"] \notin AfterLabels
      BY <2>6 DEF SingleRun, Threading, ComputePlace, AfterLabels
    <3>2. \A p \in PlainGroups : p >= 1
      BY <1>0, NetFacts
    <3>3. \A p \in PlainGroups : p \notin computed
      BY <2>3, <3>1, <3>2 DEF Orderly, Progressed
    <3>4. \A p \in PlainGroups : p >= rG
      BY <2>3, <3>3
    <3>5. rG' >= 1 /\ rG' = rG
      BY <2>3, <2>4
    <3>6. \A p \in PlainGroups' : p >= 1 => p >= rG'
      BY <1>2, <3>4, <3>5
    <3>7. pc'["read"] \in {"r_chunk", "r_loaded", "r_computed"}
      BY <2>1
    <3> QED
      BY <2>4, <3>5, <3>6, <3>7 DEF Fed
  <2>7. ASSUME pc["compute"] = "c_next" PROVE Fed(cG + 1)'
    <3>1. \A p \in PlainGroups : p \in computed <=> p <= cG
      BY <2>3, <2>7 DEF Orderly, Progressed, AfterLabels
    <3>2. rG >= cG + 1 /\ \A p \in PlainGroups : p >= cG + 1 => p >= rG
      BY <2>3, <3>1
    <3> QED
      BY <1>2, <2>1, <2>4, <3>2 DEF Fed
  <2>8. pc["compute"] \in WorkLabels => consumed <= loaded'
    <3>1. ASSUME pc["compute"] \in WorkLabels PROVE consumed <= loaded /\ loaded = rChunk /\ consumed \in Nat
      BY <3>1, <2>3 DEF SingleRun, Threading, Numbers, ComputePlace, Orderly, Feeding, Fed
    <3> QED
      BY <2>2, <3>1
  <2> QED
    BY <1>2, <2>1, <2>2, <2>5, <2>6, <2>7, <2>8 DEF Orderly, Feeding
<1>6. Handing'
  BY <1>0, <1>1, <1>2, NetFacts, Wakeful, WaitLabels DEF SingleRun, Threading, Positions, ReadPlace, ComputePlace, Once, Orderly, Handing, Waits, ReadMoves, ReadChunk, shared, readVars, computeVars, writeVars, AtGroup, WorkLabels, AfterLabels
<1>7. Written'
  <2>1. (Waits' <=> Waits) /\ cG' = cG /\ cSub' = cSub /\ pc'["compute"] = pc["compute"]
    BY <1>1, Wakeful DEF Waits, ReadMoves, ReadChunk, readVars, computeVars
  <2>2. \A h \in Outputs : Due(h)' <=> Due(h)
    BY <2>1 DEF Due, HandedOver
  <2> QED
    BY <1>2, <2>1, <2>2, WrittenFrame DEF Orderly, Written, ReadChunk, writeVars
<1>8. Ended'
  <2>1. active' <=> cG' # 0 /\ pc'["compute"] # "c_start"
    BY <1>0, <1>1, <1>2, NetFacts DEF SingleRun, Threading, Positions, ComputePlace, Orderly, Ended, ReadMoves, ReadChunk, computeVars, shared, WorkLabels, AfterLabels
  <2>2. allDone' => streamsDone' /\ ~Waits' /\ \A g \in PlainGroups : g < cG'
    BY <1>0, <1>1, <1>2, NetFacts, Wakeful, WaitLabels DEF SingleRun, Threading, Flags, Positions, ComputePlace, Once, Orderly, Progressed, Handing, Waits, Ended, ReadMoves, ReadChunk, HandOver, SetRunning, Finalize, shared, readVars, computeVars, WorkLabels, AfterLabels
  <2>3. /\ pc'["compute"] = "c_init" /\ streamsDone' => awake'["compute"]
        /\ pc'["compute"] = "c_start" /\ cG' = 0 => rG' = 0
    BY <1>0, <1>1, <1>2, NetFacts, Wakeful, WaitLabels DEF SingleRun, Threading, Positions, ReadPlace, ComputePlace, Once, Starting, Orderly, Ended, ReadMoves, ReadChunk, AtGroup, shared, readVars, computeVars
  <2> QED
    BY <1>2, <2>1, <2>2, <2>3, Zenon DEF Ended
<1> QED
  BY <1>3, <1>4, <1>5, <1>6, <1>7, <1>8 DEF Orderly

LEMMA ReadLoadedOrderly ==
  ASSUME SingleRun, Orderly, Sequential(setup), ReadLoaded
  PROVE  Orderly'
<1>0. Kernel
  BY DEF SingleRun, Threading
<1>1. PICK l \in {"r_free", "r_computed"} :
        ReadMoves("r_loaded", l, {}) /\ (l = "r_free" => computeDone)
  BY <1>0, ReadLoadedMoves, SequentialFacts DEF Orderly, Handing, ReadMoves
<1>2. net' = net /\ Groups' = Groups /\ PlainGroups' = PlainGroups /\ setup' = setup
  BY <1>1, SetupFrame DEF ReadMoves
<1>3. Progressed'
  BY <1>0, <1>1, <1>2, NetFacts, Wakeful, WaitLabels DEF SingleRun, Threading, Positions, ReadPlace, ComputePlace, Once, Orderly, Progressed, ReadMoves, ReadLoaded, shared, readVars, computeVars, writeVars, AtGroup, WorkLabels, AfterLabels
<1>4. Chunks'
  BY <1>0, <1>1, <1>2, NetFacts, Wakeful, WaitLabels DEF SingleRun, Threading, Positions, ReadPlace, ComputePlace, Once, Orderly, Progressed, Chunks, ReadMoves, ReadLoaded, shared, readVars, computeVars, writeVars, AtGroup, WorkLabels, AfterLabels
<1>5. Feeding'
  BY <1>0, <1>1, <1>2, NetFacts, Wakeful, WaitLabels DEF SingleRun, Threading, Positions, ReadPlace, ComputePlace, Once, Orderly, Progressed, Chunks, Feeding, Fed, ReadMoves, ReadLoaded, shared, readVars, computeVars, writeVars, AtGroup, WorkLabels, AfterLabels
<1>6. Handing'
  BY <1>0, <1>1, <1>2, NetFacts, Wakeful, WaitLabels DEF SingleRun, Threading, Positions, ReadPlace, ComputePlace, Once, Orderly, Handing, Waits, ReadMoves, ReadLoaded, shared, readVars, computeVars, writeVars, AtGroup, WorkLabels, AfterLabels
<1>7. Written'
  <2>1. (Waits' <=> Waits) /\ cG' = cG /\ cSub' = cSub /\ pc'["compute"] = pc["compute"]
    BY <1>1, Wakeful DEF Waits, ReadMoves, ReadLoaded, readVars, computeVars
  <2>2. \A h \in Outputs : Due(h)' <=> Due(h)
    BY <2>1 DEF Due, HandedOver
  <2> QED
    BY <1>2, <2>1, <2>2, WrittenFrame DEF Orderly, Written, ReadLoaded, writeVars
<1>8. Ended'
  <2>1. active' <=> cG' # 0 /\ pc'["compute"] # "c_start"
    BY <1>0, <1>1, <1>2, NetFacts DEF SingleRun, Threading, Positions, ComputePlace, Orderly, Ended, ReadMoves, ReadLoaded, computeVars, shared, WorkLabels, AfterLabels
  <2>2. allDone' => streamsDone' /\ ~Waits' /\ \A g \in PlainGroups : g < cG'
    BY <1>0, <1>1, <1>2, NetFacts, Wakeful, WaitLabels DEF SingleRun, Threading, Flags, Positions, ComputePlace, Once, Orderly, Progressed, Handing, Waits, Ended, ReadMoves, ReadLoaded, HandOver, SetRunning, Finalize, shared, readVars, computeVars, WorkLabels, AfterLabels
  <2>3. /\ pc'["compute"] = "c_init" /\ streamsDone' => awake'["compute"]
        /\ pc'["compute"] = "c_start" /\ cG' = 0 => rG' = 0
    BY <1>0, <1>1, <1>2, NetFacts, Wakeful, WaitLabels DEF SingleRun, Threading, Positions, ReadPlace, ComputePlace, Once, Starting, Orderly, Ended, ReadMoves, ReadLoaded, AtGroup, shared, readVars, computeVars
  <2> QED
    BY <1>2, <2>1, <2>2, <2>3, Zenon DEF Ended
<1> QED
  BY <1>3, <1>4, <1>5, <1>6, <1>7, <1>8 DEF Orderly

LEMMA ReadFreeOrderly ==
  ASSUME SingleRun, Orderly, Sequential(setup), ReadFree
  PROVE  Orderly'
<1>0. Kernel
  BY DEF SingleRun, Threading
<1>1. PICK x \in {"r_computed", "r_free"}, l \in {"r_written", "r_next"} : ReadMoves(x, l, {})
  BY <1>0, ReadFreeMoves, SequentialFacts DEF Orderly, Handing, ReadMoves
<1>2. net' = net /\ Groups' = Groups /\ PlainGroups' = PlainGroups /\ setup' = setup
  BY <1>1, SetupFrame DEF ReadMoves
<1>3. Progressed'
  BY <1>0, <1>1, <1>2, NetFacts, Wakeful, WaitLabels DEF SingleRun, Threading, Positions, ReadPlace, ComputePlace, Once, Orderly, Progressed, ReadMoves, ReadFree, shared, readVars, computeVars, writeVars, AtGroup, WorkLabels, AfterLabels
<1>4. Chunks'
  BY <1>0, <1>1, <1>2, NetFacts, Wakeful, WaitLabels DEF SingleRun, Threading, Positions, ReadPlace, ComputePlace, Once, Orderly, Progressed, Chunks, ReadMoves, ReadFree, shared, readVars, computeVars, writeVars, AtGroup, WorkLabels, AfterLabels
<1>5. Feeding'
  BY <1>0, <1>1, <1>2, NetFacts, Wakeful, WaitLabels DEF SingleRun, Threading, Positions, ReadPlace, ComputePlace, Once, Orderly, Progressed, Chunks, Feeding, Fed, ReadMoves, ReadFree, shared, readVars, computeVars, writeVars, AtGroup, WorkLabels, AfterLabels
<1>6. Handing'
  BY <1>0, <1>1, <1>2, NetFacts, Wakeful, WaitLabels DEF SingleRun, Threading, Positions, ReadPlace, ComputePlace, Once, Orderly, Handing, Waits, ReadMoves, ReadFree, shared, readVars, computeVars, writeVars, AtGroup, WorkLabels, AfterLabels
<1>7. Written'
  <2>1. (Waits' <=> Waits) /\ cG' = cG /\ cSub' = cSub /\ pc'["compute"] = pc["compute"]
    BY <1>1, Wakeful DEF Waits, ReadMoves, ReadFree, readVars, computeVars
  <2>2. \A h \in Outputs : Due(h)' <=> Due(h)
    BY <2>1 DEF Due, HandedOver
  <2> QED
    BY <1>2, <2>1, <2>2, WrittenFrame DEF Orderly, Written, ReadFree, writeVars
<1>8. Ended'
  <2>1. active' <=> cG' # 0 /\ pc'["compute"] # "c_start"
    BY <1>0, <1>1, <1>2, NetFacts DEF SingleRun, Threading, Positions, ComputePlace, Orderly, Ended, ReadMoves, ReadFree, computeVars, shared, WorkLabels, AfterLabels
  <2>2. allDone' => streamsDone' /\ ~Waits' /\ \A g \in PlainGroups : g < cG'
    BY <1>0, <1>1, <1>2, NetFacts, Wakeful, WaitLabels DEF SingleRun, Threading, Flags, Positions, ComputePlace, Once, Orderly, Progressed, Handing, Waits, Ended, ReadMoves, ReadFree, HandOver, SetRunning, Finalize, shared, readVars, computeVars, WorkLabels, AfterLabels
  <2>3. /\ pc'["compute"] = "c_init" /\ streamsDone' => awake'["compute"]
        /\ pc'["compute"] = "c_start" /\ cG' = 0 => rG' = 0
    BY <1>0, <1>1, <1>2, NetFacts, Wakeful, WaitLabels DEF SingleRun, Threading, Positions, ReadPlace, ComputePlace, Once, Starting, Orderly, Ended, ReadMoves, ReadFree, AtGroup, shared, readVars, computeVars
  <2> QED
    BY <1>2, <2>1, <2>2, <2>3, Zenon DEF Ended
<1> QED
  BY <1>3, <1>4, <1>5, <1>6, <1>7, <1>8 DEF Orderly

LEMMA ReadNextOrderly ==
  ASSUME SingleRun, Orderly, Sequential(setup), ReadNext
  PROVE  Orderly'
<1>0. Kernel
  BY DEF SingleRun, Threading
<1>1. PICK x \in {"r_written", "r_next"} : ReadMoves(x, "r_layer", {})
  BY <1>0, ReadNextMoves, SequentialFacts DEF Orderly, Handing, ReadMoves
<1>2. net' = net /\ Groups' = Groups /\ PlainGroups' = PlainGroups /\ setup' = setup
  BY <1>1, SetupFrame DEF ReadMoves
<1>3. Progressed'
  BY <1>0, <1>1, <1>2, NetFacts, Wakeful, WaitLabels DEF SingleRun, Threading, Positions, ReadPlace, ComputePlace, Once, Orderly, Progressed, ReadMoves, ReadNext, shared, readVars, computeVars, writeVars, AtGroup, WorkLabels, AfterLabels
<1>4. Chunks'
  BY <1>0, <1>1, <1>2, NetFacts, Wakeful, WaitLabels DEF SingleRun, Threading, Positions, ReadPlace, ComputePlace, Once, Orderly, Progressed, Chunks, ReadMoves, ReadNext, shared, readVars, computeVars, writeVars, AtGroup, WorkLabels, AfterLabels
<1>5. Feeding'
  BY <1>0, <1>1, <1>2, NetFacts, Wakeful, WaitLabels DEF SingleRun, Threading, Positions, ReadPlace, ComputePlace, Once, Orderly, Progressed, Chunks, Feeding, Fed, ReadMoves, ReadNext, shared, readVars, computeVars, writeVars, AtGroup, WorkLabels, AfterLabels
<1>6. Handing'
  BY <1>0, <1>1, <1>2, NetFacts, Wakeful, WaitLabels DEF SingleRun, Threading, Positions, ReadPlace, ComputePlace, Once, Orderly, Handing, Waits, ReadMoves, ReadNext, shared, readVars, computeVars, writeVars, AtGroup, WorkLabels, AfterLabels
<1>7. Written'
  <2>1. (Waits' <=> Waits) /\ cG' = cG /\ cSub' = cSub /\ pc'["compute"] = pc["compute"]
    BY <1>1, Wakeful DEF Waits, ReadMoves, ReadNext, readVars, computeVars
  <2>2. \A h \in Outputs : Due(h)' <=> Due(h)
    BY <2>1 DEF Due, HandedOver
  <2> QED
    BY <1>2, <2>1, <2>2, WrittenFrame DEF Orderly, Written, ReadNext, writeVars
<1>8. Ended'
  <2>1. active' <=> cG' # 0 /\ pc'["compute"] # "c_start"
    BY <1>0, <1>1, <1>2, NetFacts DEF SingleRun, Threading, Positions, ComputePlace, Orderly, Ended, ReadMoves, ReadNext, computeVars, shared, WorkLabels, AfterLabels
  <2>2. allDone' => streamsDone' /\ ~Waits' /\ \A g \in PlainGroups : g < cG'
    BY <1>0, <1>1, <1>2, NetFacts, Wakeful, WaitLabels DEF SingleRun, Threading, Flags, Positions, ComputePlace, Once, Orderly, Progressed, Handing, Waits, Ended, ReadMoves, ReadNext, HandOver, SetRunning, Finalize, shared, readVars, computeVars, WorkLabels, AfterLabels
  <2>3. /\ pc'["compute"] = "c_init" /\ streamsDone' => awake'["compute"]
        /\ pc'["compute"] = "c_start" /\ cG' = 0 => rG' = 0
    BY <1>0, <1>1, <1>2, NetFacts, Wakeful, WaitLabels DEF SingleRun, Threading, Positions, ReadPlace, ComputePlace, Once, Starting, Orderly, Ended, ReadMoves, ReadNext, AtGroup, shared, readVars, computeVars
  <2> QED
    BY <1>2, <2>1, <2>2, <2>3, Zenon DEF Ended
<1> QED
  BY <1>3, <1>4, <1>5, <1>6, <1>7, <1>8 DEF Orderly

LEMMA ReadFinishOrderly ==
  ASSUME SingleRun, Orderly, Sequential(setup), ReadFinish
  PROVE  Orderly'
<1>0. Kernel
  BY DEF SingleRun, Threading
<1>1. ReadMoves("r_layer", "r_start", {"data_chunk"})
  BY <1>0, ReadFinishMoves, SequentialFacts DEF Orderly, Handing, ReadMoves
<1>2. net' = net /\ Groups' = Groups /\ PlainGroups' = PlainGroups /\ setup' = setup
  BY <1>1, SetupFrame DEF ReadMoves
<1>3. Progressed'
  BY <1>0, <1>1, <1>2, NetFacts, Wakeful, WaitLabels DEF SingleRun, Threading, Positions, ReadPlace, ComputePlace, Once, Orderly, Progressed, ReadMoves, ReadFinish, shared, readVars, computeVars, writeVars, AtGroup, WorkLabels, AfterLabels
<1>4. Chunks'
  BY <1>0, <1>1, <1>2, NetFacts, Wakeful, WaitLabels DEF SingleRun, Threading, Positions, ReadPlace, ComputePlace, Once, Orderly, Progressed, Chunks, ReadMoves, ReadFinish, shared, readVars, computeVars, writeVars, AtGroup, WorkLabels, AfterLabels
<1>5. Feeding'
  BY <1>0, <1>1, <1>2, NetFacts, Wakeful, WaitLabels DEF SingleRun, Threading, Positions, ReadPlace, ComputePlace, Once, Orderly, Progressed, Chunks, Feeding, Fed, ReadMoves, ReadFinish, shared, readVars, computeVars, writeVars, AtGroup, WorkLabels, AfterLabels
<1>6. Handing'
  BY <1>0, <1>1, <1>2, NetFacts, Wakeful, WaitLabels DEF SingleRun, Threading, Positions, ReadPlace, ComputePlace, Once, Orderly, Handing, Waits, ReadMoves, ReadFinish, shared, readVars, computeVars, writeVars, AtGroup, WorkLabels, AfterLabels
<1>7. Written'
  <2>1. (Waits' <=> Waits) /\ cG' = cG /\ cSub' = cSub /\ pc'["compute"] = pc["compute"]
    BY <1>1, Wakeful DEF Waits, ReadMoves, ReadFinish, readVars, computeVars
  <2>2. \A h \in Outputs : Due(h)' <=> Due(h)
    BY <2>1 DEF Due, HandedOver
  <2> QED
    BY <1>2, <2>1, <2>2, WrittenFrame DEF Orderly, Written, ReadFinish, writeVars
<1>8. Ended'
  <2>1. active' <=> cG' # 0 /\ pc'["compute"] # "c_start"
    BY <1>0, <1>1, <1>2, NetFacts DEF SingleRun, Threading, Positions, ComputePlace, Orderly, Ended, ReadMoves, ReadFinish, computeVars, shared, WorkLabels, AfterLabels
  <2>2. allDone' => streamsDone' /\ ~Waits' /\ \A g \in PlainGroups : g < cG'
    BY <1>0, <1>1, <1>2, NetFacts, Wakeful, WaitLabels DEF SingleRun, Threading, Flags, Positions, ComputePlace, Once, Orderly, Progressed, Handing, Waits, Ended, ReadMoves, ReadFinish, HandOver, SetRunning, Finalize, shared, readVars, computeVars, WorkLabels, AfterLabels
  <2>3. /\ pc'["compute"] = "c_init" /\ streamsDone' => awake'["compute"]
        /\ pc'["compute"] = "c_start" /\ cG' = 0 => rG' = 0
    BY <1>0, <1>1, <1>2, NetFacts, Wakeful, WaitLabels DEF SingleRun, Threading, Positions, ReadPlace, ComputePlace, Once, Starting, Orderly, Ended, ReadMoves, ReadFinish, AtGroup, shared, readVars, computeVars
  <2> QED
    BY <1>2, <2>1, <2>2, <2>3, Zenon DEF Ended
<1> QED
  BY <1>3, <1>4, <1>5, <1>6, <1>7, <1>8 DEF Orderly

LEMMA ComputeStartOrderly ==
  ASSUME SingleRun, Orderly, Sequential(setup), ComputeStart
  PROVE  Orderly'
<1>0. Kernel
  BY DEF SingleRun, Threading
<1>1. ComputeMoves("c_start", "c_init", {})
  BY <1>0, ComputeStartMoves, SequentialFacts DEF Orderly, Handing, ComputeMoves
<1>2. net' = net /\ Groups' = Groups /\ PlainGroups' = PlainGroups /\ setup' = setup
  BY <1>1, SetupFrame DEF ComputeMoves
<1>3. Progressed'
  BY <1>0, <1>1, <1>2, NetFacts, Wakeful, WaitLabels DEF SingleRun, Threading, Positions, ReadPlace, ComputePlace, Once, Orderly, Progressed, ComputeMoves, ComputeStart, shared, readVars, computeVars, writeVars, AtGroup, WorkLabels, AfterLabels
<1>4. Chunks'
  BY <1>0, <1>1, <1>2, NetFacts, Wakeful, WaitLabels DEF SingleRun, Threading, Positions, ReadPlace, ComputePlace, Once, Orderly, Progressed, Chunks, ComputeMoves, ComputeStart, shared, readVars, computeVars, writeVars, AtGroup, WorkLabels, AfterLabels
<1>5. Feeding'
  BY <1>0, <1>1, <1>2, NetFacts, Wakeful, WaitLabels DEF SingleRun, Threading, Positions, ReadPlace, ComputePlace, Once, Orderly, Progressed, Chunks, Feeding, Fed, ComputeMoves, ComputeStart, shared, readVars, computeVars, writeVars, AtGroup, WorkLabels, AfterLabels
<1>6. Handing'
  BY <1>0, <1>1, <1>2, NetFacts, Wakeful, WaitLabels DEF SingleRun, Threading, Positions, ReadPlace, ComputePlace, Once, Orderly, Handing, Waits, ComputeMoves, ComputeStart, shared, readVars, computeVars, writeVars, AtGroup, WorkLabels, AfterLabels
<1>7. Written'
  <2>1. \A h \in Outputs : Due(h)' <=> Due(h)
    <3>1. /\ pc["compute"] = "c_start" /\ pc'["compute"] = "c_init" /\ cG = 0 /\ cG' = 0
      BY <1>1, WaitLabels DEF SingleRun, Once, ComputeMoves, ComputeStart
    <3> QED
      BY <3>1 DEF Due, HandedOver, Waits, AfterLabels
  <2>2. cSub' \in Nat /\ (pc'["compute"] \in WorkLabels => cSub' = 1) /\ (pc'["compute"] \in AfterLabels => 1 <= cSub' /\ cSub' <= Len(net[cG'].writes))
    BY <1>0, <1>1, <1>2, NetFacts DEF SingleRun, Threading, Positions, ComputePlace, Orderly, Written, ComputeMoves, ComputeStart, computeVars, WorkLabels, AfterLabels
  <2> QED
    BY <1>2, <2>1, <2>2, WrittenFrame DEF Orderly, ComputeStart, writeVars
<1>8. Ended'
  <2>1. active' <=> cG' # 0 /\ pc'["compute"] # "c_start"
    <3>1. active' = active /\ cG' = cG /\ pc["compute"] = "c_start" /\ cG = 0
      BY <1>1, WaitLabels DEF SingleRun, Threading, Once, ComputeMoves, ComputeStart, computeVars, shared
    <3> QED
      BY <3>1, Zenon DEF Orderly, Ended
  <2>2. allDone' => streamsDone' /\ ~Waits' /\ \A g \in PlainGroups : g < cG'
    BY <1>0, <1>1, <1>2, NetFacts, Wakeful, WaitLabels DEF SingleRun, Threading, Flags, Positions, ComputePlace, Once, Orderly, Progressed, Handing, Waits, Ended, ComputeMoves, ComputeStart, HandOver, SetRunning, Finalize, shared, readVars, computeVars, WorkLabels, AfterLabels
  <2>3. /\ pc'["compute"] = "c_init" /\ streamsDone' => awake'["compute"]
        /\ pc'["compute"] = "c_start" /\ cG' = 0 => rG' = 0
    BY <1>0, <1>1, <1>2, NetFacts, Wakeful, WaitLabels DEF SingleRun, Threading, Positions, ReadPlace, ComputePlace, Once, Starting, Orderly, Ended, ComputeMoves, ComputeStart, AtGroup, shared, readVars, computeVars
  <2> QED
    BY <1>2, <2>1, <2>2, <2>3, Zenon DEF Ended
<1> QED
  BY <1>3, <1>4, <1>5, <1>6, <1>7, <1>8 DEF Orderly

LEMMA ComputeInitOrderly ==
  ASSUME SingleRun, Orderly, Sequential(setup), ComputeInit
  PROVE  Orderly'
<1>0. Kernel
  BY DEF SingleRun, Threading
<1>1. ComputeMoves("c_init", "c_layer", {})
  BY <1>0, ComputeInitMoves, SequentialFacts DEF Orderly, Handing, ComputeMoves
<1>2. net' = net /\ Groups' = Groups /\ PlainGroups' = PlainGroups /\ setup' = setup
  BY <1>1, SetupFrame DEF ComputeMoves
<1>3. Progressed'
  BY <1>0, <1>1, <1>2, NetFacts, Wakeful, WaitLabels DEF SingleRun, Threading, Positions, ReadPlace, ComputePlace, Once, Orderly, Progressed, ComputeMoves, ComputeInit, shared, readVars, computeVars, writeVars, AtGroup, WorkLabels, AfterLabels
<1>4. Chunks'
  BY <1>0, <1>1, <1>2, NetFacts, Wakeful, WaitLabels DEF SingleRun, Threading, Positions, ReadPlace, ComputePlace, Once, Orderly, Progressed, Chunks, ComputeMoves, ComputeInit, shared, readVars, computeVars, writeVars, AtGroup, WorkLabels, AfterLabels
<1>5. Feeding'
  BY <1>0, <1>1, <1>2, NetFacts, Wakeful, WaitLabels DEF SingleRun, Threading, Positions, ReadPlace, ComputePlace, Once, Orderly, Progressed, Chunks, Feeding, Fed, ComputeMoves, ComputeInit, shared, readVars, computeVars, writeVars, AtGroup, WorkLabels, AfterLabels
<1>6. Handing'
  BY <1>0, <1>1, <1>2, NetFacts, Wakeful, WaitLabels DEF SingleRun, Threading, Positions, ReadPlace, ComputePlace, Once, Orderly, Handing, Waits, ComputeMoves, ComputeInit, shared, readVars, computeVars, writeVars, AtGroup, WorkLabels, AfterLabels
<1>7. Written'
  <2>1. \A h \in Outputs : Due(h)' <=> Due(h)
    BY <1>0, <1>1, <1>2, NetFacts, OutputFacts, WaitLabels DEF SingleRun, Threading, Positions, ComputePlace, Orderly, Written, Waits, Due, HandedOver, ComputeMoves, ComputeInit, HandOver, computeVars, WorkLabels, AfterLabels
  <2>2. cSub' \in Nat /\ (pc'["compute"] \in WorkLabels => cSub' = 1) /\ (pc'["compute"] \in AfterLabels => 1 <= cSub' /\ cSub' <= Len(net[cG'].writes))
    BY <1>0, <1>1, <1>2, NetFacts DEF SingleRun, Threading, Positions, ComputePlace, Orderly, Written, ComputeMoves, ComputeInit, computeVars, WorkLabels, AfterLabels
  <2> QED
    BY <1>2, <2>1, <2>2, WrittenFrame DEF Orderly, ComputeInit, writeVars
<1>8. Ended'
  <2>1. active' <=> cG' # 0 /\ pc'["compute"] # "c_start"
    BY <1>0, <1>1, <1>2, NetFacts DEF SingleRun, Threading, Positions, ComputePlace, Orderly, Ended, ComputeMoves, ComputeInit, shared, WorkLabels, AfterLabels
  <2>2. allDone' => streamsDone' /\ ~Waits' /\ \A g \in PlainGroups : g < cG'
    BY <1>0, <1>1, <1>2, NetFacts, Wakeful, WaitLabels DEF SingleRun, Threading, Flags, Positions, ComputePlace, Once, Orderly, Progressed, Handing, Waits, Ended, ComputeMoves, ComputeInit, HandOver, SetRunning, Finalize, shared, readVars, computeVars, WorkLabels, AfterLabels
  <2>3. /\ pc'["compute"] = "c_init" /\ streamsDone' => awake'["compute"]
        /\ pc'["compute"] = "c_start" /\ cG' = 0 => rG' = 0
    BY <1>0, <1>1, <1>2, NetFacts, Wakeful, WaitLabels DEF SingleRun, Threading, Positions, ReadPlace, ComputePlace, Once, Starting, Orderly, Ended, ComputeMoves, ComputeInit, AtGroup, shared, readVars, computeVars
  <2> QED
    BY <1>2, <2>1, <2>2, <2>3, Zenon DEF Ended
<1> QED
  BY <1>3, <1>4, <1>5, <1>6, <1>7, <1>8 DEF Orderly

LEMMA ComputeSkipOrderly ==
  ASSUME SingleRun, Orderly, Sequential(setup), ComputeSkip
  PROVE  Orderly'
<1>0. Kernel
  BY DEF SingleRun, Threading
<1>1. ComputeMoves("c_layer", "c_layer", {})
  BY <1>0, ComputeSkipMoves, SequentialFacts DEF Orderly, Handing, ComputeMoves
<1>2. net' = net /\ Groups' = Groups /\ PlainGroups' = PlainGroups /\ setup' = setup
  BY <1>1, SetupFrame DEF ComputeMoves
<1>3. Progressed'
  BY <1>0, <1>1, <1>2, NetFacts, Wakeful, WaitLabels DEF SingleRun, Threading, Positions, ReadPlace, ComputePlace, Once, Orderly, Progressed, ComputeMoves, ComputeSkip, shared, readVars, computeVars, writeVars, AtGroup, WorkLabels, AfterLabels
<1>4. Chunks'
  BY <1>0, <1>1, <1>2, NetFacts, Wakeful, WaitLabels DEF SingleRun, Threading, Positions, ReadPlace, ComputePlace, Once, Orderly, Progressed, Chunks, ComputeMoves, ComputeSkip, shared, readVars, computeVars, writeVars, AtGroup, WorkLabels, AfterLabels
<1>5. Feeding'
  BY <1>0, <1>1, <1>2, NetFacts, Wakeful, WaitLabels DEF SingleRun, Threading, Positions, ReadPlace, ComputePlace, Once, Orderly, Progressed, Chunks, Feeding, Fed, ComputeMoves, ComputeSkip, shared, readVars, computeVars, writeVars, AtGroup, WorkLabels, AfterLabels
<1>6. Handing'
  BY <1>0, <1>1, <1>2, NetFacts, Wakeful, WaitLabels DEF SingleRun, Threading, Positions, ReadPlace, ComputePlace, Once, Orderly, Handing, Waits, ComputeMoves, ComputeSkip, shared, readVars, computeVars, writeVars, AtGroup, WorkLabels, AfterLabels
<1>7. Written'
  <2>1. \A h \in Outputs : Due(h)' <=> Due(h)
    <3>1. /\ pc["compute"] = "c_layer" /\ pc'["compute"] = "c_layer"
          /\ cG' = cG + 1 /\ cG \in Nat /\ cG \notin PlainGroups
      BY <1>0, <1>1, NetFacts DEF ComputeMoves, ComputeSkip, SingleRun, Threading, Positions
    <3>2. ASSUME NEW h \in Outputs PROVE h[1] \in Nat /\ (h[1] < cG <=> h[1] < cG + 1)
      BY <1>0, <3>1, NetFacts, OutputFacts
    <3> QED
      BY <3>1, <3>2 DEF Due, HandedOver, Waits, AfterLabels
  <2>2. cSub' \in Nat /\ (pc'["compute"] \in WorkLabels => cSub' = 1) /\ (pc'["compute"] \in AfterLabels => 1 <= cSub' /\ cSub' <= Len(net[cG'].writes))
    BY <1>0, <1>1, <1>2, NetFacts DEF SingleRun, Threading, Positions, ComputePlace, Orderly, Written, ComputeMoves, ComputeSkip, computeVars, WorkLabels, AfterLabels
  <2> QED
    BY <1>2, <2>1, <2>2, WrittenFrame DEF Orderly, ComputeSkip, writeVars
<1>8. Ended'
  <2>1. active' <=> cG' # 0 /\ pc'["compute"] # "c_start"
    BY <1>0, <1>1, <1>2, NetFacts DEF SingleRun, Threading, Positions, ComputePlace, Orderly, Ended, ComputeMoves, ComputeSkip, shared, WorkLabels, AfterLabels
  <2>2. allDone' => streamsDone' /\ ~Waits' /\ \A g \in PlainGroups : g < cG'
    BY <1>0, <1>1, <1>2, NetFacts, Wakeful, WaitLabels DEF SingleRun, Threading, Flags, Positions, ComputePlace, Once, Orderly, Progressed, Handing, Waits, Ended, ComputeMoves, ComputeSkip, HandOver, SetRunning, Finalize, shared, readVars, computeVars, WorkLabels, AfterLabels
  <2>3. /\ pc'["compute"] = "c_init" /\ streamsDone' => awake'["compute"]
        /\ pc'["compute"] = "c_start" /\ cG' = 0 => rG' = 0
    BY <1>0, <1>1, <1>2, NetFacts, Wakeful, WaitLabels DEF SingleRun, Threading, Positions, ReadPlace, ComputePlace, Once, Starting, Orderly, Ended, ComputeMoves, ComputeSkip, AtGroup, shared, readVars, computeVars
  <2> QED
    BY <1>2, <2>1, <2>2, <2>3, Zenon DEF Ended
<1> QED
  BY <1>3, <1>4, <1>5, <1>6, <1>7, <1>8 DEF Orderly

LEMMA ComputeLayerOrderly ==
  ASSUME SingleRun, Orderly, Sequential(setup), ComputeLayer
  PROVE  Orderly'
<1>0. Kernel
  BY DEF SingleRun, Threading
<1>1. ComputeMoves("c_layer", "c_check", {})
  BY <1>0, ComputeLayerMoves, SequentialFacts DEF Orderly, Handing, ComputeMoves
<1>2. net' = net /\ Groups' = Groups /\ PlainGroups' = PlainGroups /\ setup' = setup
  BY <1>1, SetupFrame DEF ComputeMoves
<1>3. Progressed'
  BY <1>0, <1>1, <1>2, NetFacts, Wakeful, WaitLabels DEF SingleRun, Threading, Positions, ReadPlace, ComputePlace, Once, Orderly, Progressed, ComputeMoves, ComputeLayer, shared, readVars, computeVars, writeVars, AtGroup, WorkLabels, AfterLabels
<1>4. Chunks'
  BY <1>0, <1>1, <1>2, NetFacts, Wakeful, WaitLabels DEF SingleRun, Threading, Positions, ReadPlace, ComputePlace, Once, Orderly, Progressed, Chunks, ComputeMoves, ComputeLayer, shared, readVars, computeVars, writeVars, AtGroup, WorkLabels, AfterLabels
<1>5. Feeding'
  BY <1>0, <1>1, <1>2, NetFacts, Wakeful, WaitLabels DEF SingleRun, Threading, Positions, ReadPlace, ComputePlace, Once, Orderly, Numbers, Progressed, Chunks, Feeding, Fed, ComputeMoves, ComputeLayer, shared, readVars, computeVars, writeVars, AtGroup, WorkLabels, AfterLabels
<1>6. Handing'
  BY <1>0, <1>1, <1>2, NetFacts, Wakeful, WaitLabels DEF SingleRun, Threading, Positions, ReadPlace, ComputePlace, Once, Orderly, Handing, Waits, ComputeMoves, ComputeLayer, shared, readVars, computeVars, writeVars, AtGroup, WorkLabels, AfterLabels
<1>7. Written'
  <2>1. \A h \in Outputs : Due(h)' <=> Due(h)
    BY <1>0, <1>1, <1>2, NetFacts, OutputFacts, WaitLabels DEF SingleRun, Threading, Positions, ComputePlace, Orderly, Written, Waits, Due, HandedOver, ComputeMoves, ComputeLayer, HandOver, computeVars, WorkLabels, AfterLabels
  <2>2. cSub' \in Nat /\ (pc'["compute"] \in WorkLabels => cSub' = 1) /\ (pc'["compute"] \in AfterLabels => 1 <= cSub' /\ cSub' <= Len(net[cG'].writes))
    BY <1>0, <1>1, <1>2, NetFacts DEF SingleRun, Threading, Positions, ComputePlace, Orderly, Written, ComputeMoves, ComputeLayer, computeVars, WorkLabels, AfterLabels
  <2> QED
    BY <1>2, <2>1, <2>2, WrittenFrame DEF Orderly, ComputeLayer, writeVars
<1>8. Ended'
  <2>1. active' <=> cG' # 0 /\ pc'["compute"] # "c_start"
    BY <1>0, <1>1, <1>2, NetFacts DEF SingleRun, Threading, Positions, ComputePlace, Orderly, Ended, ComputeMoves, ComputeLayer, shared, WorkLabels, AfterLabels
  <2>2. allDone' => streamsDone' /\ ~Waits' /\ \A g \in PlainGroups : g < cG'
    BY <1>0, <1>1, <1>2, NetFacts, Wakeful, WaitLabels DEF SingleRun, Threading, Flags, Positions, ComputePlace, Once, Orderly, Progressed, Handing, Waits, Ended, ComputeMoves, ComputeLayer, HandOver, SetRunning, Finalize, shared, readVars, computeVars, WorkLabels, AfterLabels
  <2>3. /\ pc'["compute"] = "c_init" /\ streamsDone' => awake'["compute"]
        /\ pc'["compute"] = "c_start" /\ cG' = 0 => rG' = 0
    BY <1>0, <1>1, <1>2, NetFacts, Wakeful, WaitLabels DEF SingleRun, Threading, Positions, ReadPlace, ComputePlace, Once, Starting, Orderly, Ended, ComputeMoves, ComputeLayer, AtGroup, shared, readVars, computeVars
  <2> QED
    BY <1>2, <2>1, <2>2, <2>3, Zenon DEF Ended
<1> QED
  BY <1>3, <1>4, <1>5, <1>6, <1>7, <1>8 DEF Orderly

LEMMA ComputeGateOrderly ==
  ASSUME SingleRun, Orderly, Sequential(setup), ComputeGate
  PROVE  Orderly'
<1>0. Kernel
  BY DEF SingleRun, Threading
<1>1. PICK x \in {"c_check", "c_gate"}, l \in {"c_loop", "c_gate"} : ComputeMoves(x, l, {})
  BY <1>0, ComputeGateMoves, SequentialFacts DEF Orderly, Handing, ComputeMoves
<1>2. net' = net /\ Groups' = Groups /\ PlainGroups' = PlainGroups /\ setup' = setup
  BY <1>1, SetupFrame DEF ComputeMoves
<1>3. Progressed'
  BY <1>0, <1>1, <1>2, NetFacts, Wakeful, WaitLabels DEF SingleRun, Threading, Positions, ReadPlace, ComputePlace, Once, Orderly, Progressed, ComputeMoves, ComputeGate, shared, readVars, computeVars, writeVars, AtGroup, WorkLabels, AfterLabels
<1>4. Chunks'
  BY <1>0, <1>1, <1>2, NetFacts, Wakeful, WaitLabels DEF SingleRun, Threading, Positions, ReadPlace, ComputePlace, Once, Orderly, Progressed, Chunks, ComputeMoves, ComputeGate, shared, readVars, computeVars, writeVars, AtGroup, WorkLabels, AfterLabels
<1>5. Feeding'
  BY <1>0, <1>1, <1>2, NetFacts, Wakeful, WaitLabels DEF SingleRun, Threading, Positions, ReadPlace, ComputePlace, Once, Orderly, Progressed, Chunks, Feeding, Fed, ComputeMoves, ComputeGate, shared, readVars, computeVars, writeVars, AtGroup, WorkLabels, AfterLabels
<1>6. Handing'
  BY <1>0, <1>1, <1>2, NetFacts, Wakeful, WaitLabels DEF SingleRun, Threading, Positions, ReadPlace, ComputePlace, Once, Orderly, Handing, Waits, ComputeMoves, ComputeGate, shared, readVars, computeVars, writeVars, AtGroup, WorkLabels, AfterLabels
<1>7. Written'
  <2>1. \A h \in Outputs : Due(h)' <=> Due(h)
    BY <1>0, <1>1, <1>2, NetFacts, OutputFacts, WaitLabels DEF SingleRun, Threading, Positions, ComputePlace, Orderly, Written, Waits, Due, HandedOver, ComputeMoves, ComputeGate, HandOver, computeVars, WorkLabels, AfterLabels
  <2>2. cSub' \in Nat /\ (pc'["compute"] \in WorkLabels => cSub' = 1) /\ (pc'["compute"] \in AfterLabels => 1 <= cSub' /\ cSub' <= Len(net[cG'].writes))
    BY <1>0, <1>1, <1>2, NetFacts DEF SingleRun, Threading, Positions, ComputePlace, Orderly, Written, ComputeMoves, ComputeGate, computeVars, WorkLabels, AfterLabels
  <2> QED
    BY <1>2, <2>1, <2>2, WrittenFrame DEF Orderly, ComputeGate, writeVars
<1>8. Ended'
  <2>1. active' <=> cG' # 0 /\ pc'["compute"] # "c_start"
    <3>1. active' = active /\ cG' = cG /\ pc["compute"] # "c_start" /\ pc'["compute"] # "c_start"
      BY <1>1, WaitLabels DEF ComputeMoves, ComputeGate, computeVars, shared
    <3> QED
      BY <3>1, Zenon DEF Orderly, Ended
  <2>2. allDone' => streamsDone' /\ ~Waits' /\ \A g \in PlainGroups : g < cG'
    BY <1>0, <1>1, <1>2, NetFacts, Wakeful, WaitLabels DEF SingleRun, Threading, Flags, Positions, ComputePlace, Once, Orderly, Progressed, Handing, Waits, Ended, ComputeMoves, ComputeGate, HandOver, SetRunning, Finalize, shared, readVars, computeVars, WorkLabels, AfterLabels
  <2>3. /\ pc'["compute"] = "c_init" /\ streamsDone' => awake'["compute"]
        /\ pc'["compute"] = "c_start" /\ cG' = 0 => rG' = 0
    BY <1>0, <1>1, <1>2, NetFacts, Wakeful, WaitLabels DEF SingleRun, Threading, Positions, ReadPlace, ComputePlace, Once, Starting, Orderly, Ended, ComputeMoves, ComputeGate, AtGroup, shared, readVars, computeVars
  <2> QED
    BY <1>2, <2>1, <2>2, <2>3, Zenon DEF Ended
<1> QED
  BY <1>3, <1>4, <1>5, <1>6, <1>7, <1>8 DEF Orderly

LEMMA ComputeLoopOrderly ==
  ASSUME SingleRun, Orderly, Sequential(setup), ComputeLoop
  PROVE  Orderly'
<1>0. Kernel
  BY DEF SingleRun, Threading
<1>1. PICK x \in {"c_loop", "c_stall", "c_batch"}, l \in {"c_done", "c_stall", "c_batch"} : ComputeMoves(x, l, {})
  BY <1>0, ComputeLoopMoves, SequentialFacts DEF Orderly, Handing, ComputeMoves
<1>2. net' = net /\ Groups' = Groups /\ PlainGroups' = PlainGroups /\ setup' = setup
  BY <1>1, SetupFrame DEF ComputeMoves
<1>3. Progressed'
  BY <1>0, <1>1, <1>2, NetFacts, Wakeful, WaitLabels DEF SingleRun, Threading, Positions, ReadPlace, ComputePlace, Once, Orderly, Progressed, ComputeMoves, ComputeLoop, shared, readVars, computeVars, writeVars, AtGroup, WorkLabels, AfterLabels
<1>4. Chunks'
  BY <1>0, <1>1, <1>2, NetFacts, Wakeful, WaitLabels DEF SingleRun, Threading, Positions, ReadPlace, ComputePlace, Once, Orderly, Progressed, Chunks, ComputeMoves, ComputeLoop, shared, readVars, computeVars, writeVars, AtGroup, WorkLabels, AfterLabels
<1>5. Feeding'
  <2> DEFINE all   == net[cG].chunks
             avail == IF loaded < consumed THEN all ELSE loaded - consumed
             upto  == IF consumed + avail > all THEN all ELSE consumed + avail
             own   == rG = cG /\ loaded >= consumed
  <2>1. /\ pc["compute"] = x /\ pc'["compute"] = l /\ pc'["read"] = pc["read"]
        /\ UNCHANGED <<loaded, allLoaded, rG, rChunk, cG, computed>>
    BY <1>1 DEF ComputeMoves, ComputeLoop, readVars
  <2>2. /\ cG \in PlainGroups /\ Fed(cG) /\ consumed <= loaded /\ misfed = {}
    BY <2>1 DEF SingleRun, Threading, ComputePlace, WorkLabels, Orderly, Feeding
  <2>3. /\ consumed \in Nat /\ loaded \in Nat /\ all \in Nat /\ cG \in Nat
    BY <1>0, <2>2, NetFacts DEF SingleRun, Threading, Numbers, Positions
  <2>4. /\ rG = cG /\ loaded = rChunk /\ pc["read"] \in {"r_chunk", "r_loaded", "r_computed"}
    BY <1>0, <2>2, <2>3, NetFacts DEF Fed, SingleRun, Threading, Positions, ReadPlace, AtGroup
  <2>5. allLoaded => loaded = all
    BY <2>4 DEF Orderly, Chunks
  <2>6. /\ avail = loaded - consumed /\ avail \in Nat
    BY <2>2, <2>3
  <2>7. own /\ ~(consumed < all /\ avail = 0 /\ allLoaded)
    BY <2>2, <2>3, <2>4, <2>5, <2>6
  <2>8. /\ misfed' = {} /\ (l = "c_done" => consumed' = all)
        /\ consumed' = consumed \/ consumed' = upto
    <3>1. ASSUME NEW k, Goto("compute", k, {}) PROVE l = k
      BY <1>0, <2>1, <3>1 DEF Goto, Kernel, Threads
    <3>2. \/ consumed = all /\ consumed' = consumed /\ misfed' = misfed
          \/ Goto("compute", "c_stall", {}) /\ consumed' = consumed /\ misfed' = misfed
          \/ consumed < all /\ avail = 0 /\ allLoaded
          \/ /\ Goto("compute", "c_batch", {}) /\ consumed' = upto
             /\ misfed' = IF own THEN misfed ELSE misfed \cup {cG}
      BY DEF ComputeLoop
    <3> HIDE DEF all, avail, upto, own
    <3> QED
      BY <2>2, <2>7, <3>1, <3>2
  <2>9. consumed' <= loaded
    BY <2>2, <2>3, <2>6, <2>8
  <2>10. Fed(cG)'
    BY <1>2, <2>1, <2>2 DEF Fed
  <2> QED
    BY <1>2, <2>1, <2>8, <2>9, <2>10 DEF Feeding, WorkLabels
<1>6. Handing'
  BY <1>0, <1>1, <1>2, NetFacts, Wakeful, WaitLabels DEF SingleRun, Threading, Positions, ReadPlace, ComputePlace, Once, Orderly, Handing, Waits, ComputeMoves, ComputeLoop, shared, readVars, computeVars, writeVars, AtGroup, WorkLabels, AfterLabels
<1>7. Written'
  <2>1. \A h \in Outputs : Due(h)' <=> Due(h)
    BY <1>0, <1>1, <1>2, NetFacts, OutputFacts, WaitLabels DEF SingleRun, Threading, Positions, ComputePlace, Orderly, Written, Waits, Due, HandedOver, ComputeMoves, ComputeLoop, HandOver, computeVars, WorkLabels, AfterLabels
  <2>2. cSub' \in Nat /\ (pc'["compute"] \in WorkLabels => cSub' = 1) /\ (pc'["compute"] \in AfterLabels => 1 <= cSub' /\ cSub' <= Len(net[cG'].writes))
    BY <1>0, <1>1, <1>2, NetFacts DEF SingleRun, Threading, Positions, ComputePlace, Orderly, Written, ComputeMoves, ComputeLoop, computeVars, WorkLabels, AfterLabels
  <2> QED
    BY <1>2, <2>1, <2>2, WrittenFrame DEF Orderly, ComputeLoop, writeVars
<1>8. Ended'
  <2>1. active' <=> cG' # 0 /\ pc'["compute"] # "c_start"
    BY <1>0, <1>1, <1>2, NetFacts DEF SingleRun, Threading, Positions, ComputePlace, Orderly, Ended, ComputeMoves, ComputeLoop, shared, WorkLabels, AfterLabels
  <2>2. allDone' => streamsDone' /\ ~Waits' /\ \A g \in PlainGroups : g < cG'
    BY <1>0, <1>1, <1>2, NetFacts, Wakeful, WaitLabels DEF SingleRun, Threading, Flags, Positions, ComputePlace, Once, Orderly, Progressed, Handing, Waits, Ended, ComputeMoves, ComputeLoop, HandOver, SetRunning, Finalize, shared, readVars, computeVars, WorkLabels, AfterLabels
  <2>3. /\ pc'["compute"] = "c_init" /\ streamsDone' => awake'["compute"]
        /\ pc'["compute"] = "c_start" /\ cG' = 0 => rG' = 0
    BY <1>0, <1>1, <1>2, NetFacts, Wakeful, WaitLabels DEF SingleRun, Threading, Positions, ReadPlace, ComputePlace, Once, Starting, Orderly, Ended, ComputeMoves, ComputeLoop, AtGroup, shared, readVars, computeVars
  <2> QED
    BY <1>2, <2>1, <2>2, <2>3, Zenon DEF Ended
<1> QED
  BY <1>3, <1>4, <1>5, <1>6, <1>7, <1>8 DEF Orderly

LEMMA ComputeDoneOrderly ==
  ASSUME SingleRun, Orderly, Sequential(setup), ComputeDone
  PROVE  Orderly'
<1>0. Kernel
  BY DEF SingleRun, Threading
<1>1. ComputeMoves("c_done", "c_written", {"compute_done", "output_ready"})
  BY <1>0, ComputeDoneMoves, SequentialFacts DEF Orderly, Handing, ComputeMoves
<1>2. net' = net /\ Groups' = Groups /\ PlainGroups' = PlainGroups /\ setup' = setup
  BY <1>1, SetupFrame DEF ComputeMoves
<1>3. Progressed'
  <2>1. /\ pc["compute"] = "c_done" /\ pc'["compute"] = "c_written" /\ pc'["read"] = pc["read"]
        /\ UNCHANGED <<rG, cG, ran>> /\ computed' = computed \cup {cG}
    BY <1>1 DEF ComputeMoves, ComputeDone, readVars
  <2>2. cG \in PlainGroups /\ Fed(cG) /\ net[cG].chunks <= loaded
    BY <2>1 DEF SingleRun, Threading, ComputePlace, WorkLabels, Orderly, Feeding
  <2>3. rG = cG /\ loaded = rChunk /\ pc["read"] \in {"r_chunk", "r_loaded", "r_computed"}
    BY <1>0, <2>2, NetFacts DEF Fed, SingleRun, Threading, Positions, ReadPlace, AtGroup
  <2>4. pc["read"] = "r_computed"
    <3>1. pc["read"] # "r_chunk"
      BY <1>0, <2>2, <2>3, NetFacts DEF SingleRun, Threading, Numbers, Orderly, Chunks
    <3> QED
      BY <1>1, <2>3, <3>1, WaitLabels DEF ComputeMoves
  <2>5. \A g \in PlainGroups : g \in computed' <=> g < cG \/ g = cG
    BY <2>1 DEF Orderly, Progressed, AfterLabels
  <2>6. \A g \in Groups : g \in ran <=> g \notin PlainGroups /\ g < rG
    BY DEF Orderly, Progressed
  <2>7. \A g \in PlainGroups : (g < rG => g \in computed') /\ (g \in computed' => g < rG \/ g = rG)
    BY <2>3, <2>5
  <2>8. computed' \subseteq PlainGroups
    BY <2>1, <2>2 DEF Orderly, Progressed
  <2> QED
    BY <1>2, <2>1, <2>2, <2>3, <2>4, <2>5, <2>6, <2>7, <2>8 DEF Progressed, AfterLabels
<1>4. Chunks'
  BY <1>0, <1>1, <1>2, NetFacts, Wakeful, WaitLabels DEF SingleRun, Threading, Positions, ReadPlace, ComputePlace, Once, Orderly, Progressed, Chunks, ComputeMoves, ComputeDone, shared, readVars, computeVars, writeVars, AtGroup, WorkLabels, AfterLabels
<1>5. Feeding'
  BY <1>0, <1>1, <1>2, NetFacts, Wakeful, WaitLabels DEF SingleRun, Threading, Positions, ReadPlace, ComputePlace, Once, Orderly, Progressed, Chunks, Feeding, Fed, ComputeMoves, ComputeDone, HandOver, shared, readVars, computeVars, writeVars, AtGroup, WorkLabels, AfterLabels
<1>6. Handing'
  <2>1. /\ pc["compute"] = "c_done" /\ pc'["compute"] \in {"c_written", "c_synced"}
        /\ ~awake'["compute"] /\ pc'["write"] = pc["write"] /\ UNCHANGED wL
        /\ pc["write"] = "w_wait" => awake'["write"]
    BY <1>1, Wakeful DEF ComputeMoves, ComputeDone, writeVars
  <2>2. ~Waits /\ Waits'
    BY <1>1, <2>1, WaitLabels DEF Waits, ComputeMoves
  <2>3. pc["write"] = "w_wait" /\ pending = 0
    BY <2>2 DEF Orderly, Handing
  <2>4. pending' = 1 /\ writeIdx' = <<cG', cSub'>>
    BY <2>1, <2>3 DEF ComputeDone, HandOver, Orderly, Written, WorkLabels
  <2> QED
    BY <2>1, <2>2, <2>3, <2>4 DEF Handing
<1>7. Written'
  <2>1. \A h \in Outputs : Due(h)' <=> Due(h)
    <3>1. /\ pc["compute"] = "c_done" /\ pc'["compute"] = "c_written" /\ ~awake'["compute"] /\ cG' = cG
      BY <1>1 DEF ComputeMoves, ComputeDone
    <3>2. cSub = 1 /\ cSub' = 1
      BY <3>1 DEF Orderly, Written, WorkLabels, ComputeDone
    <3>3. ASSUME NEW h \in Outputs PROVE Due(h) <=> h[1] < cG
      BY <3>1 DEF Due, HandedOver, Waits, AfterLabels
    <3>4. ASSUME NEW h \in Outputs PROVE Due(h)' <=> h[1] < cG
      <4>1. Due(h)' <=> (h[1] < cG \/ (h[1] = cG /\ h[2] <= 1)) /\ h # <<cG, 1>>
        BY <3>1, <3>2 DEF Due, HandedOver, Waits, AfterLabels
      <4>2. h[1] \in Nat /\ cG \in Nat /\ h[2] \in Nat /\ 1 <= h[2] /\ (h = <<cG, 1>> <=> h[1] = cG /\ h[2] = 1)
        BY <1>0, NetFacts, OutputFacts, OutputPairs DEF SingleRun, Threading, Positions
      <4> QED
        BY <4>1, <4>2
    <3> QED
      BY <3>3, <3>4
  <2>2. cSub' \in Nat /\ (pc'["compute"] \in WorkLabels => cSub' = 1) /\ (pc'["compute"] \in AfterLabels => 1 <= cSub' /\ cSub' <= Len(net[cG'].writes))
    BY <1>0, <1>1, <1>2, NetFacts DEF SingleRun, Threading, Positions, ComputePlace, Orderly, Written, ComputeMoves, ComputeDone, computeVars, WorkLabels, AfterLabels
  <2> QED
    BY <1>2, <2>1, <2>2, WrittenFrame DEF Orderly, ComputeDone, writeVars
<1>8. Ended'
  <2>1. active' <=> cG' # 0 /\ pc'["compute"] # "c_start"
    BY <1>0, <1>1, <1>2, NetFacts DEF SingleRun, Threading, Positions, ComputePlace, Orderly, Ended, ComputeMoves, ComputeDone, shared, WorkLabels, AfterLabels
  <2>2. allDone' => streamsDone' /\ ~Waits' /\ \A g \in PlainGroups : g < cG'
    BY <1>0, <1>1, <1>2, NetFacts, Wakeful, WaitLabels DEF SingleRun, Threading, Flags, Positions, ComputePlace, Once, Orderly, Progressed, Handing, Waits, Ended, ComputeMoves, ComputeDone, HandOver, SetRunning, Finalize, shared, readVars, computeVars, WorkLabels, AfterLabels
  <2>3. /\ pc'["compute"] = "c_init" /\ streamsDone' => awake'["compute"]
        /\ pc'["compute"] = "c_start" /\ cG' = 0 => rG' = 0
    BY <1>0, <1>1, <1>2, NetFacts, Wakeful, WaitLabels DEF SingleRun, Threading, Positions, ReadPlace, ComputePlace, Once, Starting, Orderly, Ended, ComputeMoves, ComputeDone, AtGroup, shared, readVars, computeVars
  <2> QED
    BY <1>2, <2>1, <2>2, <2>3, Zenon DEF Ended
<1> QED
  BY <1>3, <1>4, <1>5, <1>6, <1>7, <1>8 DEF Orderly

LEMMA ComputeFreeOrderly ==
  ASSUME SingleRun, Orderly, Sequential(setup), ComputeFree
  PROVE  Orderly'
<1>0. Kernel
  BY DEF SingleRun, Threading
<1>1. PICK l \in {"c_next", "c_sub"} : ComputeMoves("c_written", l, {})
  BY <1>0, ComputeFreeMoves, SequentialFacts DEF Orderly, Handing, ComputeMoves
<1>2. net' = net /\ Groups' = Groups /\ PlainGroups' = PlainGroups /\ setup' = setup
  BY <1>1, SetupFrame DEF ComputeMoves
<1>3. Progressed'
  BY <1>0, <1>1, <1>2, NetFacts, Wakeful, WaitLabels DEF SingleRun, Threading, Positions, ReadPlace, ComputePlace, Once, Orderly, Progressed, ComputeMoves, ComputeFree, shared, readVars, computeVars, writeVars, AtGroup, WorkLabels, AfterLabels
<1>4. Chunks'
  BY <1>0, <1>1, <1>2, NetFacts, Wakeful, WaitLabels DEF SingleRun, Threading, Positions, ReadPlace, ComputePlace, Once, Orderly, Progressed, Chunks, ComputeMoves, ComputeFree, shared, readVars, computeVars, writeVars, AtGroup, WorkLabels, AfterLabels
<1>5. Feeding'
  <2>1. /\ pc["compute"] = "c_written" /\ pc'["compute"] = l /\ ~awake'["compute"]
        /\ UNCHANGED <<rG, cG, computed, misfed, streamsDone>> /\ cG \in PlainGroups
    BY <1>1 DEF ComputeMoves, ComputeFree, readVars, computeVars, SingleRun, Threading, ComputePlace, AfterLabels
  <2>2. l = "c_sub" => cG = Len(net) \/ streamsDone
    BY <1>0, <1>1, <2>1, NetFacts DEF ComputeMoves, ComputeFree, Goto
  <2>3. streamsDone => \A p \in PlainGroups : p <= cG
    BY <1>0, <2>1, NetFacts DEF SingleRun, Threading, Once, Positions, Orderly, Progressed
  <2>4. cG = Len(net) => \A p \in PlainGroups : p <= cG
    BY <1>0, NetFacts
  <2>5. misfed = {}
    BY DEF Orderly, Feeding
  <2> QED
    BY <1>2, <2>1, <2>2, <2>3, <2>4, <2>5 DEF Feeding, WorkLabels
<1>6. Handing'
  BY <1>0, <1>1, <1>2, NetFacts, Wakeful, WaitLabels DEF SingleRun, Threading, Positions, ReadPlace, ComputePlace, Once, Orderly, Handing, Waits, ComputeMoves, ComputeFree, shared, readVars, computeVars, writeVars, AtGroup, WorkLabels, AfterLabels
<1>7. Written'
  <2>1. \A h \in Outputs : Due(h)' <=> Due(h)
    BY <1>0, <1>1, <1>2, NetFacts, OutputFacts, WaitLabels DEF SingleRun, Threading, Positions, ComputePlace, Orderly, Written, Waits, Due, HandedOver, ComputeMoves, ComputeFree, HandOver, computeVars, WorkLabels, AfterLabels
  <2>2. cSub' \in Nat /\ (pc'["compute"] \in WorkLabels => cSub' = 1) /\ (pc'["compute"] \in AfterLabels => 1 <= cSub' /\ cSub' <= Len(net[cG'].writes))
    BY <1>0, <1>1, <1>2, NetFacts DEF SingleRun, Threading, Positions, ComputePlace, Orderly, Written, ComputeMoves, ComputeFree, computeVars, WorkLabels, AfterLabels
  <2> QED
    BY <1>2, <2>1, <2>2, WrittenFrame DEF Orderly, ComputeFree, writeVars
<1>8. Ended'
  <2>1. active' <=> cG' # 0 /\ pc'["compute"] # "c_start"
    <3>1. active' = active /\ cG' = cG /\ pc["compute"] # "c_start" /\ pc'["compute"] # "c_start"
      BY <1>1, WaitLabels DEF ComputeMoves, ComputeFree, computeVars, shared
    <3> QED
      BY <3>1, Zenon DEF Orderly, Ended
  <2>2. allDone' => streamsDone' /\ ~Waits' /\ \A g \in PlainGroups : g < cG'
    BY <1>0, <1>1, <1>2, NetFacts, Wakeful, WaitLabels DEF SingleRun, Threading, Flags, Positions, ComputePlace, Once, Orderly, Progressed, Handing, Waits, Ended, ComputeMoves, ComputeFree, HandOver, SetRunning, Finalize, shared, readVars, computeVars, WorkLabels, AfterLabels
  <2>3. /\ pc'["compute"] = "c_init" /\ streamsDone' => awake'["compute"]
        /\ pc'["compute"] = "c_start" /\ cG' = 0 => rG' = 0
    BY <1>0, <1>1, <1>2, NetFacts, Wakeful, WaitLabels DEF SingleRun, Threading, Positions, ReadPlace, ComputePlace, Once, Starting, Orderly, Ended, ComputeMoves, ComputeFree, AtGroup, shared, readVars, computeVars
  <2> QED
    BY <1>2, <2>1, <2>2, <2>3, Zenon DEF Ended
<1> QED
  BY <1>3, <1>4, <1>5, <1>6, <1>7, <1>8 DEF Orderly

LEMMA ComputeSubOrderly ==
  ASSUME SingleRun, Orderly, Sequential(setup), ComputeSub
  PROVE  Orderly'
<1>0. Kernel
  BY DEF SingleRun, Threading
<1>1. PICK x \in {"c_next", "c_sub"} : ComputeMoves(x, "c_synced", {"compute_done", "output_ready"})
  BY <1>0, ComputeSubMoves, SequentialFacts DEF Orderly, Handing, ComputeMoves
<1>2. net' = net /\ Groups' = Groups /\ PlainGroups' = PlainGroups /\ setup' = setup
  BY <1>1, SetupFrame DEF ComputeMoves
<1>3. Progressed'
  <2>1. /\ pc["compute"] \in AfterLabels /\ pc'["compute"] \in AfterLabels /\ pc'["read"] = pc["read"]
        /\ UNCHANGED <<rG, cG, ran, computed>>
        /\ WaitsAt(pc["read"]) /\ cG \in PlainGroups
    BY <1>1 DEF ComputeMoves, ComputeSub, readVars, AfterLabels, SingleRun, Threading, ComputePlace
  <2>2. cSub < Len(net[cG].writes) /\ Len(net[cG].writes) > 1
    BY <1>0, <2>1, NetFacts DEF ComputeSub, Orderly, Written
  <2>3. \A p \in PlainGroups : p <= cG
    BY <1>0, <2>1, <2>2, SequentialFacts, NetFacts
  <2>4. \A p \in PlainGroups : p \in computed
    BY <1>0, <2>1, <2>3, NetFacts DEF Orderly, Progressed
  <2>5. pc["read"] \notin {"r_chunk", "r_loaded"}
    BY <1>0, <2>1, <2>4, NetFacts DEF SingleRun, Threading, ReadPlace, AtGroup, Orderly, Progressed
  <2>6. pc["read"] = "r_computed" => rG \in computed
    BY <2>4 DEF SingleRun, Threading, ReadPlace, AtGroup
  <2> QED
    BY <1>2, <2>1, <2>5, <2>6 DEF Orderly, Progressed
<1>4. Chunks'
  BY <1>0, <1>1, <1>2, NetFacts, Wakeful, WaitLabels DEF SingleRun, Threading, Positions, ReadPlace, ComputePlace, Once, Orderly, Progressed, Chunks, ComputeMoves, ComputeSub, shared, readVars, computeVars, writeVars, AtGroup, WorkLabels, AfterLabels
<1>5. Feeding'
  <2>1. /\ pc["compute"] = x /\ pc'["compute"] = "c_synced" /\ (x = "c_next" => awake["compute"])
        /\ UNCHANGED <<cG, misfed>> /\ cG \in PlainGroups
    BY <1>1, WaitLabels DEF ComputeMoves, ComputeSub, SingleRun, Threading, ComputePlace, AfterLabels
  <2>2. Len(net[cG].writes) > 1
    BY <1>0, <1>1, <2>1, NetFacts DEF ComputeSub, Orderly, Written, AfterLabels
  <2>3. \A p \in PlainGroups : p <= cG
    BY <1>0, <2>1, <2>2, SequentialFacts, NetFacts
  <2>4. misfed = {}
    BY DEF Orderly, Feeding
  <2> QED
    BY <1>2, <2>1, <2>3, <2>4 DEF Feeding, WorkLabels
<1>6. Handing'
  <2>1. /\ pc["compute"] \in {"c_next", "c_sub"} /\ pc'["compute"] \in {"c_written", "c_synced"}
        /\ ~awake'["compute"] /\ pc'["write"] = pc["write"] /\ UNCHANGED wL
        /\ pc["write"] = "w_wait" => awake'["write"]
    BY <1>1, Wakeful DEF ComputeMoves, ComputeSub, writeVars
  <2>2. ~Waits /\ Waits'
    BY <1>1, <2>1, WaitLabels DEF Waits, ComputeMoves
  <2>3. pc["write"] = "w_wait" /\ pending = 0
    BY <2>2 DEF Orderly, Handing
  <2>4. pending' = 1 /\ writeIdx' = <<cG', cSub'>>
    BY <2>1, <2>3 DEF ComputeSub, HandOver
  <2> QED
    BY <2>1, <2>2, <2>3, <2>4 DEF Handing
<1>7. Written'
  <2>1. \A h \in Outputs : Due(h)' <=> Due(h)
    <3>1. /\ pc["compute"] = x /\ pc'["compute"] = "c_synced" /\ ~awake'["compute"] /\ cG' = cG
          /\ cSub' = cSub + 1 /\ cSub \in Nat
      BY <1>1 DEF ComputeMoves, ComputeSub, Orderly, Written
    <3>2. ASSUME NEW h \in Outputs PROVE Due(h) <=> h[1] < cG \/ (h[1] = cG /\ h[2] <= cSub)
      BY <3>1 DEF Due, HandedOver, Waits, AfterLabels
    <3>3. ASSUME NEW h \in Outputs PROVE Due(h)' <=> h[1] < cG \/ (h[1] = cG /\ h[2] <= cSub)
      <4>1. Due(h)' <=> (h[1] < cG \/ (h[1] = cG /\ h[2] <= cSub + 1)) /\ h # <<cG, cSub + 1>>
        BY <3>1 DEF Due, HandedOver, Waits, AfterLabels
      <4>2. /\ h[1] \in Nat /\ cG \in Nat /\ h[2] \in Nat
            /\ h = <<cG, cSub + 1>> <=> h[1] = cG /\ h[2] = cSub + 1
        BY <1>0, NetFacts, OutputFacts, OutputPairs DEF SingleRun, Threading, Positions
      <4> QED
        BY <3>1, <4>1, <4>2
    <3> QED
      BY <3>2, <3>3
  <2>2. cSub' \in Nat /\ (pc'["compute"] \in WorkLabels => cSub' = 1) /\ (pc'["compute"] \in AfterLabels => 1 <= cSub' /\ cSub' <= Len(net[cG'].writes))
    BY <1>0, <1>1, <1>2, NetFacts DEF SingleRun, Threading, Positions, ComputePlace, Orderly, Written, ComputeMoves, ComputeSub, computeVars, WorkLabels, AfterLabels
  <2> QED
    BY <1>2, <2>1, <2>2, WrittenFrame DEF Orderly, ComputeSub, writeVars
<1>8. Ended'
  <2>1. active' <=> cG' # 0 /\ pc'["compute"] # "c_start"
    BY <1>0, <1>1, <1>2, NetFacts DEF SingleRun, Threading, Positions, ComputePlace, Orderly, Ended, ComputeMoves, ComputeSub, shared, WorkLabels, AfterLabels
  <2>2. allDone' => streamsDone' /\ ~Waits' /\ \A g \in PlainGroups : g < cG'
    BY <1>0, <1>1, <1>2, NetFacts, Wakeful, WaitLabels DEF SingleRun, Threading, Flags, Positions, ComputePlace, Once, Orderly, Progressed, Handing, Waits, Ended, ComputeMoves, ComputeSub, HandOver, SetRunning, Finalize, shared, readVars, computeVars, WorkLabels, AfterLabels
  <2>3. /\ pc'["compute"] = "c_init" /\ streamsDone' => awake'["compute"]
        /\ pc'["compute"] = "c_start" /\ cG' = 0 => rG' = 0
    BY <1>0, <1>1, <1>2, NetFacts, Wakeful, WaitLabels DEF SingleRun, Threading, Positions, ReadPlace, ComputePlace, Once, Starting, Orderly, Ended, ComputeMoves, ComputeSub, AtGroup, shared, readVars, computeVars
  <2> QED
    BY <1>2, <2>1, <2>2, <2>3, Zenon DEF Ended
<1> QED
  BY <1>3, <1>4, <1>5, <1>6, <1>7, <1>8 DEF Orderly

LEMMA ComputeSyncedOrderly ==
  ASSUME SingleRun, Orderly, Sequential(setup), ComputeSynced
  PROVE  Orderly'
<1>0. Kernel
  BY DEF SingleRun, Threading
<1>1. ComputeMoves("c_synced", "c_sub", {})
  BY <1>0, ComputeSyncedMoves, SequentialFacts DEF Orderly, Handing, ComputeMoves
<1>2. net' = net /\ Groups' = Groups /\ PlainGroups' = PlainGroups /\ setup' = setup
  BY <1>1, SetupFrame DEF ComputeMoves
<1>3. Progressed'
  BY <1>0, <1>1, <1>2, NetFacts, Wakeful, WaitLabels DEF SingleRun, Threading, Positions, ReadPlace, ComputePlace, Once, Orderly, Progressed, ComputeMoves, ComputeSynced, shared, readVars, computeVars, writeVars, AtGroup, WorkLabels, AfterLabels
<1>4. Chunks'
  BY <1>0, <1>1, <1>2, NetFacts, Wakeful, WaitLabels DEF SingleRun, Threading, Positions, ReadPlace, ComputePlace, Once, Orderly, Progressed, Chunks, ComputeMoves, ComputeSynced, shared, readVars, computeVars, writeVars, AtGroup, WorkLabels, AfterLabels
<1>5. Feeding'
  BY <1>0, <1>1, <1>2, NetFacts, Wakeful, WaitLabels DEF SingleRun, Threading, Positions, ReadPlace, ComputePlace, Once, Orderly, Progressed, Chunks, Feeding, Fed, ComputeMoves, ComputeSynced, shared, readVars, computeVars, writeVars, AtGroup, WorkLabels, AfterLabels
<1>6. Handing'
  BY <1>0, <1>1, <1>2, NetFacts, Wakeful, WaitLabels DEF SingleRun, Threading, Positions, ReadPlace, ComputePlace, Once, Orderly, Handing, Waits, ComputeMoves, ComputeSynced, shared, readVars, computeVars, writeVars, AtGroup, WorkLabels, AfterLabels
<1>7. Written'
  <2>1. \A h \in Outputs : Due(h)' <=> Due(h)
    BY <1>0, <1>1, <1>2, NetFacts, OutputFacts, WaitLabels DEF SingleRun, Threading, Positions, ComputePlace, Orderly, Written, Waits, Due, HandedOver, ComputeMoves, ComputeSynced, HandOver, computeVars, WorkLabels, AfterLabels
  <2>2. cSub' \in Nat /\ (pc'["compute"] \in WorkLabels => cSub' = 1) /\ (pc'["compute"] \in AfterLabels => 1 <= cSub' /\ cSub' <= Len(net[cG'].writes))
    BY <1>0, <1>1, <1>2, NetFacts DEF SingleRun, Threading, Positions, ComputePlace, Orderly, Written, ComputeMoves, ComputeSynced, computeVars, WorkLabels, AfterLabels
  <2> QED
    BY <1>2, <2>1, <2>2, WrittenFrame DEF Orderly, ComputeSynced, writeVars
<1>8. Ended'
  <2>1. active' <=> cG' # 0 /\ pc'["compute"] # "c_start"
    <3>1. active' = active /\ cG' = cG /\ pc["compute"] # "c_start" /\ pc'["compute"] # "c_start"
      BY <1>1, WaitLabels DEF ComputeMoves, ComputeSynced, computeVars, shared
    <3> QED
      BY <3>1, Zenon DEF Orderly, Ended
  <2>2. allDone' => streamsDone' /\ ~Waits' /\ \A g \in PlainGroups : g < cG'
    BY <1>0, <1>1, <1>2, NetFacts, Wakeful, WaitLabels DEF SingleRun, Threading, Flags, Positions, ComputePlace, Once, Orderly, Progressed, Handing, Waits, Ended, ComputeMoves, ComputeSynced, HandOver, SetRunning, Finalize, shared, readVars, computeVars, WorkLabels, AfterLabels
  <2>3. /\ pc'["compute"] = "c_init" /\ streamsDone' => awake'["compute"]
        /\ pc'["compute"] = "c_start" /\ cG' = 0 => rG' = 0
    BY <1>0, <1>1, <1>2, NetFacts, Wakeful, WaitLabels DEF SingleRun, Threading, Positions, ReadPlace, ComputePlace, Once, Starting, Orderly, Ended, ComputeMoves, ComputeSynced, AtGroup, shared, readVars, computeVars
  <2> QED
    BY <1>2, <2>1, <2>2, <2>3, Zenon DEF Ended
<1> QED
  BY <1>3, <1>4, <1>5, <1>6, <1>7, <1>8 DEF Orderly

LEMMA ComputeNextOrderly ==
  ASSUME SingleRun, Orderly, Sequential(setup), ComputeNext
  PROVE  Orderly'
<1>0. Kernel
  BY DEF SingleRun, Threading
<1>1. PICK x \in {"c_next", "c_sub"} : ComputeMoves(x, "c_layer", {})
  BY <1>0, ComputeNextMoves, SequentialFacts DEF Orderly, Handing, ComputeMoves
<1>2. net' = net /\ Groups' = Groups /\ PlainGroups' = PlainGroups /\ setup' = setup
  BY <1>1, SetupFrame DEF ComputeMoves
<1>3. Progressed'
  BY <1>0, <1>1, <1>2, NetFacts, Wakeful, WaitLabels DEF SingleRun, Threading, Positions, ReadPlace, ComputePlace, Once, Orderly, Progressed, ComputeMoves, ComputeNext, shared, readVars, computeVars, writeVars, AtGroup, WorkLabels, AfterLabels
<1>4. Chunks'
  BY <1>0, <1>1, <1>2, NetFacts, Wakeful, WaitLabels DEF SingleRun, Threading, Positions, ReadPlace, ComputePlace, Once, Orderly, Progressed, Chunks, ComputeMoves, ComputeNext, shared, readVars, computeVars, writeVars, AtGroup, WorkLabels, AfterLabels
<1>5. Feeding'
  BY <1>0, <1>1, <1>2, NetFacts, Wakeful, WaitLabels DEF SingleRun, Threading, Positions, ReadPlace, ComputePlace, Once, Orderly, Progressed, Chunks, Feeding, Fed, ComputeMoves, ComputeNext, shared, readVars, computeVars, writeVars, AtGroup, WorkLabels, AfterLabels
<1>6. Handing'
  BY <1>0, <1>1, <1>2, NetFacts, Wakeful, WaitLabels DEF SingleRun, Threading, Positions, ReadPlace, ComputePlace, Once, Orderly, Handing, Waits, ComputeMoves, ComputeNext, shared, readVars, computeVars, writeVars, AtGroup, WorkLabels, AfterLabels
<1>7. Written'
  <2>1. \A h \in Outputs : Due(h)' <=> Due(h)
    BY <1>0, <1>1, <1>2, NetFacts, OutputFacts, WaitLabels, SMTT(30) DEF SingleRun, Threading, Positions, ComputePlace, Orderly, Written, Waits, Due, HandedOver, ComputeMoves, ComputeNext, HandOver, computeVars, WorkLabels, AfterLabels
  <2>2. cSub' \in Nat /\ (pc'["compute"] \in WorkLabels => cSub' = 1) /\ (pc'["compute"] \in AfterLabels => 1 <= cSub' /\ cSub' <= Len(net[cG'].writes))
    BY <1>0, <1>1, <1>2, NetFacts DEF SingleRun, Threading, Positions, ComputePlace, Orderly, Written, ComputeMoves, ComputeNext, computeVars, WorkLabels, AfterLabels
  <2> QED
    BY <1>2, <2>1, <2>2, WrittenFrame DEF Orderly, ComputeNext, writeVars
<1>8. Ended'
  <2>1. active' <=> cG' # 0 /\ pc'["compute"] # "c_start"
    BY <1>0, <1>1, <1>2, NetFacts DEF SingleRun, Threading, Positions, ComputePlace, Orderly, Ended, ComputeMoves, ComputeNext, shared, WorkLabels, AfterLabels
  <2>2. allDone' => streamsDone' /\ ~Waits' /\ \A g \in PlainGroups : g < cG'
    BY <1>0, <1>1, <1>2, NetFacts, Wakeful, WaitLabels DEF SingleRun, Threading, Flags, Positions, ComputePlace, Once, Orderly, Progressed, Handing, Waits, Ended, ComputeMoves, ComputeNext, HandOver, SetRunning, Finalize, shared, readVars, computeVars, WorkLabels, AfterLabels
  <2>3. /\ pc'["compute"] = "c_init" /\ streamsDone' => awake'["compute"]
        /\ pc'["compute"] = "c_start" /\ cG' = 0 => rG' = 0
    BY <1>0, <1>1, <1>2, NetFacts, Wakeful, WaitLabels DEF SingleRun, Threading, Positions, ReadPlace, ComputePlace, Once, Starting, Orderly, Ended, ComputeMoves, ComputeNext, AtGroup, shared, readVars, computeVars
  <2> QED
    BY <1>2, <2>1, <2>2, <2>3, Zenon DEF Ended
<1> QED
  BY <1>3, <1>4, <1>5, <1>6, <1>7, <1>8 DEF Orderly

LEMMA ComputeFinishOrderly ==
  ASSUME SingleRun, Orderly, Sequential(setup), ComputeFinish
  PROVE  Orderly'
<1>0. Kernel
  BY DEF SingleRun, Threading
<1>1. ComputeMoves("c_layer", "c_start", {})
  BY <1>0, ComputeFinishMoves, SequentialFacts DEF Orderly, Handing, ComputeMoves
<1>2. net' = net /\ Groups' = Groups /\ PlainGroups' = PlainGroups /\ setup' = setup
  BY <1>1, SetupFrame DEF ComputeMoves
<1>3. Progressed'
  BY <1>0, <1>1, <1>2, NetFacts, Wakeful, WaitLabels DEF SingleRun, Threading, Positions, ReadPlace, ComputePlace, Once, Orderly, Progressed, ComputeMoves, ComputeFinish, shared, readVars, computeVars, writeVars, AtGroup, WorkLabels, AfterLabels
<1>4. Chunks'
  BY <1>0, <1>1, <1>2, NetFacts, Wakeful, WaitLabels DEF SingleRun, Threading, Positions, ReadPlace, ComputePlace, Once, Orderly, Progressed, Chunks, ComputeMoves, ComputeFinish, shared, readVars, computeVars, writeVars, AtGroup, WorkLabels, AfterLabels
<1>5. Feeding'
  BY <1>0, <1>1, <1>2, NetFacts, Wakeful, WaitLabels DEF SingleRun, Threading, Positions, ReadPlace, ComputePlace, Once, Orderly, Progressed, Chunks, Feeding, Fed, ComputeMoves, ComputeFinish, shared, readVars, computeVars, writeVars, AtGroup, WorkLabels, AfterLabels
<1>6. Handing'
  BY <1>0, <1>1, <1>2, NetFacts, Wakeful, WaitLabels DEF SingleRun, Threading, Positions, ReadPlace, ComputePlace, Once, Orderly, Handing, Waits, ComputeMoves, ComputeFinish, shared, readVars, computeVars, writeVars, AtGroup, WorkLabels, AfterLabels
<1>7. Written'
  <2>1. \A h \in Outputs : Due(h)' <=> Due(h)
    BY <1>0, <1>1, <1>2, NetFacts, OutputFacts, WaitLabels DEF SingleRun, Threading, Positions, ComputePlace, Orderly, Written, Waits, Due, HandedOver, ComputeMoves, ComputeFinish, HandOver, computeVars, WorkLabels, AfterLabels
  <2>2. cSub' \in Nat /\ (pc'["compute"] \in WorkLabels => cSub' = 1) /\ (pc'["compute"] \in AfterLabels => 1 <= cSub' /\ cSub' <= Len(net[cG'].writes))
    BY <1>0, <1>1, <1>2, NetFacts DEF SingleRun, Threading, Positions, ComputePlace, Orderly, Written, ComputeMoves, ComputeFinish, computeVars, WorkLabels, AfterLabels
  <2> QED
    BY <1>2, <2>1, <2>2, WrittenFrame DEF Orderly, ComputeFinish, writeVars
<1>8. Ended'
  <2>1. active' <=> cG' # 0 /\ pc'["compute"] # "c_start"
    BY <1>0, <1>1, <1>2, NetFacts DEF SingleRun, Threading, Positions, ComputePlace, Orderly, Ended, ComputeMoves, ComputeFinish, shared, WorkLabels, AfterLabels
  <2>2. allDone' => streamsDone' /\ ~Waits' /\ \A g \in PlainGroups : g < cG'
    BY <1>0, <1>1, <1>2, NetFacts, Wakeful, WaitLabels DEF SingleRun, Threading, Flags, Positions, ComputePlace, Once, Orderly, Progressed, Handing, Waits, Ended, ComputeMoves, ComputeFinish, HandOver, SetRunning, Finalize, shared, readVars, computeVars, WorkLabels, AfterLabels
  <2>3. /\ pc'["compute"] = "c_init" /\ streamsDone' => awake'["compute"]
        /\ pc'["compute"] = "c_start" /\ cG' = 0 => rG' = 0
    BY <1>0, <1>1, <1>2, NetFacts, Wakeful, WaitLabels DEF SingleRun, Threading, Positions, ReadPlace, ComputePlace, Once, Starting, Orderly, Ended, ComputeMoves, ComputeFinish, AtGroup, shared, readVars, computeVars
  <2> QED
    BY <1>2, <2>1, <2>2, <2>3, Zenon DEF Ended
<1> QED
  BY <1>3, <1>4, <1>5, <1>6, <1>7, <1>8 DEF Orderly

LEMMA WriteStartOrderly ==
  ASSUME SingleRun, Orderly, Sequential(setup), WriteStart
  PROVE  Orderly'
<1>0. Kernel
  BY DEF SingleRun, Threading
<1>1. PICK l \in {"w_dma", "w_done"} : WriteMoves("w_wait", l, {})
  BY <1>0, WriteStartMoves, SequentialFacts DEF Orderly, Handing, WriteMoves
<1>2. net' = net /\ Groups' = Groups /\ PlainGroups' = PlainGroups /\ setup' = setup
  BY <1>1, SetupFrame DEF WriteMoves
<1>3. Progressed'
  BY <1>0, <1>1, <1>2, NetFacts, Wakeful, WaitLabels DEF SingleRun, Threading, Positions, ReadPlace, ComputePlace, Once, Orderly, Progressed, WriteMoves, WriteStart, shared, readVars, computeVars, writeVars, AtGroup, WorkLabels, AfterLabels
<1>4. Chunks'
  BY <1>0, <1>1, <1>2, NetFacts, Wakeful, WaitLabels DEF SingleRun, Threading, Positions, ReadPlace, ComputePlace, Once, Orderly, Progressed, Chunks, WriteMoves, WriteStart, shared, readVars, computeVars, writeVars, AtGroup, WorkLabels, AfterLabels
<1>5. Feeding'
  BY <1>0, <1>1, <1>2, NetFacts, Wakeful, WaitLabels DEF SingleRun, Threading, Positions, ReadPlace, ComputePlace, Once, Orderly, Progressed, Chunks, Feeding, Fed, WriteMoves, WriteStart, shared, readVars, computeVars, writeVars, AtGroup, WorkLabels, AfterLabels
<1>6. Handing'
  BY <1>0, <1>1, <1>2, NetFacts, Wakeful, WaitLabels DEF SingleRun, Threading, Positions, ReadPlace, ComputePlace, Once, Orderly, Handing, Waits, WriteMoves, WriteStart, shared, readVars, computeVars, writeVars, AtGroup, WorkLabels, AfterLabels
<1>7. Written'
  <2>1. (Waits' <=> Waits) /\ cG' = cG /\ cSub' = cSub /\ pc'["compute"] = pc["compute"]
    BY <1>1, Wakeful DEF Waits, WriteMoves, WriteStart, readVars, computeVars
  <2>2. \A h \in Outputs : Due(h)' <=> Due(h)
    BY <2>1 DEF Due, HandedOver
  <2> QED
    BY <1>2, <2>1, <2>2, WrittenFrame DEF Orderly, Written, WriteStart, writeVars
<1>8. Ended'
  <2>1. active' <=> cG' # 0 /\ pc'["compute"] # "c_start"
    BY <1>0, <1>1, <1>2, NetFacts DEF SingleRun, Threading, Positions, ComputePlace, Orderly, Ended, WriteMoves, WriteStart, computeVars, shared, WorkLabels, AfterLabels
  <2>2. allDone' => streamsDone' /\ ~Waits' /\ \A g \in PlainGroups : g < cG'
    BY <1>0, <1>1, <1>2, NetFacts, Wakeful, WaitLabels DEF SingleRun, Threading, Flags, Positions, ComputePlace, Once, Orderly, Progressed, Handing, Waits, Ended, WriteMoves, WriteStart, HandOver, SetRunning, Finalize, shared, readVars, computeVars, WorkLabels, AfterLabels
  <2>3. /\ pc'["compute"] = "c_init" /\ streamsDone' => awake'["compute"]
        /\ pc'["compute"] = "c_start" /\ cG' = 0 => rG' = 0
    BY <1>0, <1>1, <1>2, NetFacts, Wakeful, WaitLabels DEF SingleRun, Threading, Positions, ReadPlace, ComputePlace, Once, Starting, Orderly, Ended, WriteMoves, WriteStart, AtGroup, shared, readVars, computeVars
  <2> QED
    BY <1>2, <2>1, <2>2, <2>3, Zenon DEF Ended
<1> QED
  BY <1>3, <1>4, <1>5, <1>6, <1>7, <1>8 DEF Orderly

LEMMA WriteDoneOrderly ==
  ASSUME SingleRun, Orderly, Sequential(setup), WriteDone
  PROVE  Orderly'
<1>0. Kernel
  BY DEF SingleRun, Threading
<1>1. PICK x \in {"w_dma", "w_done"} : WriteMoves(x, "w_wait", {"write_done"})
  BY <1>0, WriteDoneMoves, SequentialFacts DEF Orderly, Handing, WriteMoves
<1>2. net' = net /\ Groups' = Groups /\ PlainGroups' = PlainGroups /\ setup' = setup
  BY <1>1, SetupFrame DEF WriteMoves
<1>3. Progressed'
  BY <1>0, <1>1, <1>2, NetFacts, Wakeful, WaitLabels DEF SingleRun, Threading, Positions, ReadPlace, ComputePlace, Once, Orderly, Progressed, WriteMoves, WriteDone, shared, readVars, computeVars, writeVars, AtGroup, WorkLabels, AfterLabels
<1>4. Chunks'
  BY <1>0, <1>1, <1>2, NetFacts, Wakeful, WaitLabels DEF SingleRun, Threading, Positions, ReadPlace, ComputePlace, Once, Orderly, Progressed, Chunks, WriteMoves, WriteDone, shared, readVars, computeVars, writeVars, AtGroup, WorkLabels, AfterLabels
<1>5. Feeding'
  BY <1>0, <1>1, <1>2, NetFacts, Wakeful, WaitLabels DEF SingleRun, Threading, Positions, ReadPlace, ComputePlace, Once, Orderly, Progressed, Chunks, Feeding, Fed, WriteMoves, WriteDone, shared, readVars, computeVars, writeVars, AtGroup, WorkLabels, AfterLabels
<1>6. Handing'
  BY <1>0, <1>1, <1>2, NetFacts, Wakeful, WaitLabels DEF SingleRun, Threading, Positions, ReadPlace, ComputePlace, Once, Orderly, Handing, Waits, WriteMoves, WriteDone, shared, readVars, computeVars, writeVars, AtGroup, WorkLabels, AfterLabels
<1>7. Written'
  <2>1. /\ pc["write"] = x /\ pc'["compute"] = pc["compute"] /\ UNCHANGED <<cG, cSub>>
        /\ (pc["compute"] \in {"c_written", "c_synced"} => awake'["compute"])
    BY <1>1, Wakeful DEF WriteMoves, WriteDone, computeVars
  <2>2. Waits /\ wL = <<cG, cSub>> /\ ~Waits'
    BY <2>1 DEF Orderly, Handing, Waits
  <2>3. /\ cG \in PlainGroups /\ cSub \in Nat /\ 1 <= cSub /\ cSub <= Len(net[cG].writes)
        /\ pc["compute"] \in AfterLabels
    BY <2>2 DEF Waits, AfterLabels, SingleRun, Threading, ComputePlace, Orderly, Written
  <2>4. wL \in Outputs /\ HandedOver(wL)
    BY <1>0, <2>2, <2>3, NetFacts DEF Outputs, HandedOver
  <2>5. written \in Seq(Outputs) /\ written' = Append(written, wL)
    BY DEF Orderly, Written, WriteDone
  <2>6. \A h \in Outputs : Holds(written', h) <=> Holds(written, h) \/ h = wL
    BY <2>4, <2>5, AppendQueue
  <2>7. \A h \in Outputs : Due(h)' <=> HandedOver(h)
    BY <2>1, <2>2 DEF Due, HandedOver
  <2>8. \A h \in Outputs : Holds(written', h) <=> Due(h)'
    BY <2>2, <2>4, <2>6, <2>7 DEF Orderly, Written, Due
  <2>9. ASSUME NEW h \in Outputs, Holds(written, h) PROVE Before(h, wL)
    <3>1. HandedOver(h) /\ h # <<cG, cSub>>
      BY <2>2, <2>9 DEF Orderly, Written, Due
    <3>2. h[1] < cG \/ (h[1] = cG /\ h[2] <= cSub /\ h[2] # cSub)
      BY <3>1, OutputPairs DEF HandedOver
    <3> QED
      BY <2>2, <2>3, <3>2, OutputFacts DEF Before
  <2>10. \A j, k \in 1 .. Len(written') : j < k => Before(written'[j], written'[k])
    <3>1. /\ Len(written) \in Nat /\ Len(written') = Len(written) + 1
          /\ written'[Len(written) + 1] = wL
          /\ \A i \in 1 .. Len(written) : written'[i] = written[i] /\ written[i] \in Outputs
                                        /\ Holds(written, written[i])
      BY <2>4, <2>5, AppendQueue DEF Holds
    <3>2. \A j, k \in 1 .. Len(written') : j < k =>
            j \in 1 .. Len(written) /\ (k \in 1 .. Len(written) \/ k = Len(written) + 1)
      BY <3>1
    <3> QED
      BY <2>9, <3>1, <3>2 DEF Orderly, Written
  <2>11. Outputs' = Outputs /\ written' \in Seq(Outputs)
    BY <1>2, <2>4, <2>5, OutputsFrame, AppendQueue
  <2> QED
    BY <1>2, <2>1, <2>3, <2>8, <2>10, <2>11 DEF Orderly, Written
<1>8. Ended'
  <2>1. active' <=> cG' # 0 /\ pc'["compute"] # "c_start"
    BY <1>0, <1>1, <1>2, NetFacts DEF SingleRun, Threading, Positions, ComputePlace, Orderly, Ended, WriteMoves, WriteDone, computeVars, shared, WorkLabels, AfterLabels
  <2>2. allDone' => streamsDone' /\ ~Waits' /\ \A g \in PlainGroups : g < cG'
    BY <1>0, <1>1, <1>2, NetFacts, Wakeful, WaitLabels DEF SingleRun, Threading, Flags, Positions, ComputePlace, Once, Orderly, Progressed, Handing, Waits, Ended, WriteMoves, WriteDone, HandOver, SetRunning, Finalize, shared, readVars, computeVars, WorkLabels, AfterLabels
  <2>3. /\ pc'["compute"] = "c_init" /\ streamsDone' => awake'["compute"]
        /\ pc'["compute"] = "c_start" /\ cG' = 0 => rG' = 0
    BY <1>0, <1>1, <1>2, NetFacts, Wakeful, WaitLabels DEF SingleRun, Threading, Positions, ReadPlace, ComputePlace, Once, Starting, Orderly, Ended, WriteMoves, WriteDone, AtGroup, shared, readVars, computeVars
  <2> QED
    BY <1>2, <2>1, <2>2, <2>3, Zenon DEF Ended
<1> QED
  BY <1>3, <1>4, <1>5, <1>6, <1>7, <1>8 DEF Orderly

LEMMA OrderlyStutter ==
  ASSUME Orderly, UNCHANGED <<setup, pc, shared, readVars, computeVars, writeVars>>,
         awake'["compute"] => awake["compute"] \/ pc["compute"] \notin {"c_init", "c_next", "c_written", "c_synced"},
         awake["compute"] => awake'["compute"] \/ pc["compute"] \notin {"c_init", "c_written", "c_synced"},
         awake'["read"] => awake["read"] \/ pc["read"] # "r_computed",
         pc["write"] = "w_wait" => (awake'["write"] <=> awake["write"])
  PROVE  Orderly'
<1>1. net' = net /\ Groups' = Groups /\ PlainGroups' = PlainGroups
  BY SetupFrame
<1>2. Progressed' /\ Chunks'
  BY <1>1 DEF Orderly, Progressed, Chunks, shared, readVars, computeVars
<1>3. Feeding'
  BY <1>1 DEF Orderly, Feeding, Fed, shared, readVars, computeVars
<1>4. Waits' <=> Waits
  BY DEF Waits
<1>5. Handing'
  <2>1. UNCHANGED <<pc, pending, writeIdx, wL, cG, cSub>>
    BY DEF shared, computeVars, writeVars
  <2> QED
    BY <1>4, <2>1 DEF Orderly, Handing
<1>6. Written'
  <2>1. \A h \in Outputs : Due(h)' <=> Due(h)
    BY <1>4 DEF Due, HandedOver, computeVars
  <2> QED
    BY <1>1, <2>1, WrittenFrame DEF Orderly, Written, computeVars, writeVars
<1>7. Ended'
  BY <1>1, <1>4 DEF Orderly, Ended, shared, readVars, computeVars
<1> QED
  BY <1>2, <1>3, <1>5, <1>6, <1>7 DEF Orderly

LEMMA TickOrderly ==
  ASSUME SingleRun, Orderly, Tick
  PROVE  Orderly'
<1>1. PICK S \in SUBSET Waiting \ {{}} : awake' = [t \in Threads |-> t \in S]
  BY DEF Tick
<1>2. /\ \A t \in Threads : ~awake[t] /\ (awake'[t] => Timed(pc[t]))
      /\ "read" \in Threads /\ "compute" \in Threads /\ "write" \in Threads
  BY <1>1, Zenon DEF Waiting, Tick, Threads
<1>3. \A l \in {"c_init", "c_next", "c_written", "c_synced", "r_computed", "w_wait"} : ~Timed(l)
  BY DEF Timed
<1> QED
  BY <1>2, <1>3, OrderlyStutter DEF Tick

LEMMA StartOrderly ==
  ASSUME SingleRun, Orderly, Sequential(setup), Start
  PROVE  Orderly'
<1>1. pc["compute"] = "c_start" /\ pc["read"] = "r_start"
  BY FirstStart DEF Sequential
<1>2. awake'["write"] = awake["write"]
  BY DEF Start, Threads, SingleRun, Threading, Kernel, LabelOf, WriteLabels
<1> QED
  BY <1>1, <1>2, OrderlyStutter DEF Start

\* RESET comes after a run only.
LEMMA NoReset ==
  ASSUME SingleRun, Orderly, Sequential(setup)
  PROVE  ~Reset
<1>1. Reset => rG = 0 /\ allDone
  BY FirstStart DEF Sequential, Reset
<1> QED
  BY <1>1 DEF SingleRun, Once, Orderly, Ended

\* The network and the configuration do not change.
LEMMA SetupStays ==
  ASSUME Threading, [Next]_vars
  PROVE  setup' = setup
<1>1. ASSUME NEW t, NEW l, NEW E, Goto(t, l, E) PROVE setup' = setup
  BY <1>1 DEF Goto
<1>2. ASSUME ReadStep PROVE ReadLayer \/ \E l, E : Goto("read", l, E)
  <2>1. ReadChunk \/ ReadLoaded \/ ReadFree \/ ReadNext \/ ReadFinish => \E l, E : Goto("read", l, E)
    BY Zenon DEF ReadChunk, ReadLoaded, ReadFree, ReadNext, ReadFinish
  <2>2. ReadStart \/ ReadImage \/ ReadTiled => \E l, E : Goto("read", l, E)
    BY Zenon DEF ReadStart, ReadImage, ReadTiled
  <2> QED
    BY <1>2, <2>1, <2>2 DEF ReadStep
<1>3. ASSUME ComputeStep PROVE \E l, E : Goto("compute", l, E)
  <2>1. ComputeLoop \/ ComputeGate \/ ComputeFree \/ ComputeDone => \E l, E : Goto("compute", l, E)
    BY Zenon DEF ComputeLoop, ComputeGate, ComputeFree, ComputeDone
  <2>2. ComputeStart \/ ComputeInit \/ ComputeSkip \/ ComputeLayer => \E l, E : Goto("compute", l, E)
    BY Zenon DEF ComputeStart, ComputeInit, ComputeSkip, ComputeLayer
  <2>3. ComputeSub \/ ComputeSynced \/ ComputeNext \/ ComputeFinish => \E l, E : Goto("compute", l, E)
    BY Zenon DEF ComputeSub, ComputeSynced, ComputeNext, ComputeFinish
  <2> QED
    BY <1>3, <2>1, <2>2, <2>3 DEF ComputeStep
<1>4. ASSUME WriteStep PROVE \E l, E : Goto("write", l, E)
  BY <1>4, Zenon DEF WriteStep, WriteStart, WriteDone
<1>5. ReadLayer => setup' = setup
  BY ReadLayerMoves DEF Threading, ReadMoves
<1>6. Start \/ Reset \/ Tick \/ UNCHANGED vars => setup' = setup
  BY DEF Start, Reset, Tick, vars
<1> QED
  BY <1>1, <1>2, <1>3, <1>4, <1>5, <1>6 DEF Next, Progress, Idle

LEMMA StepOrderly ==
  ASSUME SingleRun, Orderly, Sequential(setup), [Next]_vars
  PROVE  Orderly'
<1>1. CASE Start
  BY <1>1, StartOrderly
<1>2. CASE Tick
  BY <1>2, TickOrderly
<1>3. CASE ReadStep
  BY <1>3, ReadStartOrderly, ReadImageOrderly, ReadLayerOrderly, ReadTiledOrderly,
     ReadChunkOrderly, ReadLoadedOrderly, ReadFreeOrderly, ReadNextOrderly,
     ReadFinishOrderly DEF ReadStep
<1>4. CASE ComputeStep
  BY <1>4, ComputeStartOrderly, ComputeInitOrderly, ComputeSkipOrderly, ComputeLayerOrderly,
     ComputeGateOrderly, ComputeLoopOrderly, ComputeDoneOrderly, ComputeFreeOrderly,
     ComputeSubOrderly, ComputeSyncedOrderly, ComputeNextOrderly, ComputeFinishOrderly
     DEF ComputeStep
<1>5. CASE WriteStep
  BY <1>5, WriteStartOrderly, WriteDoneOrderly DEF WriteStep
<1>6. CASE UNCHANGED vars
  <2>1. UNCHANGED <<setup, pc, awake, shared, readVars, computeVars, writeVars>>
    BY <1>6 DEF vars
  <2> QED
    BY <2>1, OrderlyStutter
<1> QED
  BY <1>1, <1>2, <1>3, <1>4, <1>5, <1>6, NoReset DEF Next, Progress, Idle

LEMMA InitOrderly == Init => Orderly
<1> SUFFICES ASSUME Init PROVE Orderly
  OBVIOUS
<1>1. Threading
  BY InitThreading
<1>2. /\ pc["read"] = "r_start" /\ pc["compute"] = "c_start" /\ pc["write"] = "w_wait"
      /\ ~awake["read"] /\ ~awake["compute"] /\ ~awake["write"]
  BY DEF Init, Threads
<1>3. PlainGroups \subseteq Nat \ {0} /\ Groups \subseteq Nat \ {0}
  BY <1>1, NetFacts DEF SingleRun, Threading
<1>4. Progressed /\ Chunks
  BY <1>2, <1>3 DEF Init, Progressed, Chunks, AfterLabels
<1>5. Feeding /\ Handing
  BY <1>2 DEF Init, Feeding, Handing, Waits, WorkLabels
<1>6. Written
  <2>1. \A h \in Outputs : ~Due(h)
    BY <1>2, <1>3, OutputFacts DEF Init, Due, HandedOver, AfterLabels
  <2>2. written \in Seq(Outputs) /\ Len(written) = 0 /\ \A h : ~Holds(written, h)
    BY EmptyQueue DEF Init
  <2> QED
    BY <1>2, <2>1, <2>2 DEF Init, Written, WorkLabels, AfterLabels
<1>7. Ended
  BY <1>2 DEF Init, Ended
<1> QED
  BY <1>4, <1>5, <1>6, <1>7 DEF Orderly

----------------------------------------------------------------------------
(* The theorems *)

\* The threads hand each layer on in order, in every sequential configuration.
THEOREM PipelineOrderly == Spec => [](Sequential(setup) => SingleRun /\ Orderly)
<1> DEFINE Inv == Sequential(setup) => SingleRun /\ Orderly
<1>1. Init => Inv
  BY InitOrderly, InitThreading
<1>2. Threading /\ Inv /\ [Next]_vars => Inv'
  <2> SUFFICES ASSUME Threading, Inv, [Next]_vars, Sequential(setup)'
               PROVE  SingleRun' /\ Orderly'
    OBVIOUS
  <2>1. setup' = setup
    BY SetupStays
  <2>2. Sequential(setup)
    BY <2>1 DEF Sequential
  <2>3. setup.starts = 1 /\ SingleRun /\ Orderly
    BY <2>2 DEF Sequential
  <2> QED
    BY <2>2, <2>3, StepOrderly, StepSingleRun
<1> QED
  BY <1>1, <1>2, PipelineThreading, PTL DEF Spec

\* What compute consumes is always its own layer's operands, and it never gives a
\* layer up for lack of them: run_layer_compute's unsigned loaded - consumed does
\* not wrap around, and MAX_STALL is never needed.
THEOREM OwnOperandsAlways == Spec => [](Sequential(setup) => ComputeUsesOwnOperands)
<1>1. Orderly => ComputeUsesOwnOperands
  BY DEF Orderly, Feeding, ComputeUsesOwnOperands
<1> QED
  BY <1>1, PipelineOrderly, PTL

\* read_thread never passes a layer compute has not finished, although the flag it
\* tests and the event it waits for are compute's, of whichever layer.
THEOREM ReadAlwaysWaits == Spec => [](Sequential(setup) => ReadWaitsForCompute)
<1>1. SingleRun /\ Orderly => ReadWaitsForCompute
  <2>1. SingleRun => rG \in Nat /\ PlainGroups \subseteq Nat
    BY NetFacts DEF SingleRun, Threading, Positions
  <2> QED
    BY <2>1 DEF Orderly, Progressed, ReadWaitsForCompute
<1> QED
  BY <1>1, PipelineOrderly, PipelineThreading, PTL

\* output_ready always finds write_thread waiting for it: no output is handed over
\* while the one before is still being written.
THEOREM HandOversNeverLost == Spec => [](Sequential(setup) => NoHandOverLost)
<1>1. Orderly => NoHandOverLost
  BY DEF Orderly, Handing, NoHandOverLost
<1> QED
  BY <1>1, PipelineOrderly, PTL

\* When the host reads AllDone every group has been run and computed, every output of
\* the pipeline written once, in network order, and no thread has anything left to do,
\* whichever of the three threads came last.
THEOREM AllDoneIsTheEnd == Spec => [](Sequential(setup) => AllDoneMeansAllWritten)
<1>1. ASSUME SingleRun, Orderly, allDone PROVE AllDoneMeansAllWritten
  <2>0. Kernel /\ streamsDone /\ ~Waits /\ \A g \in PlainGroups : g < cG
    BY <1>1 DEF SingleRun, Threading, Orderly, Ended
  <2>1. rG = Len(net) + 1 /\ pc["read"] = "r_start"
    BY <1>1, <2>0 DEF SingleRun, Threading, Once
  <2>2. ran = Groups \ PlainGroups
    BY <1>1, <2>0, <2>1, NetFacts DEF SingleRun, Threading, Positions, Orderly, Progressed
  <2>3. computed = PlainGroups
    BY <1>1, <2>0 DEF Orderly, Progressed
  <2>4. ASSUME NEW g \in PlainGroups, NEW d \in DOMAIN net[g].writes
        PROVE  \E k \in DOMAIN written : written[k] = <<g, d>>
    <3>1. DOMAIN net[g].writes = 1 .. Len(net[g].writes) /\ Len(net[g].writes) \in Nat
      BY <2>0, NetFacts DEF Group
    <3>2. <<g, d>> \in Outputs
      BY <3>1 DEF Outputs
    <3>3. Due(<<g, d>>)
      BY <2>0 DEF Due, HandedOver
    <3>4. Holds(written, <<g, d>>) /\ DOMAIN written = 1 .. Len(written)
      BY <1>1, <3>2, <3>3 DEF Orderly, Written
    <3> QED
      BY <3>4 DEF Holds
  <2>5. \A j, k \in DOMAIN written :
          j < k => \/ written[j][1] < written[k][1]
                   \/ written[j][1] = written[k][1] /\ written[j][2] < written[k][2]
    BY <1>1 DEF Orderly, Written, Before
  <2>6. ASSUME cpu = Nobody, \A t \in Threads : ~awake[t]
        PROVE  Resting
    <3>1. pc["write"] = "w_wait"
      BY <1>1, <2>0 DEF Orderly, Handing
    <3>2. pc["compute"] = "c_start"
      <4>1. /\ pc["compute"] \in ComputeLabels /\ WaitsAt(pc["compute"]) /\ ~awake["compute"]
        BY <2>0, <2>6 DEF Kernel, LabelOf, Threads, Nobody
      <4>2. pc["compute"] \notin WorkLabels \cup AfterLabels
        BY <1>1, <2>0, NetFacts DEF SingleRun, Threading, Positions, ComputePlace
      <4>3. pc["compute"] # "c_init"
        BY <1>1, <2>0, <4>1 DEF Orderly, Ended
      <4> QED
        BY <4>1, <4>2, <4>3, WaitLabels DEF ComputeLabels
    <3>3. pc \in [{"read", "compute", "write"} -> Labels]
      BY <2>0 DEF Kernel, Threads
    <3> QED
      BY <2>1, <2>6, <3>1, <3>2, <3>3 DEF Resting
  <2> QED
    BY <2>2, <2>3, <2>4, <2>5, <2>6 DEF AllDoneMeansAllWritten
<1>2. SingleRun /\ Orderly => AllDoneMeansAllWritten
  BY <1>1 DEF AllDoneMeansAllWritten
<1> QED
  BY <1>2, PipelineOrderly, PipelineThreading, PTL
============================================================================
