------------------------------ MODULE NpuPipeline ------------------------------
(****************************************************************************)
(* The read, compute and write threads of NpuController                     *)
(* (src/src/systemc/npu/npu_controller_{read,compute,write}.cpp) over the   *)
(* runs of a network, each from START to AllDone.                           *)
(*                                                                          *)
(* SystemC threads are coroutines: a thread keeps the processor (cpu) until *)
(* it calls wait(), and an event notified with notify() wakes only the      *)
(* threads already waiting on it, so a notification nobody waits for is     *)
(* lost.  A label of pc is a place in the source; the labels in Blocked and *)
(* Timed are its wait() calls.  When no thread can run, time advances (Tick) *)
(* to the end of one or more timed waits: a DMA transfer, the cycles of a   *)
(* batch, a tiled layer, each of any length.  Among the threads that can    *)
(* run, the kernel picks any.                                               *)
(*                                                                          *)
(* The network is a sequence of packet groups (count_packet_group): the     *)
(* first function of a group decides the path (layer_runs_tiled), its other *)
(* functions are computed with it.  Operands are counted in DMA chunks, the *)
(* input and weight regions of the global buffer taken together.            *)
(****************************************************************************)
EXTENDS Integers, Sequences

CONSTANTS
    Setups      \* the networks to run, each with the NPU configuration it runs on

\* path: "plain" (read/compute/write pipeline), "tiled" (run_tiled_layer) or
\*       "fused" (a fused activation, which run_tiled_layer skips at once);
\* chunks: DMA chunks of the group's operands;
\* writes: for each function of the group, whether its output goes to DRAM
\*         (not retained, not bypassed, not empty);
\* fits: the next layer fits in the GB beside this output (double buffering).
Group == [path : {"plain", "tiled", "fused"}, chunks : Nat \ {0},
          writes : Seq(BOOLEAN) \ {<<>>}, fits : BOOLEAN]

\* doubleBuffer: double_buffer_enabled_;
\* suppress: peak_bw timing, the DMA transfers of a layer take no simulated time;
\* capacity: operands the GB regions hold under backpressure, 0 for no limit;
\* prefetch: chunks compute waits for before it starts a layer;
\* starts: how many times the host runs the network (a bound of the model).
Setup == [net : Seq(Group) \ {<<>>}, doubleBuffer : BOOLEAN, suppress : BOOLEAN,
          capacity : Nat, prefetch : Nat, starts : Nat \ {0}]

ASSUME PipelineAssumption ==
    /\ Setups \subseteq Setup
    /\ \A c \in Setups : c.suppress => c.capacity = 0

Threads == {"read", "compute", "write"}
Nobody  == "nobody"

VARIABLES
    setup,        \* the network the DNN image holds and the configuration
    started,      \* STARTs the host has written
    cpu,          \* the thread that runs, or Nobody
    pc,           \* pc[t]: where thread t is
    awake,        \* awake[t]: t can run: its event has been notified or its time is up
    \* --- state shared through NpuController members
    loaded,       \* gb_.input.loaded and gb_.weight.loaded
    allLoaded,    \* layer_input_loaded_ and layer_weight_loaded_
    computeDone,  \* layer_compute_done_
    outputHeld,   \* gb_.output is not empty
    writeIdx,     \* write_layer_idx_, as <<group, function>>
    pending,      \* writes_pending_
    streamsDone,  \* streams_done_
    active,       \* compute_active_
    allDone,      \* state = AllDone
    \* --- locals
    rG, rChunk,   \* read_thread: its group and the chunks of it transferred
    cG, cSub,     \* compute_thread: its group and the function being synchronised
    consumed,     \* run_layer_compute: operands consumed
    wL,           \* write_thread: the layer it writes
    \* --- history; ran, computed and written are those of the current run
    ran,          \* tiled and fused groups run_tiled_layer has finished
    computed,     \* plain groups compute has finished
    misfed,       \* groups computed with operands missing or not their own
    written       \* layers write_thread has finished, in order

shared  == <<loaded, allLoaded, computeDone, outputHeld, writeIdx, pending,
             streamsDone, active, allDone>>
readVars    == <<rG, rChunk, ran>>
computeVars == <<cG, cSub, consumed, computed, misfed>>
writeVars   == <<wL, written>>
vars == <<setup, started, cpu, pc, awake, shared, readVars, computeVars, writeVars>>

net    == setup.net
Groups == 1 .. Len(net)

Init ==
    /\ setup \in Setups
    /\ started = 0
    /\ cpu = Nobody
    /\ pc = [read |-> "r_start", compute |-> "c_start", write |-> "w_wait"]
    /\ awake = [t \in Threads |-> FALSE]
    /\ loaded = 0 /\ allLoaded = FALSE /\ computeDone = FALSE
    /\ outputHeld = FALSE /\ writeIdx = <<1, 1>> /\ pending = 0
    /\ streamsDone = FALSE /\ active = FALSE /\ allDone = FALSE
    /\ rG = 0 /\ rChunk = 0 /\ ran = {}
    /\ cG = 0 /\ cSub = 1 /\ consumed = 0 /\ computed = {} /\ misfed = {}
    /\ wL = <<1, 1>> /\ written = <<>>

--------------------------------------------------------------------------------
(* The SystemC kernel *)

\* The event a label waits for; labels not listed wait for time or not at all.
EventOf ==
    [r_start |-> "start", r_computed |-> "compute_done", r_written |-> "write_done",
     c_start |-> "start", c_init |-> "data_chunk", c_gate |-> "data_chunk",
     c_stall |-> "data_chunk", c_written |-> "write_done", c_next |-> "data_chunk",
     c_synced |-> "write_done", w_wait |-> "output_ready"]

Blocked(l) == l \in DOMAIN EventOf
Timed(l) ==
    \/ l \in {"r_image", "r_tiled", "c_batch"}
    \/ l \in {"r_chunk", "w_dma"} /\ ~setup.suppress

\* The posedge poll of a read_thread that finds its region full does not end.
Full == pc["read"] = "r_chunk" /\ setup.capacity # 0 /\ loaded >= setup.capacity

Waiting == {t \in Threads : Timed(pc[t]) /\ ~(t = "read" /\ Full)}

\* Time advances: the timed waits of the threads of S end at the same instant.
Tick ==
    /\ cpu = Nobody
    /\ \A t \in Threads : ~awake[t]
    /\ \E S \in SUBSET Waiting \ {{}} :
         awake' = [t \in Threads |-> t \in S]
    /\ UNCHANGED <<setup, started, cpu, pc, shared, readVars, computeVars, writeVars>>

\* Thread t, at label l, takes a step: it holds the processor or takes the free one.
Runs(t, l) ==
    /\ pc[t] = l
    /\ cpu = t \/ (cpu = Nobody /\ awake[t])

\* t goes on at label l, having notified the events of E: the other threads that
\* wait for one of them wake up.
Goto(t, l, E) ==
    /\ pc' = [pc EXCEPT ![t] = l]
    /\ UNCHANGED <<setup, started>>
    /\ cpu' = IF Blocked(l) \/ Timed(l) THEN Nobody ELSE t
    /\ awake' = [u \in Threads |->
                    IF u = t THEN FALSE
                    ELSE awake[u] \/ (Blocked(pc[u]) /\ EventOf[pc[u]] \in E)]

\* (fault) A compute_thread still at work is ignored.
FinalizeEarly(was, s, a, p) == allDone' = (was \/ (s /\ a \in BOOLEAN /\ p = 0))

\* maybe_finalize, with the values its caller has just assigned; was: the state is
\* AllDone already.
Finalize(was, s, a, p) == allDone' = (was \/ (s /\ ~a /\ p = 0))

\* set_state to one of the states of a running network.
SetRunning == allDone' = FALSE

\* Every thread waits for the next START (write_thread for an output).
Resting ==
    /\ pc = [read |-> "r_start", compute |-> "c_start", write |-> "w_wait"]
    /\ \A t \in Threads : ~awake[t]

\* The processor, which has seen nothing run or AllDone, writes START: start_event
\* wakes the threads that wait for it.  No other member is touched: streams_done_
\* still has the value the run before left.
Start ==
    /\ cpu = Nobody /\ \A t \in Threads : ~awake[t]
    /\ started < setup.starts
    /\ allDone \/ Resting
    /\ started' = started + 1
    /\ awake' = [t \in Threads |-> pc[t] \in {"r_start", "c_start"}]
    /\ UNCHANGED <<setup, cpu, pc, shared, readVars, computeVars, writeVars>>

\* The processor writes NPUCR.RESET between two runs: state, GB counters and layer
\* flags are cleared, streams_done_ is not.
Reset ==
    /\ cpu = Nobody /\ Resting /\ allDone
    /\ started < setup.starts
    /\ loaded' = 0 /\ allLoaded' = FALSE /\ computeDone' = FALSE /\ outputHeld' = FALSE
    /\ allDone' = FALSE
    /\ UNCHANGED <<setup, started, cpu, pc, awake, writeIdx, pending, streamsDone,
                   active, readVars, computeVars, writeVars>>

--------------------------------------------------------------------------------
(* read_thread *)

\* A run begins: the image is loaded through the RDMA channel.
ReadStart ==
    /\ Runs("read", "r_start")
    /\ SetRunning
    /\ rG' = 0
    /\ ran' = {} /\ computed' = {} /\ written' = <<>>
    /\ Goto("read", "r_image", {})
    /\ UNCHANGED <<loaded, allLoaded, computeDone, outputHeld, writeIdx, pending,
                   streamsDone, active, rChunk, cG, cSub, consumed, misfed, wL>>

ReadImage ==
    /\ Runs("read", "r_image")
    /\ rG' = 1
    /\ Goto("read", "r_layer", {})
    /\ UNCHANGED <<shared, rChunk, ran, computeVars, writeVars>>

\* (fault) layer_compute_done_ keeps the value of the layer before.
ReadLayerKeepsFlag ==
    /\ Runs("read", "r_layer")
    /\ rG \in Groups
    /\ loaded' = 0 /\ allLoaded' = FALSE /\ outputHeld' = FALSE
    /\ rChunk' = 0
    /\ SetRunning
    /\ CASE net[rG].path = "plain" -> Goto("read", "r_chunk", {})
         [] net[rG].path = "tiled" -> Goto("read", "r_tiled", {})
         [] net[rG].path = "fused" -> Goto("read", "r_ran", {})
    /\ UNCHANGED <<computeDone, writeIdx, pending, streamsDone, active, rG, ran,
                   computeVars, writeVars>>

\* Top of the layer loop: reset the layer state, choose the path.
ReadLayer ==
    /\ Runs("read", "r_layer")
    /\ rG \in Groups
    /\ loaded' = 0 /\ allLoaded' = FALSE /\ computeDone' = FALSE /\ outputHeld' = FALSE
    /\ rChunk' = 0
    /\ SetRunning
    /\ CASE net[rG].path = "plain" -> Goto("read", "r_chunk", {})
         [] net[rG].path = "tiled" -> Goto("read", "r_tiled", {})
         [] net[rG].path = "fused" -> Goto("read", "r_ran", {})
    /\ UNCHANGED <<writeIdx, pending, streamsDone, active, rG, ran, computeVars, writeVars>>

ReadTiled ==
    /\ Runs("read", "r_tiled") \/ Runs("read", "r_ran")
    /\ ran' = ran \cup {rG}
    /\ rG' = rG + 1
    /\ Goto("read", "r_layer", {})
    /\ UNCHANGED <<shared, rChunk, computeVars, writeVars>>

\* A chunk of operands has been transferred; under backpressure the next one is
\* not requested while the region is full.
ReadChunk ==
    /\ Runs("read", "r_chunk")
    /\ ~Full
    /\ rChunk' = rChunk + 1
    /\ loaded' = rChunk + 1
    /\ allLoaded' = (rChunk + 1 = net[rG].chunks)
    /\ Goto("read", IF allLoaded' THEN "r_loaded" ELSE "r_chunk", {"data_chunk"})
    /\ UNCHANGED <<computeDone, outputHeld, writeIdx, pending, streamsDone, active,
                   allDone, rG, ran, computeVars, writeVars>>

\* (fault) The input and weight areas are freed as soon as they are loaded.
ReadLoadedUnwaited ==
    /\ Runs("read", "r_loaded")
    /\ Goto("read", "r_free", {})
    /\ UNCHANGED <<shared, readVars, computeVars, writeVars>>

\* Wait for compute, unless its flag is already up.
ReadLoaded ==
    /\ Runs("read", "r_loaded")
    /\ Goto("read", IF computeDone THEN "r_free" ELSE "r_computed", {})
    /\ UNCHANGED <<shared, readVars, computeVars, writeVars>>

\* Free the input and weight areas; wait for the write unless the output is gone
\* or, with double buffering, the next layer fits beside it.
ReadFree ==
    /\ Runs("read", "r_computed") \/ Runs("read", "r_free")
    /\ loaded' = 0
    /\ LET more    == rG < Len(net) \/ Len(net[rG].writes) > 1
           waiting == outputHeld /\ ~(setup.doubleBuffer /\ more /\ net[rG].fits)
       IN  Goto("read", IF waiting THEN "r_written" ELSE "r_next", {})
    /\ UNCHANGED <<allLoaded, computeDone, outputHeld, writeIdx, pending,
                   streamsDone, active, allDone, readVars, computeVars, writeVars>>

\* (fault) A group is skipped.
ReadNextSkips ==
    /\ Runs("read", "r_written") \/ Runs("read", "r_next")
    /\ rG' = rG + 2
    /\ Goto("read", "r_layer", {})
    /\ UNCHANGED <<shared, rChunk, ran, computeVars, writeVars>>

ReadNext ==
    /\ Runs("read", "r_written") \/ Runs("read", "r_next")
    /\ rG' = rG + 1
    /\ Goto("read", "r_layer", {})
    /\ UNCHANGED <<shared, rChunk, ran, computeVars, writeVars>>

\* (fault) A compute_thread that waits for the next layer's data is not told.
ReadFinishSilent ==
    /\ Runs("read", "r_layer")
    /\ rG = Len(net) + 1
    /\ streamsDone' = TRUE
    /\ Finalize(allDone, TRUE, active, pending)
    /\ Goto("read", "r_start", {})
    /\ UNCHANGED <<loaded, allLoaded, computeDone, outputHeld, writeIdx, pending,
                   active, readVars, computeVars, writeVars>>

\* All groups streamed: wake a compute that waits for data, finalize.
ReadFinish ==
    /\ Runs("read", "r_layer")
    /\ rG = Len(net) + 1
    /\ streamsDone' = TRUE
    /\ Finalize(allDone, TRUE, active, pending)
    /\ Goto("read", "r_start", {"data_chunk"})
    /\ UNCHANGED <<loaded, allLoaded, computeDone, outputHeld, writeIdx, pending,
                   active, readVars, computeVars, writeVars>>

ReadStep == ReadStart \/ ReadImage \/ ReadLayer \/ ReadTiled \/ ReadChunk
              \/ ReadLoaded \/ ReadFree \/ ReadNext \/ ReadFinish

--------------------------------------------------------------------------------
(* compute_thread *)

ComputeStart ==
    /\ Runs("compute", "c_start")
    /\ cG' = 0
    /\ Goto("compute", "c_init", {})
    /\ UNCHANGED <<shared, readVars, cSub, consumed, computed, misfed, writeVars>>

ComputeInit ==
    /\ Runs("compute", "c_init")
    /\ active' = TRUE
    /\ cG' = 1
    /\ Goto("compute", "c_layer", {})
    /\ UNCHANGED <<loaded, allLoaded, computeDone, outputHeld, writeIdx, pending,
                   streamsDone, allDone, readVars, cSub, consumed, computed, misfed,
                   writeVars>>

\* Layers the tile executor owns are skipped.
ComputeSkip ==
    /\ Runs("compute", "c_layer")
    /\ cG \in Groups /\ net[cG].path # "plain"
    /\ cG' = cG + 1
    /\ SetRunning
    /\ Goto("compute", "c_layer", {})
    /\ UNCHANGED <<loaded, allLoaded, computeDone, outputHeld, writeIdx, pending,
                   streamsDone, active, readVars, cSub, consumed, computed, misfed,
                   writeVars>>

\* run_layer_compute starts with an empty output.
ComputeLayer ==
    /\ Runs("compute", "c_layer")
    /\ cG \in Groups /\ net[cG].path = "plain"
    /\ outputHeld' = FALSE
    /\ consumed' = 0
    /\ cSub' = 1
    /\ SetRunning
    /\ Goto("compute", "c_check", {})
    /\ UNCHANGED <<loaded, allLoaded, computeDone, writeIdx, pending, streamsDone,
                   active, readVars, cG, computed, misfed, writeVars>>

\* wait_gb_prefetch_gate
ComputeGate ==
    /\ Runs("compute", "c_check") \/ Runs("compute", "c_gate")
    /\ Goto("compute",
            IF loaded >= setup.prefetch \/ allLoaded THEN "c_loop" ELSE "c_gate", {})
    /\ UNCHANGED <<shared, readVars, computeVars, writeVars>>

\* run_layer_compute's loop.  avail is unsigned: a region reset under it makes
\* loaded - consumed wrap around to a huge amount.
ComputeLoop ==
    LET all   == net[cG].chunks
        avail == IF loaded < consumed THEN all ELSE loaded - consumed
        upto  == IF consumed + avail > all THEN all ELSE consumed + avail
        own   == rG = cG /\ loaded >= consumed
    IN
    /\ \/ Runs("compute", "c_loop") \/ Runs("compute", "c_stall")
       \/ Runs("compute", "c_batch")
    /\ \/ /\ consumed = all                          \* the latency model is done
          /\ Goto("compute", "c_done", {})
          /\ UNCHANGED <<consumed, outputHeld, misfed>>
       \/ /\ consumed < all /\ avail = 0 /\ ~allLoaded
          /\ Goto("compute", "c_stall", {})
          /\ UNCHANGED <<consumed, outputHeld, misfed>>
       \/ /\ consumed < all /\ avail = 0 /\ allLoaded  \* drains up to MAX_STALL
          /\ Goto("compute", "c_done", {})
          /\ misfed' = misfed \cup {cG}
          /\ UNCHANGED <<consumed, outputHeld>>
       \/ /\ consumed < all /\ avail > 0
          /\ consumed' = upto
          /\ outputHeld' = TRUE
          /\ misfed' = IF own THEN misfed ELSE misfed \cup {cG}
          /\ Goto("compute", "c_batch", {})
    /\ UNCHANGED <<loaded, allLoaded, computeDone, writeIdx, pending, streamsDone,
                   active, allDone, readVars, cG, cSub, computed, writeVars>>

\* Hand function d of the group over to write_thread.
HandOver(d) ==
    /\ computeDone' = TRUE
    /\ writeIdx' = <<cG, d>>
    /\ pending' = pending + 1
    /\ SetRunning

\* The layer is computed: wait for its write, unless the next layer fits beside
\* its output.
ComputeDone ==
    /\ Runs("compute", "c_done")
    /\ HandOver(1)
    /\ computed' = computed \cup {cG}
    /\ LET more == cG < Len(net) \/ Len(net[cG].writes) > 1
           goOn == setup.doubleBuffer /\ more /\ net[cG].fits
       IN  Goto("compute", IF goOn THEN "c_free" ELSE "c_written",
                {"compute_done", "output_ready"})
    /\ UNCHANGED <<loaded, allLoaded, outputHeld, streamsDone, active, readVars, cG,
                   cSub, consumed, misfed, writeVars>>

\* Free the operands and wait for the next layer's, if any will come.
ComputeFree ==
    /\ Runs("compute", "c_written") \/ Runs("compute", "c_free")
    /\ loaded' = 0
    /\ LET more == cG < Len(net) \/ Len(net[cG].writes) > 1
       IN  Goto("compute", IF more /\ ~streamsDone THEN "c_next" ELSE "c_sub", {})
    /\ UNCHANGED <<allLoaded, computeDone, outputHeld, writeIdx, pending,
                   streamsDone, active, allDone, readVars, computeVars, writeVars>>

\* (fault) The write of a function is not waited for.
ComputeSubUnwaited ==
    /\ Runs("compute", "c_next") \/ Runs("compute", "c_sub")
    /\ cSub < Len(net[cG].writes)
    /\ HandOver(cSub + 1)
    /\ cSub' = cSub + 1
    /\ Goto("compute", "c_sub", {"compute_done", "output_ready"})
    /\ UNCHANGED <<loaded, allLoaded, outputHeld, streamsDone, active, readVars, cG,
                   consumed, computed, misfed, writeVars>>

\* Fast-forward over the group's other functions: each is only handed over.
ComputeSub ==
    /\ Runs("compute", "c_next") \/ Runs("compute", "c_sub")
    /\ cSub < Len(net[cG].writes)
    /\ HandOver(cSub + 1)
    /\ cSub' = cSub + 1
    /\ Goto("compute", "c_synced", {"compute_done", "output_ready"})
    /\ UNCHANGED <<loaded, allLoaded, outputHeld, streamsDone, active, readVars, cG,
                   consumed, computed, misfed, writeVars>>

ComputeSynced ==
    /\ Runs("compute", "c_synced")
    /\ loaded' = 0
    /\ Goto("compute", "c_sub", {})
    /\ UNCHANGED <<allLoaded, computeDone, outputHeld, writeIdx, pending,
                   streamsDone, active, allDone, readVars, computeVars, writeVars>>

ComputeNext ==
    /\ Runs("compute", "c_next") \/ Runs("compute", "c_sub")
    /\ cSub = Len(net[cG].writes)
    /\ cG' = cG + 1
    /\ Goto("compute", "c_layer", {})
    /\ UNCHANGED <<shared, readVars, cSub, consumed, computed, misfed, writeVars>>

ComputeFinish ==
    /\ Runs("compute", "c_layer")
    /\ cG = Len(net) + 1
    /\ active' = FALSE
    /\ Finalize(allDone, streamsDone, FALSE, pending)
    /\ Goto("compute", "c_start", {})
    /\ UNCHANGED <<loaded, allLoaded, computeDone, outputHeld, writeIdx, pending,
                   streamsDone, readVars, computeVars, writeVars>>

ComputeStep == ComputeStart \/ ComputeInit \/ ComputeSkip \/ ComputeLayer
                 \/ ComputeGate \/ ComputeLoop \/ ComputeDone \/ ComputeFree
                 \/ ComputeSub \/ ComputeSynced \/ ComputeNext \/ ComputeFinish

--------------------------------------------------------------------------------
(* write_thread *)

WriteStart ==
    /\ Runs("write", "w_wait")
    /\ wL' = writeIdx
    /\ Goto("write", IF net[writeIdx[1]].writes[writeIdx[2]] THEN "w_dma" ELSE "w_done", {})
    /\ UNCHANGED <<shared, readVars, computeVars, written>>

\* (fault) A finished write stays counted.
WriteDoneUncounted ==
    /\ Runs("write", "w_dma") \/ Runs("write", "w_done")
    /\ outputHeld' = FALSE
    /\ written' = Append(written, wL)
    /\ Finalize(FALSE, streamsDone, active, pending)
    /\ Goto("write", "w_wait", {"write_done"})
    /\ UNCHANGED <<loaded, allLoaded, computeDone, writeIdx, pending, streamsDone, active,
                   readVars, computeVars, wL>>

WriteDone ==
    /\ Runs("write", "w_dma") \/ Runs("write", "w_done")
    /\ outputHeld' = FALSE
    /\ pending' = IF pending > 0 THEN pending - 1 ELSE 0
    /\ written' = Append(written, wL)
    /\ Finalize(FALSE, streamsDone, active, pending')
    /\ Goto("write", "w_wait", {"write_done"})
    /\ UNCHANGED <<loaded, allLoaded, computeDone, writeIdx, streamsDone, active,
                   readVars, computeVars, wL>>

WriteStep == WriteStart \/ WriteDone

--------------------------------------------------------------------------------
\* The runs are over and every thread waits for the next START.
Idle == allDone /\ cpu = Nobody /\ UNCHANGED vars

Progress == Tick \/ ReadStep \/ ComputeStep \/ WriteStep

Next == Start \/ Reset \/ Progress \/ Idle

\* The kernel runs a thread while one can run, and advances time while none can.
Fairness == WF_vars(Progress)

Spec     == Init /\ [][Next]_vars
FairSpec == Spec /\ Fairness

--------------------------------------------------------------------------------
(* Properties *)

\* Type invariant.
TypeOK ==
    /\ setup \in Setup /\ started \in 0 .. setup.starts
    /\ cpu \in Threads \cup {Nobody}
    /\ awake \in [Threads -> BOOLEAN]
    /\ loaded \in Nat /\ pending \in Nat /\ consumed \in Nat /\ rChunk \in Nat
    /\ {allLoaded, computeDone, outputHeld, streamsDone, active, allDone} \subseteq BOOLEAN
    /\ rG \in 0 .. Len(net) + 1 /\ cG \in 0 .. Len(net) + 1
    /\ ran \subseteq Groups /\ computed \subseteq Groups /\ misfed \subseteq Groups

PlainGroups == {g \in Groups : net[g].path = "plain"}

\* compute never counts another layer's operands as its own, runs on operands
\* that were freed under it, or gives up a layer for lack of operands: the GB
\* counters, reset by both threads and refilled by one, always belong to the
\* layer compute works on.
ComputeUsesOwnOperands == misfed = {}

\* read_thread leaves a layer only when compute has finished it ("Wait for
\* compute to finish this layer").
ReadWaitsForCompute ==
    \A g \in PlainGroups : rG > g => g \in computed

\* Every output handed to write_thread is being written or about to be: the
\* notification of output_ready found write_thread waiting.
NoHandOverLost ==
    pending > 0 => pc["write"] # "w_wait" \/ awake["write"]

\* The host sees AllDone only when every group has been run and every output of
\* the pipeline has been written, once and in network order; and once the kernel
\* has nothing left to run at that instant, every thread is back at its start.
AllDoneMeansAllWritten ==
    allDone =>
        /\ ran = Groups \ PlainGroups
        /\ computed = PlainGroups
        /\ \A g \in PlainGroups : \A d \in DOMAIN net[g].writes :
             \E k \in DOMAIN written : written[k] = <<g, d>>
        /\ \A j, k \in DOMAIN written :
             j < k => \/ written[j][1] < written[k][1]
                      \/ written[j][1] = written[k][1] /\ written[j][2] < written[k][2]
        /\ cpu = Nobody /\ (\A t \in Threads : ~awake[t]) => Resting

\* Every run ends: after a START the network is carried to AllDone and every thread
\* back to where the next START finds it.
RunCompletes == ~Resting ~> (Resting /\ allDone)
================================================================================
