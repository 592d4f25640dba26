# FlexNPUSim: verification of the simulator

FlexNPUSim compiles a network to an image and simulates an NPU, its DMA, an AXI
interconnect and a memory executing it in SystemC. Two things make it hard to
test. The simulated hardware is *threads*: about thirty `SC_THREAD`s and
`SC_METHOD`s that hand work to each other through deques, flags, immediate event
notifications and VALID/READY wires. A notification nobody waits for, or two
queues filled at different moments, do not crash the simulator; they hang a run
or route data to another burst. And its numbers pass through many hands: a
layer's tiles and addresses are computed by a front end, written to an image,
parsed back, cut again by the executor and charged to counters. Two hands that
disagree do not crash either; they make the report wrong.

This directory models both in TLA+, model-checks them with TLC and proves, with
TLAPS, what is proved below for every size of the system. All paths are
relative to the repository.

## 1. Inventory

### 1.1 Components, state, operations

| Component | Source | State | Operations | Modelled by |
|---|---|---|---|---|
| Network front end | `src/src/compiler/frontend/loaders/network_csv.cpp` | rows, the address cursor | `load_layer_spec_csv`, `generate_network_from_layer_spec_csv` | `NetworkCsv` |
| Image compiler | `src/src/compiler/dnn_image/dnn_image_compiler.cpp`, `tile_math.h` | layers, pending tiles, weight blobs | `add_layer`, `add_layer_direct`, `add_layer_derived`, `attach_weights`, `compile` | `Compiler`, `TileMath`, `LayerShape` |
| Network generator | `dnn_image_generator.cpp` | configuration, PE overrides, address cursor | `configure`, `set_*`, `generate_*` | `NetworkGenerator`, `LatencyParams`, `Compiler` |
| Packets | `dnn_image_packet.cpp`, `dnn_image_loader.h` | the image | `build_dnn_image_packets`, `parse_dnn_image_packets_to_layers` | `DnnImage` |
| Tile schedule, tile search | `src/src/common/tile_descriptor.cpp`, `tile_search.cpp` | - | `compute_tile_schedule`, `lower_tile_schedule`, `search_output_tile` | `TileSchedule`, `TileSearch` |
| Layer execution | `src/src/systemc/npu/npu_controller_{read,tile,write,dma,regs}.cpp`, `npu_global_buffer.cpp` | the retention ledger, counters, layer records, cache tags, `suppress_dma_timing_` | START, RESET, `run_tiled_layer`, the streamed path, `trigger_rdma/wdma` | `LayerExecution`, with the compiler in `EndToEnd` |
| NPU layer pipeline | `npu_controller_{read,compute,write}.cpp` | `layer_*_loaded_`, `layer_compute_done_`, `write_layer_idx_`, `writes_pending_`, `streams_done_`, `compute_active_`, six events | `read_thread`, `compute_thread`, `write_thread`, `finalize_run` | `NpuPipeline` |
| DMA engine | `src/src/systemc/dma/dma_engine.h` | the handshake signals, the burst plan, `in_flight`, `rd_pipe_`, `wr_pipe_` | `transfer_thread`, `pipe_*_issue`, `pipe_*_flush` | `DmaEngine`, `DmaChannel` |
| Burst planner | `src/src/systemc/dma/model/dma_model.cpp` | current transfer | `submit_transfer`, `calculate_bursts`, `complete_transfer` | `MemoryPath` |
| AXI master, tickets, transport | `.../axi/master/axi_master.h`, `axi_ticket_pool.h`, `axi_transport.h` | `aw_queue_`, `w_queue_`, `ar_queue_`, `id_write_order_`, `id_read_order_`, slots | `issue_write`, `issue_read`, `wait_*`, five channel threads | `AxiBusWrite`, `AxiBusRead`, `DmaEngine` |
| AXI interconnect, write | `src/src/systemc/bus/axi/bus/axi_bus.h` | `master_w_targets_`, `master_err_awid_`, `w_order_`, `write_order_`, `err_writes_pending_b_`, the ports | `aw_thread`, `w_forward`, `w_advance`, `b_drain_master`, `slave_bready_pulser` | `AxiBusWrite` |
| AXI interconnect, read | same | `read_order_`, `err_reads_`, `route_changed_`, the ports | `ar_thread`, `r_forward`, `r_advance` | `AxiBusRead` |
| Arbiter | `.../axi/bus/axi_arbiter.h` | `rr_cursor_`, `credits_` | five policies | `MemoryPath`; left open in the bus models |
| AXI slave and memory port | `.../axi/slave/axi_slave.h` | `aw_q_`, `b_q_`, `rd_q_`, the op in hand | four channel threads, `will_accept` | `AxiBusWrite`, `AxiBusRead` (partly) |
| Memory models | `src/src/systemc/memory/` | accesses under way, open rows | `submit`, `done`, `will_accept` | `AxiBusRead` (any order), `MemoryPath` (banks) |
| Registers, timeline | `npu_controller_regs.cpp` | register file, performance counters | `reg_write`, `reg_read` | START and RESET in `NpuPipeline` and `LayerExecution` |
| Latency model | `src/src/model/latency/` | pipeline stages | per-batch cycles | a batch is one timed wait in `NpuPipeline` |
| Host processor, function models, JSON configuration, reports | `processor.h`, `src/src/model/function`, `src/src/common`, `src/src/system` | - | - | not modelled (section 7) |

### 1.2 How they interact

    CSV rows / API calls / built-in network
        |  front end, compiler, generator        (pure functions, address cursors)
        v
      image --preload--> memory
                           |  parsed by the loader at START
    host --registers--> NPU controller --start/done--> DMA engine --issue/wait--> AXI master
                         | read thread                                             | AW W B AR R wires
                         | compute thread     (events and flags,                   v
                         | write thread        one controller object)          AXI bus --> AXI slave --> memory model

* The image is the only thing the compiler and the executor share, apart from a
  configuration that each reads for itself: a layer is cut into tiles once to
  announce its traffic and once more to execute it.
* Controller threads share members of one object and wake each other with
  *immediate* notifications: only a thread already in `wait(event)` is woken.
* The controller and a DMA channel use a 4-phase `start`/`done` handshake over
  signals sampled at clock edges.
* DMA and AXI master share a pool of tickets. `acquire()` blocks the caller.
* Master, bus and slave use VALID/READY wires, but the address request the bus
  drives at a slave is a one-cycle pulse whose READY nobody reads.
* `r_forward` is a combinational method: it runs only when something in its
  sensitivity list changes, and both sides sample what it left behind.

### 1.3 What is hard, and what makes each component correct

* **Linking.** CSV rows come in any order with some ids, connections and
  addresses given. Correct when a function reads what its producer writes
  (`ConsumerReadsItsProducer`) and nothing placed overwrites a live tensor
  (`RegionsApart`).
* **Image.** Builder and parser walk the same bytes by sizes each computes.
  Correct when what is loaded is the program, and a truncated image is refused
  (`LoadedIsTheProgram`).
* **Tile arithmetic.** Closed forms, remainders and halos. Correct when the
  closed form is the sum over the tiles (`AggregateIsTheSum`), tiles and passes
  partition their layer (`TilesCoverOutput`), and a regrouping of the PEs keeps
  the multipliers (`PeBudgetKept`).
* **Layer execution.** What is kept in the buffer between layers, and what was therefore not
  read or written. Correct when only the latest value is served (`ForwardedIsLatest`), tiled
  layers are complete (`TiledLayersAreComplete`), nothing runs over the buffer
  (`NothingOverflows`), counters never go below zero (`SystemTypeOK`), a second run that
  read carries to its end moves what the first did (`RunsReadAlike`; how it may not get
  there is finding 4), and the traffic is the one the compiler announced
  (`CompilerForeseesTraffic`).
* **Layer pipeline.** Hand-overs must not be lost (`NoHandOverLost`), unsigned
  differences of shared counters must not wrap or mix two layers
  (`ComputeUsesOwnOperands`), each thread must wait for the right layer
  (`ReadWaitsForCompute`), and AllDone must mean all done
  (`AllDoneMeansAllWritten`, `RunCompletes`).
* **DMA.** The window must be capped so that `acquire()` never blocks where the
  thread could not drain (`AcquireNeverBlocks`), tickets must be conserved over
  two issuers (`TicketsAccountedFor`), a stale `done` must not be taken for a
  new transfer (`DoneMeansCarried`), data must reach the GB in order
  (`CarriesInOrder`), and bursts must cover their transfer without crossing a
  page (`BurstsCoverTransfer`).
* **Arbitration.** Equals must take turns (`EqualsTakeTurns`) and nobody may
  starve under the fair policies (`EveryTransferCompletes`).
* **Write routing.** Three queues, filled at three different moments by three
  threads, have to pair each W beat with its own address. Correct when a slave
  never stores a beat under another burst's address
  (`WBeatsFollowTheirAddress`), when the queues of different masters and slaves
  never wait on each other in a circle (`WPathNeverCircular`), when a response
  is credited to the burst it answers (`ResponseMatchesBurst`), and when every
  write is answered (`EveryWriteAnswered`).
* **Read routing.** A combinational channel between two clocked sides. Correct
  when no beat is dropped unseen or seen twice (`BeatsCrossOnce`), each slot
  receives its own beats in order (`SlotsHoldTheirOwnBeats`), and synthesized
  error beats do not starve real ones (`MappedReadAnswered`).

`PROJECT.json` lists the hazards one by one, at the line where each bites, with
the properties that cover it; those without a property say why.

## 2. Modules

| Module | Role |
|---|---|
| `LayerShape` | layer types, output shapes, operand sizes |
| `TileSchedule` | `compute_tile_schedule` and its lowering to transfers |
| `TileMath` | tiles over all four axes, their closed-form totals, mapping checks |
| `TileSearch` | the search for the largest output tile that fits, per dataflow |
| `LatencyParams` | PE regrouping and the latency descriptor of a layer |
| `NetworkGenerator` | the built-in networks as sequences of steps, and their placement |
| `DnnImage` | packets: the image built from functions, and what its parser makes of it |
| `NetworkCsv` | rows to functions: defaults, ids, connections, placement |
| `Compiler` | the three entry points, `compile` and the loader, as a state machine |
| `LayerExecution` | START, RESET and the execution of a loaded image, packet by packet |
| `EndToEnd` | composes `Compiler` and `LayerExecution` |
| `NpuPipeline` | the three controller threads over the runs of a network |
| `DmaChannel` | abstract: a transfer is carried burst by burst, in order, then completes |
| `DmaEngine` | one DMA channel: handshake, window, persistent pipe, tickets; implements `DmaChannel` |
| `MemoryPath` | burst plan, arbiter, memory banks: a read on its way to the memory and back |
| `AxiBusWrite` | AW, W, B between `NumM` masters and `NumS` slaves, with the DECERR path |
| `AxiBusRead` | AR, R, edge by edge, with the DECERR path and a memory that reorders |
| `AxiBusWriteProofs` | types, routing, pairing: W data follows its address; order of grants and of responses: no circular wait, responses match |
| `AxiBusReadProofs` | wiring and delivery: beats cross once, into their own slot |
| `DmaEngineProofs` | tickets, windows, `done`, the safety part of the refinement |
| `NpuPipelineProofs` | types under every configuration, the hand-over of layers in sequential ones |
| `MemoryPathProofs` | turns of the arbiter, the burst plan of every transfer |
| `EndToEndProofs` | lemmas on recursive functions, sorts, sums and tilings, and on what each operator of the compilers makes; the retention ledger, chunks and regions of the buffer, regrouped PEs keep the budget |
| `SystemProofs` | what compilers build and runs execute is well-formed in every state; from it, that no network overflows the buffer, that tiles make up their layer and emissions fit their width, that what is loaded is the program, its consumers linked and its regions apart |
| `QueueLemmas` | queues: appending, popping, counting; least numbers and recursive functions |
| `MC*` | instances for TLC: rows, machines, burst shapes, networks, channels |

Definitions with a comment starting `(fault)` are faulty variants of the one
next to them; they are in no next-state relation. They say what kind of error
each property is able to catch (`PROJECT.json`, `mutants`).

### 2.1 Compiler and its parts

The parts are pure: operators on layer specifications, rows, tile requests and
functions. An address or a size is in the unit the source uses at that place
(words of a descriptor, bytes of an image). `Compiler` gives them the state they
have in the program: rows written one by one, `layers` with the pending tiles and
the attached blobs, a generator that keeps its configuration between calls and
adds a built-in network layer by layer (`todo` holds the steps left). `Load` is
the parser, of the whole image or of one cut short by a byte or a descriptor.

A row is a record of parsed columns, `Absent` where the cell is empty. Text,
printing, `save` and `validate` are left out. The parser is modelled check by
check, because the order of its checks decides what a truncated image loads
as. 32-bit address arithmetic keeps its wrap (`WordSpace` is 2^30 words). The
spill ratio, a floating point quotient in the source, is an exact rational here.

### 2.2 LayerExecution and EndToEnd

A step is one packet: `RunFused`, `RunTiled` and `RunStreamed` are the three ways
`read_thread` may take it. `RunTiled` computes what the source computes: the
residency of each operand with its capacity test, the schedule lowered to
transfers, compression and zero skipping, spilled partial sums, the input found
in the buffer, the write taken back from counter and record. `RunStreamed` goes
through the chunks of `read_thread` with their offsets in the buffer, hits in
the cache, `output_retained_next_layer` and the ledger. `reserved` is what
`compute_thread` may have reserved for its output by then. How the threads
interleave *within* a streamed layer is the subject of `NpuPipeline`; cycles are
left out of both.

`streams_done_` outlives its run: neither START nor RESET clears it. In a later run
`compute_thread` then does not wait for the data of the next packet, so once a streamed
packet that is not the last is written (`Overtakes`) it may pass `read_thread`, or end
its run before it. `RunStreamed` leaves open whether it does; if so, `npu` is "ahead" and
that run is not followed here any further. What comes of it is the subject of
`NpuPipeline`, which has both threads.

`trace` is a history: what each packet of the run fetched, from where, and what
it wrote. The properties relate it to the program and to the trace of the run
before (`earlier`).

`EndToEnd` is `Compiler` and `LayerExecution` side by side, as
`FlexNPUSimSystem::run` calls them: an image that is loaded whole may be
executed on any of the machines, the one it was compiled for among them.

### 2.3 MemoryPath

`Arbiter::grant` is translated policy by policy with its cursor and credits, and
`calculate_bursts` as a recursive function over the bytes left. The bus is one
shared request channel; a memory access takes one of two latencies by the open
row of its bank, and the slave answers in order of arrival. `passed[m][o]` counts
the grants to o while m asks.

### 2.4 AxiBusWrite

A burst is `<<m, n>>`: the n-th write of master m. Addresses, strobes and data
are left out; a burst keeps where its address decodes to, its AXI id and its
number of beats. `burst[m]` is everything m has issued, and the counters
`awDone[m]` and `wDone[m]` say how much of it the AW and the W thread have sent,
so `aw_queue_` and `w_queue_` are its tails. Each routing deque of the bus is a
variable under its own name in camel case. The slave's `aw_q_` is kept with the op
`w_thread` holds at its head; `AwQueued` recovers the number of entries the
code compares with the queue's depth. The AW pulse is the wire `awWire[s]`:
`SlaveAw` takes it off at the edge and latches it or, with `aw_q_` full, loses
it (`lost`, a history variable). `BPick`/`BDeliver`/`BAck` are the three waits
of `b_drain_master`, with `slave_bready_pulser` folded into the last.

`w_advance` runs two loops over one sample of the wires, and `RetireMapped` is both: the
WLAST of a mapped burst pops `w_order_` and the master's target, and if the target behind
it is the sink, `RetireRefused` pops that one too, on a beat of another burst. From then
on the master's targets run ahead of its W stream, for good: `Retired(m)`, the targets
retired so far, exceeds `wDone[m]`, the bursts streamed. `InStep` says that this has
happened to no master. The model goes on behind it, with data under other addresses and
streams that wedge, except that a response that precedes its data is not collected
(`Streamed`): its ticket would go to a new burst, which overwrites the slot of the old one.

Which master the arbiter grants is left open, so what holds here holds for all
five policies. When the slave's memory accepts a write is left open too.

### 2.5 AxiBusRead

The R channel is modelled one clock edge at a time. `ClockEdge` is everything
the edge does to R at once, using the wires as `r_forward` left them:
masters take beats, slaves drop them, `r_advance` retires routing heads and
counts down refused reads. `Settle` is the delta cycle in which `r_forward` runs, if
`trigger` says one of its inputs changed. The AR threads, a slave raising
RVALID and a completion in the memory happen in any order between edges. The
memory completes reads in any order; `MemCap` is the number it takes before
`will_accept()` turns false.

### 2.6 NpuPipeline

SystemC threads are coroutines, and the model keeps that: `cpu` is the thread
that runs, and it runs until a `wait()`. `pc[t]` is the place in the source;
labels in `EventOf` are `wait(event)`, labels in `Timed` are waits for time.
`notify()` sets `awake` for threads already waiting and for nobody else, so a lost
wake-up is lost in the model. `Start` is the write to NPUCR, allowed at power-on, at
AllDone and after a `Reset`; `starts` bounds how many there are. It wakes the
threads that wait for it and changes no other member, so a second run begins with
what the first has left (`streams_done_`, the layer flags). `ran`, `computed` and `written`
are histories of the current run. `Tick` lets time pass to the end of one or more timed
waits once nothing can run. A network is a sequence of packet groups; a group
says which path it takes (plain, tiled, fused), how many chunks its operands
have, which of its functions write to DRAM, and whether the next layer fits
beside its output. Configuration (`double_buffer`, peak_bw timing,
backpressure, prefetch) is part of `setup`.

### 2.7 DmaEngine and DmaChannel

One channel with its requester (`trigger_rdma` or `wdma_issue_thread`), the
engine's `transfer_thread` and the user of the persistent pipe. All its bursts
have one AXI id, so the bus answers them in issue order (`order`). The
refinement mapping reads the abstract phase from the requester (`busy` while it
waits for `done`), the size from the signal, and what has been carried from
the engine, taken as empty between the request and the moment the engine picks
it up. `CarriesInOrder` is the abstract specification with its fairness, so it
also says that requested transfers complete.

## 3. Runs

| Run | Question | Result |
|---|---|---|
| `Compiler` | Is the image the program, and do addresses, tiles and PE groupings add up? | holds, 47 456 states |
| `EndToEnd` | Is what the NPU executes what was compiled, and what the buffer serves the latest value? | holds, 41 312 states |
| `MemoryPath` | Do bursts cover their transfer, do equals take turns, does everyone get through? | holds, 66 631 states |
| `NpuPipeline` | Do the three threads hand over all layers and reach AllDone? | holds, 97 246 states |
| `DmaEngine` | Is the window capped right; does the channel implement `DmaChannel`? | holds, 5 132 states |
| `AxiBusWrite` | Does data follow its address, responses their burst; is every write answered, while streams are in step? | holds, 741 182 states |
| `AxiBusRead` | Does every beat cross once and land in its own slot; are mapped reads answered? | holds, 417 434 states |
| `AxiBusWriteSink` | Does a DECERR response wait for its burst's data? | violated |
| `AxiBusReadDecerr` | Is a refused read always answered? | violated |
| `NpuPipelineGroup` | Does read wait for its own layer after a packet group? | violated |
| `NpuPipelineAgain` | Does AllDone mean all done in a second run? | violated |
| `EndToEndRetention` | Does the producer suppress only writes its consumer does not need? | violated |

### 3.1 Bounds, and why they are enough

* **Compiler.** Rows: every sequence of up to three of ten rows, with
  repetition, for two machines. A link joins two rows and a third comes between
  or after them; the ten rows cover explicit, repeated and forward ids,
  addresses below and above the cursor, rows that are skipped, all ways to ask
  for tiles, an oracle and a preprocessing function. Sizes are chosen so that
  no tile divides its axis: 5 rows in pieces of 2 show a whole tile, an edge and
  a remainder. API: two layers with every tile and mapping, blobs attached before
  and after. Generator: every configuration call before every built-in network of
  a 32 x 32 input; a built-in network is the same sequence of steps whatever the
  size of its input. `DramWords` is small enough that a placement may run out of memory.
* **EndToEnd.** Three packets show each pair of neighbours with a history on one
  side (what the ledger needs), one packet has up to three functions. Four
  machines are chosen to take every branch of the executor: with and without
  cache, layer fusion, fixed partitions, a tile search, spill, compression, peak_bw
  timing; the first two are those the rows are compiled for, which is what
  `CompilerForeseesTraffic` needs. Two runs on one image show what a START
  leaves behind.
* **MemoryPath.** Three masters: two equals and a third of another tier, weights 2 and 1.
  The transfers start misaligned before a page's end, behind an image header, and on a beat;
  a plan has one or two bursts, and the addresses fall in two rows of one bank and in a
  second bank. `Window` of two lets a master ask again while its first burst is under way.
* **Buses: two masters, two slaves and an unmapped region.**
  Every routing queue is kept per master or per slave, and every hazard is a
  pair: two masters at one slave, one master at two slaves, an error between two
  real ones. Two of each with two outstanding bursts reaches all of these, and
  a circular wait of the W path needs two masters and two slaves. Bursts of two beats
  are also interrupted half-way.
  Write: master 0 issues up to three bursts of every shape, so that a refused one comes
  before, between and behind mapped ones; master 1 two mapped ones (`MayIssue`). With two
  tickets each, tickets are used again. Up to five mapped bursts go to one slave whose
  `aw_q_` holds `AwCap = 3`, the least that is `Roomy` for four tickets: a pulse would be
  lost if tickets came back too early (the mutant of `TypeOK` does that) or a pulse were
  seen twice. Read: two bursts each.
* **Ids.** In the passing runs each id has one destination. That is a
  precondition of the code, not of the model: with a shared id the responses of
  two destinations overtake each other (section 6).
* **NpuPipeline.** *Every* network of up to three groups out of thirteen kinds of
  group, plus up to four plain double-buffered layers: a layer interacts with
  the one before and the one after it, so three in a row show every pair of
  neighbours with history on one side. Three chunks with a prefetch of two
  reach "less than", "exactly" and "more than" the prefetch. A second
  START, with or without RESET, follows for the networks in which nothing is behind a
  plain group: these complete again. peak_bw is
  included for networks of one group: with more, the outcome depends on the
  order in which the kernel runs threads of the same instant, which SystemC
  leaves unspecified. The networks left out of the passing run are those that
  hang or run ahead (section 6) and their extensions.
* **DmaEngine.** Transfers of up to four bursts with windows of two: the window
  fills, slides and drains. A FIFO wider than the pool (read) and a narrower one
  (write) put either limit in force. Two transfers of each user suffice
  for a stale `done` or a leaked ticket to meet the next transfer.

### 3.2 Deadlock

Deadlock is checked in the runs of the read bus, the DMA engine, the pipeline and
the memory path. An engine without work and a controller that has had its last START
may rest (`Quiet`, `Idle`); the read bus keeps clocking. A write stream that is out of step
may stop for good, so `AxiBusWrite` sets `CHECK_DEADLOCK FALSE`, and `EveryWriteAnswered`
says when writes must go on instead. `Compiler` and `EndToEnd` are sequential programs that
end, when an image is loaded or refused or the last run is over, so
`CHECK_DEADLOCK FALSE` is set there.

### 3.3 Fairness

SystemC runs every runnable thread at every clock edge and the memory models
complete every access in finite time, so the kernel gives every thread weak
fairness or more. `AxiBusWrite`, `NpuPipeline` and `DmaEngine` assume less: weak
fairness of the disjunction of all steps other than issuing new work (while
something can happen, something does); each burst or layer takes finitely many
steps, so that is enough. `AxiBusRead` has a clock that ticks for ever, so its
fairness is stated per thread; `SlaveRValid` has strong fairness because it is
enabled between two edges only and the edge could otherwise always come first,
which no real execution does: the thread runs at that very edge. `MemoryPath`
assumes weak fairness of the grant, the memory's tick and the answer, and of each
master's request and completion, all of them threads that run at every edge:
which master is granted is the policy's choice and not fairness's, so that
`EveryTransferCompletes` is about the policy. No fairness is assumed of the
masters' wish to transfer, of the host, or of the sequential programs, of which
only safety is stated.

## 4. What is proved

TLC checks the instances of section 3; the theorems below hold for every value of
the constants that the named assumptions admit (`BusWriteAssumption` and the
like: at least one of everything, no empty bursts, a buffer of at least 1 KB and
elements of at least one byte). `PROJECT.json` lists them
with the properties they state. Every inductive invariant was first checked by
TLC on small instances, then proved: one lemma per action, under it one step per
part the action can disturb.

Some theorems have a hypothesis. Each is a condition the code relies on without
checking it, and in each case an instance that breaks it breaks the property
(sections 6.1 and 6.2):

* `Dedicated` (buses): an AXI id keeps to one destination. The documentation
  calls this the contract of ids.
* `Roomy` (write bus): the slaves' `aw_q_` holds a write for every ticket of every
  writing master. A slave's depth and a master's pool are both
  `max_outstanding_writes` (`axi_slave.h:67`, `axi_config.h:17`), and as assembled
  (`flexnpusim_system.cpp:525-620`) one channel writes, so this holds for any depth.
* `InStep` (write bus): no refused burst has been retired on the WLAST of the burst
  before it (finding 1). It is a condition on the state, not on the constants: it holds of
  every state of a bus whose masters address slaves only.
* `Roomy` (read bus): slave and memory take a read for every ticket of every
  reading master. As assembled one channel reads, with 8 tickets for 8 banks by
  default (`flexnpu_config.h:280`, `analytical_dram.h:34`) and a read queue of 256.
* `SingleTier` (arbiter): the two tiered policies rotate fairly only when all are
  of one tier. `set_qos` is never called, so `QoSAware` always is of one.
* `Sequential(setup)` (pipeline): no double buffer (the default,
  `flexnpu_config.h:99`), no plain group behind a packet group of several
  functions, and one START: the theorems are about the first run.
* `chan.sameThread` (DMA): one thread at a time uses a channel, as all but the
  pair of `dma_engine.h:161` do.

What the compiler is given has preconditions of another kind (`CompilerAssumption`,
`LayersAssumption` in `Compiler`): extents are numbers, a kernel fits its input, a
network's kernels fit at every step (`NetworkFits`). The source checks none of them, and
computes with the difference of an extent and a kernel whatever its sign. The
theorems of 4.7 hold for all programs, networks and configurations that keep to them;
those on tiles need it, the ledger and the PE budget do not.

### 4.1 Write bus: data

`AxiBusWriteProofs`: `TypeCorrect`, `RoutingAlways`, `PairingAlways`,
`DataFollowsAddress` (`Spec => []WBeatsFollowTheirAddress`), without hypotheses on the
constants; `Pairing` and `WBeatsFollowTheirAddress` themselves speak of the states in step.

`TypeOK` is not inductive. `RetireMapped` pops `master_w_targets_`, and `RetireRefused`
pops `master_err_awid_`: that these are not empty must be known of the state before.
`Routing` adds five parts. They hold in every state, of streams out of step too, because
they count by targets retired and not by bursts streamed:

* `CountersOrdered`: a master has streamed no more bursts than it has had targets retired,
  and addresses never run ahead of issue;
* `TargetsMatch`: `master_w_targets_[m]` is exactly the destinations of the bursts
  whose address is taken and whose target is not retired, in order;
* `ErrBooked`: `master_err_awid_[m]` is exactly the refused ones among them, in
  increasing order, so its head is the burst whose target is next to be retired as refused;
* `RefsIssued`: every entry of the slaves' queues and of the error list names a
  burst that has been issued;
* `BRouted`: while a response is on its way, its slave keeps BVALID up and the
  master keeps its turn in `write_order_`, so `BAck` pops what `BPick` saw.

`WBeatsFollowTheirAddress` needs more. `Routing` says what the masters' side of
the routing holds; the slaves' side is `Pairing`, which assumes that no AW pulse
has been lost (after a loss `w_order_` and `aw_q_` differ by an entry for ever) and that
the streams are in step (otherwise a master streams the beats of an earlier burst than
the one its target belongs to); without either the property is false:

* `ListsPending(s)`: `w_order_[s]`, and `aw_q_` followed by the pulse on the wire,
  list the same bursts in the same order; these are exactly the bursts in flight
  to s (`InFlight`), and those of one master are in increasing order;
* `CountsBeats(s)`: s has counted exactly the beats its oldest burst's master has
  sent, and a burst that has been partly sent to s is that oldest one;
* `SentAfterAddress`: beats are only sent of a burst whose address is taken.

If the bus then wires m to s, the burst m streams is in flight to s
(`TargetsMatch`), so it is one of those pending at s; the first of these is m's too,
and those of m are in order, so it is the first (`ServedIsHead`). The only
difficult step is a last beat (`LastBeat`): three queues are popped at once, and
the position of every pending burst shifts; if a fourth pop puts the stream out of step,
nothing remains to be shown. `Routing` and `Pairing` are also
invariants of the run `AxiBusWrite`.

### 4.2 Write bus: order

`AxiBusWriteProofs`, second part:

* `WPathAlwaysOpen`: `Spec => []WPathNeverCircular`, without hypotheses, lost
  pulses or not, in step or not. `Granted` says that the bursts whose targets are due can be ranked,
  by the order their addresses were granted, so that every `master_w_targets_`
  and every `w_order_` is increasing. The one of least rank heads both its
  queues, so its path is open. Proving that there is such a rank in every state
  replaces a history variable.
* `ResponsesFollow` (`Dedicated`): until a pulse is lost or a stream gets out of step,
  `Answering` holds. What
  each slave owes (`SlaveOwes`) and what the bus owes (`BusOwes`) is what
  `write_order_` and the error list name (`TurnsMatch`), each id's bursts stand
  in the master's `id_write_order_` in order of issue (`QueueOf`), and unanswered
  bursts hold distinct tickets (`Tickets`).
* `NoAwIsLost` (`Roomy`, `Dedicated`): `Spec => [](InStep => NoAwLost)`. A slave has at most
  as many unanswered bursts as there are tickets, one of them is on the wire, so `aw_q_` has
  room. A counting argument, over an injection from bursts to tickets.
* `ResponsesMatch` (`Roomy`, `Dedicated`): `Spec => [](InStep => ResponseMatchesBurst)`. The
  head of the id's queue, which `b_thread` credits, is the burst that has been answered. The
  run checks both without `InStep`: within its bounds a stream out of step loses no pulse
  and misleads no response.

### 4.3 Read bus

`AxiBusReadProofs`:

* `Wiring` holds in every configuration: when the wires have settled they are
  what `r_forward` makes of the registers, and whatever changes an input has set
  `trigger`. From it `ReadTypeCorrect` and `BeatsAlwaysCrossOnce`.
* `ReadsDelivered` (`Roomy`, `Dedicated`): `Delivery` follows a read from queue to queue,
  from its AR handshake to its last beat. From it `NoArIsLost`.
* `SlotsAlwaysOwnBeats` (also, refused reads have two beats or more: those of one beat
  are finding 2): `Refused` keeps synthesized beats apart from real ones.

### 4.4 DMA engine

`DmaEngineProofs`, all without hypotheses but `WindowNeverBlocks`:

* `DmaTypeCorrect`, `TicketsAlwaysAccounted`, `DoneMeansCarriedAlways`: `DmaInv`
  relates the engine's place in the source, the handshake's wires, the two in-flight queues and the
  pool. The parts about `req` and `done` are what rules out a stale `done`.
* `WindowNeverBlocks`: `Spec => [](chan.sameThread => AcquireNeverBlocks)`.
* `DmaImplementsChannel`: `Spec => Abstract!Spec`. Initial states map to initial
  states, each step to a step of `DmaChannel` or a stutter: this is
  `CarriesInOrder` without its fairness.

### 4.5 Layer pipeline

`NpuPipelineProofs`:

* `Threading`, for every network, every configuration and any number of STARTs and RESETs,
  the runs that hang included: which thread has the processor, which group each is at by its label,
  what the event lists may hold. From it `PipelineTypeCorrect`.
* `SingleRun` and `Orderly`, for `Sequential` setups, also under backpressure and peak_bw timing:
  read leaves a group after compute (`Progressed`), the operands loaded are
  those of compute's layer (`Feeding`), write has something to do exactly while compute waits for
  it (`Handing`), what has been written are the outputs handed over, in network
  order (`Written`). From it `OwnOperandsAlways`, `ReadAlwaysWaits`,
  `HandOversNeverLost`, `AllDoneIsTheEnd`. With `Sequential` set aside two
  of these are false (section 6).

### 4.6 Memory path

`MemoryPathProofs`:

* `EqualsAlwaysTakeTurns`: `Spec => [](SingleTier => EqualsTakeTurns)`. While m
  asks, whoever has been granted since comes after m from the cursor on
  (`InRotation`); credits are replenished at most once while m asks, and not as
  long as m has some (`WithinCredits`).
* `PlanCoversTransfer`: for every address and size, `BurstPlan` is a sequence of
  bursts that follow on each other, end where the transfer ends, stay within a
  page and within the beat and length limits.
* `BurstsAlwaysCover`: `Spec => []BurstsCoverTransfer`. What has been answered, what
  is in flight and what is planned make up the plan, in order.

`BurstPlan` and the sequence of a master's bursts in flight are recursive functions.
The theorem for induction over the naturals takes an operator as a parameter, so these
proofs take a least counterexample instead (`LeastNatural`). A recursive function in
TLA+ is one CHOOSE picks among those satisfying the equation: one induction
shows that there is one, a second one that each of them has the property.

### 4.7 From the image to the traffic

All theorems here start from the power-on state, admit any number of compilations,
loads and runs, and have no hypothesis but for `RegionsAlwaysApart`.

`EndToEndProofs`:

* `ForwardedAlwaysLatest`: `SystemSpec => []ForwardedIsLatest`. `Ledger` says that the
  retention ledger, if it holds anything, is the output of the last packet in the
  history of this run. Every path ends with the ledger's update and START empties
  both, so the ledger is never a packet behind.
* `RegroupingKeepsBudget`: `Spec => []PeBudgetKept`. `Generating`
  gives the hardware, the steps of a network and the shapes their types;
  `NetworksAre` says so of all built-in networks; `Regrouped` is the arithmetic: the
  greatest divisor divides, and the quotient is shared out but for less than a group.

`SystemProofs`. What a run does is right only for layers that are well-formed, and
they are well-formed because of every step that made them: rows, placement, the
packets of the generator, the image and its parser. The inductive invariant therefore goes
through the whole system:

    SystemKept  =  Compiling /\ Contained /\ EntriesRight /\ Controlled /\ Counted
    Compiling   =  ImageKept /\ CompilerKept /\ GeneratorKept /\ NetOK(net, todo)

`CompilerKept` and `GeneratorKept` say that the layers added are layers with
a kernel that fits, `ImageKept` that the image and what was loaded are made of such,
`NetOK` that the network's remaining steps fit the shape reached so far. `Contained` is
the layers' regions in the buffer, `EntriesRight` the history of the run, `Controlled`
and `Counted` the packet cursor, the ledger and the counters.

* `SystemTypeCorrect`: `SystemSpec => []SystemTypeOK`; `CompilerTypeCorrect`:
  `Spec => []TypeOK`.
* `NothingEverOverflows`: `SystemSpec => []NothingOverflows`. The chunks of a fetch are
  a recursive function: `StepsCompose` and `StaysIn` (in `QueueLemmas`) are the two
  inductions it takes, and `Fetching` is what every chunk keeps. Writes end with their
  region, the region with the buffer (`WritesFit`), and the packets' writes are
  flattened (`FlattenedIn`). A layer that is too large is tiled by the same test
  that would stop it.
* `SchedulesCoverTheirLayers`: `Spec => []TilesCoverOutput`, from
  `EveryScheduleCovers`, which holds of every legal cut (`CutOK`) whoever asks for
  it. The argument is division with remainder: `PieceOf` says that a
  number lies in one piece, its quotient's; `OneTile` applies it to rows and columns
  (`CellOf` counts the tiles row by row), `OnePass` to channels. `EveryPassFits` needs
  that the rounded-up quotient is the least number that is enough (`CeilDivEnough`): a
  pass never takes more channels than the share that fits.
* `TiledLayersComplete`: `SystemSpec => []TiledLayersAreComplete`. Summed over rows,
  columns and passes, what the tiles write is the layer's output, and what they read is at
  least its input and its kernel, resident or not. Every total is a recursive function
  over the schedule; sums of products over rows and columns are taken apart by
  lemmas on sums (a constant factor, a sum of lengths that telescopes).
* `EmissionsAlwaysWithinWidth`: `SystemSpec => []EmissionsWithinWidth`, from
  the arithmetic of `enable_gran` and the ports for every tile of a schedule.

* `LoadedAlwaysTheProgram`: `Spec => []LoadedIsTheProgram`. The inductive invariant,
  `Faithful`, is that an image is what `BuildImage` makes of the program, and what was loaded
  what `ParseImage` reads of the image; the rest is about these two operators. The
  functions of a program are ordered by layer and id (`Ordered`; of a CSV program because of
  the linker's sort), so that the builder's own sort leaves them alone; equal layers are then
  neighbours, each packet holds one block of them, and the sizes stored with packets and
  sections lead the parser's walk from each to the next. An induction over packets shows
  that it stops exactly where the image was cut.
* `ConsumersReadTheirProducers`: `Spec => []ConsumerReadsItsProducer`. `AssignIds` gives ids
  and connections without moving a row or changing the order of ids; `Place` keeps the rows
  and gives an input with no address the output of the last function with the id
  it names (`PlacedAs`). What was loaded is that program, by the theorem before.
* `RegionsAlwaysApart`: `MemoryIsLargeEnough => (Spec => []RegionsApart)`, stated as ASSUME
  and PROVE. While rows are placed the linker's cursor is a high-water mark above every
  region placed or given so far (`Mounted`); the generator's address is the end of a
  stack of regions, with room for the steps that are left (`NetStacked`; `StepWords` is
  what a step takes). The hypothesis: `dram_size_mb` is any number of megabytes, and if a
  program or a network used the last word of the 4 GiB that 32 bits address, the next
  region would start at 0, over the first. `MCCompiler` has it as an ASSUME for its instance.

Recursive functions and sorting are written for the prover: a sort is the sequence
whose n-th element has n - 1 before it (`EndToEndProofs` shows that there is exactly one),
overrides are functions over a union of domains. A recursive function's
properties are shown by the inductions of 4.6.

## 5. What is only model-checked

* All liveness. TLAPS proves neither `ENABLED` nor liveness under fairness, so
  `EveryWriteAnswered`, `MappedReadAnswered`, `RunCompletes`,
  `EveryTransferCompletes` and the liveness half of `CarriesInOrder` stay with TLC.
* The pipeline's hand-over with double buffering, and behind a packet group: there
  the threads do run apart, and each setup needs an argument of its own. TLC
  checks the setups that neither hang nor run ahead.
* `AggregateIsTheSum`: the closed totals of `tile_schedule` against its tiles, a sum of
  products over the pieces of four dimensions with their remainders.
* `CompilerForeseesTraffic`: what the compiler's search counts for a cut against what the
  executor moves for it; again two ways of adding up, one of them with retention.
* The pipeline over a second run: `streams_done_` lets the threads run apart there, too. TLC
  checks the networks that complete again.
* `RunsReadAlike`: two runs of an image read the same. Its proof would compare the cache's
  lines after two sequences of chunked stores of different lengths.

In the last three a formula is compared with another for every value of many variables
multiplied with each other, or a cache with another line by line; TLC does so for each
layer, machine and cut of its runs. Every other invariant a run checks is the property of
a theorem.

## 6. Findings

### 6.1 With a run

Each is shown by its run; `PROJECT.json` quotes the text it contradicts.

1. *A refused write behind a mapped one is retired before its data*
   (`axi_bus.h:506`, run `AxiBusWriteSink`). Both loops of `w_advance` see the WLAST of the
   mapped burst. The DECERR response of the refused one is queued at once, and its own
   beats find no target, or the target of the burst behind it.
2. *A refused read on an idle bus is never answered* (`axi_bus.h:608`, run
   `AxiBusReadDecerr`). `r_advance` counts the beat off before `r_forward` has
   driven it, because pushing to `err_reads_` wakes nobody.
3. *After a packet group, read runs ahead of compute*
   (`npu_controller_compute.cpp:481`, run `NpuPipelineGroup`). A completion
   flag of the group's last function is taken for the next layer's.
4. *A second run reports AllDone while a layer is still being read*
   (`npu_controller_read.cpp:403`, run `NpuPipelineAgain`). `streams_done_` is never
   cleared: compute does not wait for the second layer's data, gives the layer up and ends,
   and `maybe_finalize` takes the flag for this run's. read then waits for a completion
   that has passed. With `Setups <- TwoPlain`, `RunCompletes` and
   `ComputeUsesOwnOperands` are violated as well; with `Setups <- PlainThenTiled`, AllDone
   comes before the tiled layer has run.
5. *A suppressed write is read from memory* (`npu_controller_tile.cpp:72`, run
   `EndToEndRetention`). Producer and consumer decide by different tests.

### 6.2 Without a run of their own

These were found the same way. Each can be seen with a property and the
definitions that are in the modules, by changing a configuration as described.

* *An image with attached weights cannot be loaded* (`dnn_image_packet.cpp:213`). The
  builder puts blobs in a section of their own (:100-121); the parser expects them inside
  the packet ("R10: packet = header + descriptors + optional kernel blob.", :207) and
  refuses the image. `Compiler.cfg` violates `WeightsCanBeLoaded`.
* *The rotation within a tier is not fair* (`axi_arbiter.h:156` and :176). One cursor serves all
  tiers, though the comment promises "priority tier first, then round-robin within the
  highest-priority tier" (:15): a grant in one tier lets one of two equals of another be
  overtaken again and again. `MemoryPath.cfg` with
  `Policies = {"PriorityRR", "QoSAware"}` violates `EqualsTakeTurns`.
* *A DECERR response overtakes an older response of its id* (`axi_bus.h:647`).
  `b_drain_master` looks at error responses first, and `b_thread` credits by id;
  the documentation relies on "same-ID stays in order by contract"
  (`src/docs/reference/bus/modeling.md:141`). `AxiBusWrite.cfg` with one master, one slave,
  `Ids = {0}`, `Shapes <- SharedId` violates `ResponseMatchesBurst`.
* *A read is lost when the memory does not accept it* (`axi_bus.h:322`).
  ARVALID is a one-cycle pulse; ARREADY is not read, though "False stalls the
  AXI accept handshake" (`dram_timing.h:38`). `AxiBusRead.cfg` with one master,
  one slave, `Shapes <- MappedOnly`, `Ids = {0}`, `MemCap = 1` violates `NoArLost`.
* *A run with double_buffer on hangs* (`npu_controller_compute.cpp:444`). The
  second `output_ready` notification comes while `write_thread` is at work.
  `Setups <- TwoThatFit` violates `RunCompletes`.
* *Backpressure never ends* (`npu_controller_read.cpp:259`). Nothing consumes
  from the region `read_thread` waits on. `Setups <- LayerLargerThanRegion`
  violates `RunCompletes`.
* *Two users of the write channel can each hold the tickets the other needs*
  (`dma_engine.h:161`). `Channels <- TwoUsers` violates `TransfersComplete`.
* *More is taken back than was written* (`npu_controller_tile.cpp:458`). What the
  consumer did not read includes its halo twice, and a streamed producer has no
  record of its own, so an older layer's is reduced. `EndToEnd.cfg` violates
  `RollbackIsItsProducers`.
* *DMA timing stays suppressed after a run that ends with a streamed layer*
  under peak_bw (`npu_controller_read.cpp:151`), though "Set true only while run_tiled_layer
  streams a layer's tiles" (`npu_controller.h:179`): the next START then refuses the
  image. `EndToEnd.cfg` violates `SuppressionEnds`.

### 6.3 Observations

Places a reader of the code may trip over; none contradicts a text clearly
enough to be stated as a finding.

* `build_layer_schedule` tests the input and the weights for residency one after
  the other: with resident weights under `IS`, both may be kept although they do
  not fit together.
* The comment at `npu_controller_tile.cpp:217` names OS among the
  weight-resident dataflows; the code (:226) and `lower_tile_schedule` do not.
* A generated pooling layer is charged a weight fetch in its tiled descriptor
  (the untiled one has none), and layers of a generated network that are not chained read a
  fresh region instead of the previous output.
* `search_dataflow` under WS reports "does not fit" for tiles that more
  passes would make fit.
* A reference to an operand of the same packet that comes later (a forward
  `i1_connect`) is given an address of its own by the linker, and the parser still
  marks it as coming from the packet.
* Weights of the functions behind the first of a packet are never fetched, and
  the tiled path writes to the first function's output address only.
* The buffer is reset before the input's window is computed, so the reservation
  for the output is zero at the start of every streamed layer.
* Performance counters and layer records are not cleared by START. A second run
  adds to the first's.
* Tiled transfers bypass the cache; a store of part of a line marks all of it valid.
* `set_qos` is never called: under `QoSAware` every master keeps its default.

## 7. Not modelled, and why

* Function models (`src/src/model/function`): numeric kernels over floating
  point tensors, sequential. Sparsity preprocessing of the image
  (`apply_sparsity`), floating point too.
* Time: the cycles of a tile, of a layer, of a memory access. Latency models,
  the performance report and the timeline are arithmetic on them; `MemoryPath`
  keeps "sooner or later" only. The other memory tiers differ from
  the bank model in latencies; DRAMSim3 is third-party.
* The host processor: it writes registers and polls; a run is started from
  outside. Its 64-bit counter reads, in two halves, feed printed text only. RESET *during* a run.
* JSON parsing, scenario files, report and CSV writing, the PyTorch scripts, the
  command line, `validate` and `save` of the compiler: pure I/O.
* The per-layer `enable_gran` column, and the queue between `write_thread` and
  `wdma_issue_thread` (a write is one timed wait in the pipeline's runs).
* `src/external`: third-party or superseded code.
* The iterator that `b_drain_master` keeps into a deque that may grow while it
  waits: the model keeps the element it pointed to. What the standard library
  does with an invalidated iterator is not defined by the source.
* Statistics, profiles and traces of DMA and bus: nothing depends on them.

## 8. Plan

Every component with behaviour of its own has a module, and every invariant but three
has a theorem. What is left, in this order:

1. `RunsReadAlike`: a lemma that chunked stores leave the cache as one whole store does,
   then an induction over two runs of an image in step.
2. `AggregateIsTheSum` and `CompilerForeseesTraffic`, by the sums of
   `TiledLayersComplete`, one dimension after the other.
3. Host processor with the register file, if its sequence grows beyond a START.
