--------------------------- MODULE LayerExecution ---------------------------
(***************************************************************************)
(* What the NPU does with a loaded image, one packet of functions at a     *)
(* time: a layer that is tiled (or larger than the global buffer) runs in  *)
(* the tile executor, any other one is streamed through the buffer.  Under *)
(* layer fusion the output of a packet stays in the buffer and the next    *)
(* packet reads it there.  Also START, RESET and the counters of the DMA.  *)
(*                                                                         *)
(* How read_thread, compute_thread and write_thread interleave inside a    *)
(* streamed layer is NpuPipeline's subject: here its transfers happen in   *)
(* one step.  Tensors are in words of the descriptor, transfers in bytes.  *)
(*                                                                         *)
(* A machine m: gbKb (global buffer), elem (bytes per element), dataflow,  *)
(* fusion (layer_fusion = "auto"), spill (model_spill), strategy (tile     *)
(* search), weightGb (weight_gb_stationary), inKb/wtKb/outKb (fixed        *)
(* partitions, 0 = none), psumKb (dedicated accumulator, -1 = partial sums *)
(* in the buffer), twice (double buffer), line (cache line bytes, 0 =      *)
(* scratchpad), peakBw (peak_bw timing), burst (bytes of an AXI burst),    *)
(* ratio (compression by operand), sparsity, ports (operands per cycle     *)
(* into the array, 0 = unlimited), enable (enable_gran).                   *)
(***************************************************************************)
EXTENDS DnnImage, TileSchedule, TileSearch

CONSTANTS Machines, MaxRuns,   \* configurations; STARTs in a behaviour
          DnnBase              \* byte address of the image (DNNSA)

ASSUME ExecutionAssumption ==
  /\ MaxRuns \in Nat /\ DnnBase \in Nat
  /\ \A m \in Machines :
       /\ m.gbKb \in Nat \ {0} /\ m.elem \in Nat \ {0}
       /\ {m.burst, m.inKb, m.wtKb, m.outKb, m.ports.in, m.ports.wt, m.ports.out,
           m.ratio.in, m.ratio.wt, m.ratio.out} \subseteq Nat
       /\ m.psumKb \in Int /\ m.peakBw \in BOOLEAN

VARIABLES
  machine,    \* configuration, Off before power-on
  npu,        \* "off", "idle", "running", "done", "fatal" (sc_stop); "ahead": compute_thread
              \* has left read_thread behind, and the run is not followed here any more
  streamsDone, \* streams_done_
  loader,     \* the layers of the loaded image
  next,       \* layer index of read_thread
  retained,   \* retained_out_addr_ and retained_out_bytes_ (words 0: none)
  quiet,      \* suppress_dma_timing_
  cache,      \* tag of each line of the buffer in cache mode, -1: invalid
  perf,       \* perf_mem_reads, perf_mem_writes
  records,    \* layer_records: [layer, wr] of each tiled layer
  runs,       \* STARTs so far
  trace,      \* history: what each packet of this run did
  earlier     \* history: the trace of the run before

execVars == <<machine, npu, streamsDone, loader, next, retained, quiet, cache, perf, records,
              runs, trace, earlier>>

Off == [gbKb |-> 0]
NothingRetained == [addr |-> 0, words |-> 0]
ZeroCounts == [rd |-> 0, wr |-> 0]

GbBytes(m)          == m.gbKb * 1024
Physical(m, words)  == words * m.elem
LayerBytes(l)       == 4 * (l.input.words + l.weight.words + l.output.words)
Fused(m, l)         == l.type = "Activation" /\ m.fusion

\* (fault) Only the image's flag decides, not the layer's size.
RunsTiledOnFlag(m, l) == "TileEnable" \in l.flags \/ Fused(m, l)

RunsTiled(m, l)     == "TileEnable" \in l.flags \/ Fused(m, l) \/ LayerBytes(l) > GbBytes(m)
GroupEnd(L, i)      == Max({j \in i .. Len(L) : \A k \in i .. j : L[k].layer = L[i].layer})

\* PacketExecutionPolicy::decide.
EffectiveInput(l)  == IF l.i1FromPacket THEN 0 ELSE l.input.words
EffectiveOutput(l) == IF l.consumed THEN 0 ELSE l.output.words

-----------------------------------------------------------------------------
\* Retention: the ledger after the packet that starts at i, and the
\* producer's own decision whether its output need be written at all.
Retainable(m, t)  == m.fusion /\ Physical(m, t.words) <= GbBytes(m)
Within(t, addr, words) == t.addr >= addr /\ t.addr + t.words <= addr + words

LedgerAfter(m, L, i) ==
  LET out == L[GroupEnd(L, i)].output
  IN  IF Retainable(m, out) THEN [addr |-> out.addr, words |-> out.words] ELSE NothingRetained

OutputRetainedNextLayer(m, L, i) ==
  LET last == GroupEnd(L, i)  out == L[last].output
  IN  Retainable(m, out) /\ last < Len(L) /\ Within(L[last + 1].input, out.addr, out.words)

-----------------------------------------------------------------------------
\* The tile executor's schedule (build_layer_schedule).
NonEmpty(s) == Shape(Most(1, s.h), Most(1, s.w), Most(1, s.c))

SearchProblem(m, l) ==
  [out |-> NonEmpty(l.output.shape), ic |-> Most(1, l.input.shape.c),
   kh |-> Most(1, l.weight.shape.h), kw |-> Most(1, l.weight.shape.w),
   stride |-> Most(1, l.stride), elem |-> m.elem, dataflow |-> m.dataflow,
   cap |-> GbBytes(m), gb |-> GbBytes(m), resident |-> TRUE, buffers |-> 2]

\* (fault) The descriptor's tile is read across before down.
TileRequestSwapped(m, l) ==
  LET out == NonEmpty(l.output.shape)
  IN  [h |-> IF l.tile.c > 0 THEN l.tile.c ELSE out.h,
       w |-> IF l.tile.r > 0 THEN l.tile.r ELSE out.w]

\* With spill modelling the tile is searched for; a strategy that is only
\* declared throws, and the descriptor's tile is used as without it.
TileRequest(m, l) ==
  LET out == NonEmpty(l.output.shape)
      found == SearchOutputTile(SearchProblem(m, l), m.strategy)
  IN  IF m.spill /\ m.strategy \in {"dataflow", "min_tiles"}
      THEN [h |-> found.h, w |-> found.w]
      ELSE [h |-> IF l.tile.r > 0 THEN l.tile.r ELSE out.h,
            w |-> IF l.tile.c > 0 THEN l.tile.c ELSE out.w]

RunCut(m, l) ==
  LET tile == TileRequest(m, l)
  IN  [out |-> NonEmpty(l.output.shape), ic |-> Most(1, l.input.shape.c),
       kh |-> Most(1, l.weight.shape.h), kw |-> Most(1, l.weight.shape.w),
       stride |-> Most(1, l.stride), kb |-> m.gbKb, th |-> tile.h, tw |-> tile.w,
       inKb |-> m.inKb, wtKb |-> m.wtKb, outKb |-> m.outKb,
       depthwise |-> l.type = "DepthwiseConv2D"]

TileOutBytes(m, cut, t) == Physical(m, TileOutputWords(cut, t))

\* Largest tile of an operand together with its output.
InputWorkingSet(m, cut, sched) ==
  Max({Physical(m, x.traffic.input) + TileOutBytes(m, cut, x.tile) : x \in Range(sched)})
KernelWorkingSet(m, cut, sched) ==
  Max({Physical(m, x.traffic.kernel) + TileOutBytes(m, cut, x.tile) : x \in Range(sched)})

DeclaredResidency(m) ==
  [weight |-> IF m.weightGb = "dataflow" THEN DataflowResidency(m.dataflow).weight
                                         ELSE m.weightGb = "resident",
   input  |-> DataflowResidency(m.dataflow).input]

\* An operand that does not fit beside the tiles of the other is streamed.
KeptResidency(m, l, wsIn, wsWt) ==
  [weight |-> DeclaredResidency(m).weight /\ Physical(m, l.lat.fW) + wsIn <= GbBytes(m),
   input  |-> DeclaredResidency(m).input /\ Physical(m, l.input.words) + wsWt <= GbBytes(m)]

\* Compression shrinks the bytes that cross the buffer's boundary, zero
\* skipping the input's, and under "remove" the weights and the work too.
Squeezed(bytes, ratio) ==
  IF ratio <= 1 \/ bytes = 0 THEN bytes ELSE Most(1, (2 * bytes + ratio) \div (2 * ratio))
Kept(l, n) == IF n = 0 THEN 0 ELSE Most(1, (n * (1000 - l.skip)) \div 1000)
Boundary(m, l, t) ==
  LET s == [t EXCEPT !.inBytes = Squeezed(@, m.ratio.in), !.wtBytes = Squeezed(@, m.ratio.wt),
                     !.outBytes = Squeezed(@, m.ratio.out)]
      k == [s EXCEPT !.inBytes = Kept(l, @)]
  IN  IF l.skip = 0 THEN s
      ELSE IF m.sparsity # "remove" THEN k
      ELSE [k EXCEPT !.wtBytes = Kept(l, @), !.outOps = Kept(l, @)]

\* Partial sums that leave the chip between the passes of a tile.
PsumStore(m) == IF m.psumKb >= 0 THEN m.psumKb * 1024 ELSE GbBytes(m)
Spilled(m, cut, entry, t) ==
  LET out == TileOutBytes(m, cut, entry.tile)
      n   == IF m.spill /\ out > PsumStore(m) THEN (entry.passes - 1) * out ELSE 0
  IN  [t EXCEPT !.spillRd = n, !.spillWr = n]

\* The retained output serves the input when it covers it and both fit.
Forwardable(m, l, held, kept, wsWt) ==
  /\ m.fusion /\ held.words > 0 /\ Within(l.input, held.addr, held.words)
  /\ Physical(m, l.input.words) + (IF kept.weight THEN Physical(m, l.lat.fW) ELSE 0) + wsWt
       <= GbBytes(m)

\* f itself; TLC computes its values once.
Tabulated(f) == CHOOSE g \in {f} : g = f

\* The schedule's transfers with what stays resident held.
Transactions(m, l, cut, sched, kept) ==
  LET passes  == Most(1, l.lat.fO \div Volume(cut.out))
      lowered == Lower(sched, kept, l.input.words, l.lat.fW, m.elem, passes)
  IN  [k \in DOMAIN sched |-> Spilled(m, cut, sched[k], Boundary(m, l, lowered[k]))]

\* An input found in the buffer is not fetched.
Forwarded(txns, forward) ==
  [txns |-> IF forward THEN [k \in DOMAIN txns |-> [txns[k] EXCEPT !.inBytes = 0]] ELSE txns,
   forwarded |-> IF forward THEN TxnTotal(txns, LAMBDA t: t.inBytes) ELSE 0]

\* With the residency decided: lowered, and forwarded where it can be.
ScheduleKeeping(m, l, held, cut, sched, kept) ==
  Forwarded(Tabulated(Transactions(m, l, cut, sched, kept)),
            Forwardable(m, l, held, kept, KernelWorkingSet(m, cut, sched)))
ScheduleOf(m, l, held, cut, sched) ==
  ScheduleKeeping(m, l, held, cut, sched,
    KeptResidency(m, l, InputWorkingSet(m, cut, sched), KernelWorkingSet(m, cut, sched)))
LayerSchedule(m, l, held) ==
  LET cut == RunCut(m, l) IN ScheduleOf(m, l, held, cut, Tabulated(Schedule(cut)))

\* Issue slots in which the array emits outputs (tile_compute_cycles).
PortCycles(ops, port) == IF port = 0 THEN 0 ELSE CeilDiv(ops, port)
EmitFloor(m, lat) ==
  IF m.enable = "lockstep" \/ (m.enable # "independent" /\ Most(1, lat.nMin) = Most(1, lat.nMax))
  THEN Most(1, lat.nMax) ELSE Most(1, lat.nMin)
\* (fault) A cycle of feeding is an emission, however few outputs there are.
EmissionsEveryFeed(m, lat, t) ==
  Max({CeilDiv(t.outOps, Most(1, lat.nMax)), PortCycles(t.inOps, m.ports.in),
       PortCycles(t.wtOps, m.ports.wt), PortCycles(t.outOps, m.ports.out)})

Emissions(m, lat, t) ==
  LET ideal == CeilDiv(t.outOps, Most(1, lat.nMax))
      feed  == Max({PortCycles(t.inOps, m.ports.in), PortCycles(t.wtOps, m.ports.wt),
                    PortCycles(t.outOps, m.ports.out)})
  IN  IF feed > ideal /\ EmitFloor(m, lat) < Most(1, lat.nMax)
      THEN Least(feed, CeilDiv(t.outOps, EmitFloor(m, lat))) ELSE ideal

-----------------------------------------------------------------------------
\* A streamed layer.  Input and weights alternate, chunk by chunk, through
\* the whole buffer (the output area is reset before its size is read).
ChunkSize(m, in, wt) ==
  LET c == Least(Least(Most(GbBytes(m) \div 2, 1), Most(in, wt)), m.burst)
  IN  IF c = 0 THEN GbBytes(m) ELSE c

StreamStep(m, l, in, wt, s) ==
  LET isInput == IF s.inputTurn THEN s.in < in ELSE ~(s.wt < wt)
      off  == IF s.off >= GbBytes(m) THEN 0 ELSE s.off
      size == Least(Least(ChunkSize(m, in, wt), IF isInput THEN in - s.in ELSE wt - s.wt),
                    GbBytes(m) - off)
      addr == IF isInput THEN 4 * l.input.addr + s.in ELSE 4 * l.weight.addr + s.wt
  IN  [in |-> s.in + (IF isInput THEN size ELSE 0), wt |-> s.wt + (IF isInput THEN 0 ELSE size),
       off |-> off + size, inputTurn |-> ~s.inputTurn,
       transfers |-> Append(s.transfers, [addr |-> addr, size |-> size, off |-> off])]

StreamReads(m, l) ==
  LET in == Physical(m, EffectiveInput(l))
      wt == Physical(m, l.weight.words)
      begun == [in |-> 0, wt |-> 0, off |-> 0, inputTurn |-> TRUE, transfers |-> <<>>]
      Done(s) == s.in = in /\ s.wt = wt
      enough == CeilDiv(in, ChunkSize(m, in, wt)) + CeilDiv(wt, ChunkSize(m, in, wt))
                + CeilDiv(in + wt, GbBytes(m))
      \* After n chunks, of which the end of the buffer makes some shorter.
      after[n \in 0 .. enough] ==
        IF n = 0 THEN begun
        ELSE LET s == after[n - 1] IN IF Done(s) THEN s ELSE StreamStep(m, l, in, wt, s)
  IN  after[enough].transfers

\* The writer leaves through the part of the buffer that holds output: all of
\* it, or with double buffering what is reserved when it looks.
WriteRegion(m, reserved) ==
  LET r == Least(reserved, GbBytes(m))
  IN  IF ~m.twice \/ r = 0 THEN [base |-> 0, size |-> GbBytes(m)]
                           ELSE [base |-> GbBytes(m) - r, size |-> r]
StreamWrites(m, f, region) ==
  LET bytes == Physical(m, EffectiveOutput(f))
  IN  [k \in 1 .. CeilDiv(bytes, region.size) |->
         [addr |-> 4 * f.output.addr + (k - 1) * region.size,
          size |-> Least(region.size, bytes - (k - 1) * region.size), off |-> region.base]]

\* The buffer as a direct-mapped cache.  A read is served when every line of
\* it is there; what is read or written is there afterwards.
LineCount(m)   == Most(1, GbBytes(m) \div m.line)
FirstLine(m, t) == t.addr \div m.line
LastLine(m, t)  == (t.addr + t.size - 1) \div m.line
EmptyCache(m)  == IF m.line = 0 THEN <<>> ELSE [i \in 0 .. LineCount(m) - 1 |-> -1]
CacheHit(m, c, t) ==
  m.line > 0 /\ \A la \in FirstLine(m, t) .. LastLine(m, t) :
                  c[la % LineCount(m)] = la \div LineCount(m)
CacheStore(m, c, t) ==
  LET Newest(i) == LastLine(m, t) - ((LastLine(m, t) - i) % LineCount(m))
  IN  [i \in DOMAIN c |-> IF Newest(i) >= FirstLine(m, t) THEN Newest(i) \div LineCount(m)
                                                         ELSE c[i]]

Overflows(m, t) == t.off > GbBytes(m) \/ t.size > GbBytes(m) - t.off

\* trigger_rdma and trigger_wdma, one transfer after another.  Without DMA
\* timing only bytes are counted.
Read(m, muted, acc, t) ==
  IF muted THEN [acc EXCEPT !.rd = @ + t.size]
  ELSE IF CacheHit(m, acc.cache, t) THEN [acc EXCEPT !.served = @ + t.size]
  ELSE [acc EXCEPT !.rd = @ + t.size, !.cache = CacheStore(m, @, t)]
Write(m, muted, acc, t) ==
  [acc EXCEPT !.wr = @ + t.size, !.cache = IF muted THEN @ ELSE CacheStore(m, @, t)]
Untransferred(c) == [cache |-> c, rd |-> 0, wr |-> 0, served |-> 0]
ReadAll(m, muted, acc, transfers) ==
  LET after[n \in 0 .. Len(transfers)] ==
        IF n = 0 THEN acc ELSE Read(m, muted, after[n - 1], transfers[n])
  IN  after[Len(transfers)]
WriteAll(m, muted, acc, transfers) ==
  LET after[n \in 0 .. Len(transfers)] ==
        IF n = 0 THEN acc ELSE Write(m, muted, after[n - 1], transfers[n])
  IN  after[Len(transfers)]

-----------------------------------------------------------------------------
ExecInit ==
  /\ machine = Off /\ npu = "off" /\ streamsDone = FALSE /\ loader = <<>> /\ next = 0
  /\ retained = NothingRetained /\ quiet = FALSE /\ cache = <<>>
  /\ perf = ZeroCounts /\ records = <<>> /\ runs = 0 /\ trace = <<>> /\ earlier = <<>>

\* The controller is configured once, before it runs.
PowerOn(m) ==
  /\ npu = "off"
  /\ machine' = m /\ npu' = "idle" /\ cache' = EmptyCache(m)
  /\ UNCHANGED <<streamsDone, loader, next, retained, quiet, perf, records, runs, trace, earlier>>

\* load_dnn_image: the header, then the body in pieces of the buffer's size.
ImageReads(m, img) ==
  LET body == img.total - HeaderBytes
  IN  <<[addr |-> DnnBase, size |-> HeaderBytes, off |-> 0]>> \o
      [k \in 1 .. CeilDiv(body, GbBytes(m)) |->
         [addr |-> DnnBase + HeaderBytes + (k - 1) * GbBytes(m),
          size |-> Least(GbBytes(m), body - (k - 1) * GbBytes(m)), off |-> 0]]

\* (fault) START keeps the ledger of the run before.
StartKeepsLedger(img) ==
  LET parsed == ParseImage(img, img.total)
      dma == ReadAll(machine, quiet, Untransferred(EmptyCache(machine)), ImageReads(machine, img))
  IN  /\ npu \in {"idle", "done"} /\ runs < MaxRuns
      /\ npu' = IF parsed.ok /\ ~quiet THEN "running" ELSE "idle"
      /\ loader' = IF parsed.ok /\ ~quiet THEN parsed.layers ELSE <<>>
      /\ next' = 1 /\ cache' = dma.cache
      /\ perf' = [perf EXCEPT !.rd = @ + IF quiet THEN HeaderBytes ELSE dma.rd]
      /\ runs' = runs + 1 /\ trace' = <<>> /\ earlier' = trace
      /\ UNCHANGED <<machine, streamsDone, retained, quiet, records>>

\* START; streams_done_ keeps the value of the run before.  While DMA timing is
\* suppressed nothing is really transferred: the header is whatever the buffer holds,
\* and the image is refused.
StartRun(img) ==
  LET parsed == ParseImage(img, img.total)
      dma == ReadAll(machine, quiet, Untransferred(EmptyCache(machine)), ImageReads(machine, img))
  IN  /\ npu \in {"idle", "done"} /\ runs < MaxRuns
      /\ npu' = IF parsed.ok /\ ~quiet THEN "running" ELSE "idle"
      /\ loader' = IF parsed.ok /\ ~quiet THEN parsed.layers ELSE <<>>
      /\ next' = 1 /\ cache' = dma.cache /\ retained' = NothingRetained
      /\ perf' = [perf EXCEPT !.rd = @ + IF quiet THEN HeaderBytes ELSE dma.rd]
      /\ runs' = runs + 1 /\ trace' = <<>> /\ earlier' = trace
      /\ UNCHANGED <<machine, streamsDone, quiet, records>>

\* NPUCR.RESET between runs: counters and the buffer's contents, not streams_done_.
Reset ==
  /\ npu \in {"idle", "done"}
  /\ npu' = "idle" /\ perf' = ZeroCounts /\ cache' = EmptyCache(machine)
  /\ UNCHANGED <<machine, streamsDone, loader, next, retained, quiet, records, runs, trace,
                 earlier>>

-----------------------------------------------------------------------------
Current   == loader[next]
Running   == npu = "running" /\ next <= Len(loader)
Unmoved   == [first |-> 0, last |-> 0, source |-> "none", in |-> 0, wt |-> 0, out |-> 0,
              served |-> 0, skipped |-> FALSE, rolled |-> 0, emits |-> 0]
Visit(e)  ==
  trace' = Append(trace, [e EXCEPT !.first = next, !.last = GroupEnd(loader, next)])
NextGroup == next' = GroupEnd(loader, next) + 1

\* An activation that heads its packet is folded into its producer's drain.
RunFused ==
  /\ Running /\ Fused(machine, Current)
  /\ retained' = LedgerAfter(machine, loader, next) /\ quiet' = FALSE
  /\ Visit([Unmoved EXCEPT !.source = "fused"]) /\ NextGroup
  /\ UNCHANGED <<machine, npu, streamsDone, loader, cache, perf, records, runs, earlier>>

\* (fault) All of it is taken back from the last record, whatever it holds.
TakeBackUnchecked(n, recs) ==
  IF recs = <<>> \/ n = 0 THEN recs ELSE [recs EXCEPT ![Len(recs)].wr = @ - n]

\* What its input did not have to be read, its producer need not have
\* written: that is taken back from the last record (RunTiled: and from the
\* counter).
TakeBack(n, recs) ==
  IF recs = <<>> \/ n = 0 THEN recs
  ELSE [recs EXCEPT ![Len(recs)].wr = @ - Least(@, n)]
\* What a layer's tiles move and emit.
Total(lat, s) ==
  LET Sum(Part(_)) == TxnTotal(s.txns, Part)
  IN  [in |-> Sum(LAMBDA t: t.inBytes), wt |-> Sum(LAMBDA t: t.wtBytes),
       out |-> Sum(LAMBDA t: t.outBytes), spill |-> Sum(LAMBDA t: t.spillWr),
       emits |-> Sum(LAMBDA t: Emissions(machine, lat, t)), forwarded |-> s.forwarded]
\* A tiled layer, tile by tile through the DMA channels.
RunTiled ==
  /\ Running /\ RunsTiled(machine, Current) /\ ~Fused(machine, Current)
  /\ \E x \in {Total(Current.lat, LayerSchedule(machine, Current, retained))} :
       /\ perf' = [rd |-> perf.rd + x.in + x.wt + x.spill,
                   wr |-> perf.wr - Least(perf.wr, x.forwarded) + x.out + x.spill]
       /\ records' = Append(TakeBack(x.forwarded, records), [layer |-> next, wr |-> x.out + x.spill])
       /\ Visit([Unmoved EXCEPT !.source = IF x.forwarded > 0 THEN "buffer" ELSE "tiles",
                                !.in = x.in, !.wt = x.wt, !.out = x.out,
                                !.rolled = x.forwarded, !.emits = x.emits])
  /\ retained' = LedgerAfter(machine, loader, next) /\ quiet' = FALSE
  /\ NextGroup
  /\ UNCHANGED <<machine, npu, streamsDone, loader, cache, runs, earlier>>

\* compute_thread, once the packet is written, goes on without waiting for the next
\* one's data when streams_done_ is up: it may pass read_thread, or end its run before it.
Overtakes == streamsDone /\ GroupEnd(loader, next) < Len(loader)

\* A streamed packet: its first function's operands are read, the output of
\* every function another one does not consume is written, unless the next
\* packet will find it in the buffer.
RunStreamed(reserved) ==
  LET m      == machine
      muted  == m.peakBw
      reads  == StreamReads(m, Current)
      skip   == OutputRetainedNextLayer(m, loader, next)
      writes == IF skip THEN <<>>
                ELSE FlattenSeq([k \in 1 .. GroupEnd(loader, next) - next + 1 |->
                       StreamWrites(m, loader[next + k - 1], WriteRegion(m, reserved))])
      dma    == WriteAll(m, muted, ReadAll(m, muted, Untransferred(cache), reads), writes)
      \* check_layer_fits_or_die, then the check of each transfer
      dies   == \/ "TileEnable" \notin Current.flags /\ LayerBytes(Current) > GbBytes(m)
                \/ \E k \in DOMAIN reads : Overflows(m, reads[k])
                \/ \E k \in DOMAIN writes : ~muted /\ Overflows(m, writes[k])
  IN  /\ Running /\ ~RunsTiled(m, Current)
      /\ reserved \in {0, Least(Current.lat.fO, GbBytes(m))}
      /\ npu' \in IF dies THEN {"fatal"} ELSE {"running"} \cup {a \in {"ahead"} : Overtakes}
      /\ cache' = dma.cache /\ quiet' = muted
      /\ perf' = [rd |-> perf.rd + dma.rd, wr |-> perf.wr + dma.wr]
      /\ retained' = LedgerAfter(m, loader, next)
      /\ Visit([Unmoved EXCEPT !.source = IF Current.i1FromPacket THEN "packet" ELSE "stream",
                               !.in = dma.rd, !.out = dma.wr, !.served = dma.served,
                               !.skipped = skip])
      /\ NextGroup
      /\ UNCHANGED <<machine, streamsDone, loader, records, runs, earlier>>

\* streams_done_ and the last finisher: AllDone.
Finish ==
  /\ npu = "running" /\ next > Len(loader)
  /\ npu' = "done" /\ streamsDone' = TRUE
  /\ UNCHANGED <<machine, loader, next, retained, quiet, cache, perf, records, runs,
                 trace, earlier>>

Execute ==
  \/ \E m \in Machines : PowerOn(m)
  \/ Reset \/ RunFused \/ RunTiled \/ Finish
  \/ Running /\ \E reserved \in {0, Least(Current.lat.fO, GbBytes(machine))} :
       RunStreamed(reserved)
-----------------------------------------------------------------------------
\* Loaded are layers whose tensors have a shape, the size it makes (a kernel's
\* counts its kernels too) and a place.
TensorOK(t) == {t.addr, t.words, t.shape.h, t.shape.w, t.shape.c} \subseteq Nat
LayerOK(l) ==
  /\ TensorOK(l.input) /\ TensorOK(l.weight) /\ TensorOK(l.output)
  /\ l.input.words = Volume(l.input.shape) /\ l.output.words = Volume(l.output.shape)
  /\ {l.stride, l.tile.r, l.tile.c, l.lat.fW, l.lat.fO, l.lat.nMin, l.lat.nMax} \subseteq Nat
  /\ l.skip \in 0 .. 1000
LoaderOK == loader \in Seq(Range(loader)) /\ \A l \in Range(loader) : LayerOK(l)

\* The variables stay what the source declares them to be.
ExecTypeOK ==
  /\ LoaderOK
  /\ machine \in Machines \cup {Off} /\ (machine = Off) = (npu = "off")
  /\ npu \in {"off", "idle", "running", "done", "fatal", "ahead"} /\ streamsDone \in BOOLEAN
  /\ next \in 0 .. Len(loader) + 1 /\ runs \in 0 .. MaxRuns
  /\ retained.words >= 0 /\ quiet \in BOOLEAN
  /\ perf.rd >= 0 /\ perf.wr >= 0
  /\ \A k \in DOMAIN records : records[k].wr >= 0
  /\ \A e \in Range(trace) : e.first <= e.last

Tiled(e) == e.source \in {"tiles", "buffer"}

\* An input is served from the global buffer only when it is a part of what
\* the packet just before left there, in this run and on either path: the
\* ledger is never a packet behind (update_retention_ledger).
ForwardedIsLatest ==
  \A i \in DOMAIN trace : trace[i].source = "buffer" =>
    /\ i > 1
    /\ LET l == loader[trace[i].first]  out == loader[trace[i - 1].last].output
       IN  Within(l.input, out.addr, out.words) /\ Physical(machine, out.words) <= GbBytes(machine)

\* No program stops the simulation: a layer too large for the buffer never
\* reaches the streamed path, and no chunk of a transfer runs over the end of
\* the buffer (check_layer_fits_or_die, "GB RDMA overflow").
NothingOverflows == npu # "fatal"

\* A START finds nothing of the run before but streams_done_: a later run of the
\* image that read_thread carries to its end moves the same bytes over the same paths
\* (reset_presence, "retention ledger resets per run"), and compute_thread can leave it
\* behind only in a later run, of a network with a streamed packet before its last.
Moved(e) == <<e.first, e.last, e.source, e.in, e.wt, e.out, e.served, e.skipped>>
RunsReadAlike ==
  /\ npu = "done" /\ earlier # <<>> =>
       /\ Len(trace) = Len(earlier)
       /\ \A i \in DOMAIN trace : Moved(trace[i]) = Moved(earlier[i])
  /\ npu = "ahead" =>
       \E i \in 1 .. Len(earlier) - 1 : earlier[i].source \in {"stream", "packet"}

\* A tiled layer is complete: its tiles write every output element once, and
\* fetch (or find in the buffer) at least the whole input and the whole
\* kernel, whatever is resident.  For layers whose windows the descriptor
\* describes: it has no dilation, padding is not read, a kernel has the
\* channels of the input, and a resident kernel is as large as the latency
\* descriptor says.
KernelAsRead(l) ==
  /\ l.weight.words <= l.weight.shape.h * l.weight.shape.w * l.input.shape.c
                       * (IF l.type = "DepthwiseConv2D" THEN 1 ELSE l.output.shape.c)
  /\ l.weight.words <= l.lat.fW
Plainly(m, l) ==
  /\ l.skip = 0 /\ m.ratio = [in |-> 1, wt |-> 1, out |-> 1]
  /\ l.type \in Windowed /\ l.pad = 0 /\ l.stride > 0 /\ l.output.words > 0
  /\ l.output.shape.h = (l.input.shape.h - l.weight.shape.h) \div l.stride + 1
  /\ l.output.shape.w = (l.input.shape.w - l.weight.shape.w) \div l.stride + 1
TiledLayersAreComplete ==
  \A e \in Range(trace) :
    LET l == loader[e.first]
    IN  Tiled(e) /\ Plainly(machine, l) =>
          /\ e.out = Physical(machine, l.output.words)
          /\ e.in + e.rolled >= Physical(machine, l.input.words)
          /\ l.type # "Pooling" /\ KernelAsRead(l) => e.wt >= Physical(machine, l.weight.words)

\* Outputs per emitting operation stay between one and the issue width
\* ("avg_output_ratio in [1, n_max]"), for a layer whose write count is a whole
\* number of passes and none of whose work is skipped.
EmissionsWithinWidth ==
  \A e \in Range(trace) :
    LET l == loader[e.first]  out == Volume(NonEmpty(l.output.shape))
    IN  Tiled(e) /\ l.lat.fO >= out /\ l.lat.fO % out = 0
          /\ (l.skip = 0 \/ machine.sparsity # "remove") =>
            e.emits <= l.lat.fO /\ l.lat.fO <= e.emits * Most(1, l.lat.nMax)

\* What npu_controller.h and the comment of output_retained_next_layer say:
\* the producer's decision mirrors the consumer's.  An output that was not
\* written is not read from memory by the packet that follows.
RetentionAgrees ==
  \A i \in DOMAIN trace : i < Len(trace) /\ trace[i].skipped =>
    trace[i + 1].source \in {"buffer", "packet", "fused"}

\* What run_tiled_layer says it takes back, "the producer's matching DRAM
\* output-write": never more than the packet before wrote.
RollbackIsItsProducers ==
  \A i \in DOMAIN trace : trace[i].rolled > 0 => i > 1 /\ trace[i].rolled <= trace[i - 1].out

\* What npu_controller.h says of suppress_dma_timing_, "set true only while
\* run_tiled_layer streams a layer's tiles".
SuppressionEnds == npu \in {"idle", "done"} => ~quiet
=============================================================================
