---------------------------- MODULE TileSchedule ----------------------------
(***************************************************************************)
(* common/tile_descriptor: how a layer's output is cut into tiles and each *)
(* tile into passes over the input channels, and how that schedule is      *)
(* lowered to the transactions the NPU's tile executor issues.             *)
(*                                                                         *)
(* A cut c is what compute_tile_schedule is called with: out (shape), ic,  *)
(* kh, kw, stride, kb (buffer, KB), th, tw (0 = automatic), inKb, wtKb,    *)
(* outKb (partitions, 0 = share of the buffer), depthwise.                 *)
(***************************************************************************)
EXTENDS LayerShape, Sequences

WordBytes(words) == 4 * words

\* A cut of a layer that has an output, an input and a kernel.
CutOK(c) ==
  /\ {c.out.h, c.out.w, c.out.c, c.ic, c.kh, c.kw, c.stride} \subseteq Nat \ {0}
  /\ {c.kb, c.th, c.tw, c.inKb, c.wtKb, c.outKb} \subseteq Nat /\ c.depthwise \in BOOLEAN

\* A request of zero in either dimension asks for 8x8 tiles.
TileExtent(c) ==
  IF c.th = 0 \/ c.tw = 0
  THEN [h |-> Least(8, c.out.h), w |-> Least(8, c.out.w)]
  ELSE [h |-> c.th, w |-> c.tw]

TilesDown(c)   == CeilDiv(c.out.h, TileExtent(c).h)
TilesAcross(c) == CeilDiv(c.out.w, TileExtent(c).w)
TileIds(c)     == 0 .. TilesDown(c) * TilesAcross(c) - 1   \* row-major order

\* Buffer budgets in bytes: a partition, or 40/40/20 per cent of the buffer.
Budget(kb, whole, percent) ==
  IF kb > 0 THEN kb * 1024 ELSE (whole * 1024 * percent) \div 100
InputBudget(c)  == Budget(c.inKb, c.kb, 40)
KernelBudget(c) == Budget(c.wtKb, c.kb, 40)
OutputBudget(c) == Budget(c.outKb, c.kb, 20)

KernelWordsPerChannel(c) == c.kh * c.kw * (IF c.depthwise THEN 1 ELSE c.out.c)

\* (fault) The input a tile reads has no halo.
TileWithoutHalo(c, k) ==
  LET h0 == (k \div TilesAcross(c)) * TileExtent(c).h
      w0 == (k % TilesAcross(c)) * TileExtent(c).w
      h  == Least(TileExtent(c).h, c.out.h - h0)
      w  == Least(TileExtent(c).w, c.out.w - w0)
  IN  [h0 |-> h0, w0 |-> w0, h |-> h, w |-> w, inH |-> h * c.stride, inW |-> w * c.stride]

\* Tile k of the schedule: its place and extent in the output, the extent of
\* the input it reads (with the halo of the kernel).
Tile(c, k) ==
  LET h0 == (k \div TilesAcross(c)) * TileExtent(c).h
      w0 == (k % TilesAcross(c)) * TileExtent(c).w
      h  == Least(TileExtent(c).h, c.out.h - h0)
      w  == Least(TileExtent(c).w, c.out.w - w0)
  IN  [h0 |-> h0, w0 |-> w0, h |-> h, w |-> w,
       inH |-> h * c.stride + c.kh - 1, inW |-> w * c.stride + c.kw - 1]

TileOutputWords(c, t) == t.h * t.w * c.out.c

\* Passes over the input channels; one when the output alone overflows its
\* budget ("would need tile splitting").
NumPasses(c, t) ==
  LET perChannel == WordBytes(t.inH * t.inW) + WordBytes(KernelWordsPerChannel(c))
      channels   == Most(1, Least(InputBudget(c), KernelBudget(c)) \div perChannel)
  IN  IF WordBytes(TileOutputWords(c, t)) > OutputBudget(c) THEN 1
                                                       ELSE CeilDiv(c.ic, channels)

\* (fault) The share is rounded down: channels are left over.
PassFromRoundedDown(c, n, p) == Least(c.ic, p * (c.ic \div n))

\* Pass p of n takes an even share of the channels, the last ones what is left.
PassFrom(c, n, p)     == Least(c.ic, p * CeilDiv(c.ic, n))
PassChannels(c, n, p) == PassFrom(c, n, p + 1) - PassFrom(c, n, p)

PassTraffic(c, t, n, p) ==
  [input  |-> t.inH * t.inW * PassChannels(c, n, p),
   kernel |-> KernelWordsPerChannel(c) * PassChannels(c, n, p),
   output |-> IF p = n - 1 THEN TileOutputWords(c, t) ELSE 0]

TileTraffic(c, t) ==
  LET n       == NumPasses(c, t)
      pass    == [p \in 0 .. n - 1 |-> PassTraffic(c, t, n, p)]
  IN  [input  |-> SumFunction([p \in DOMAIN pass |-> pass[p].input]),
       kernel |-> SumFunction([p \in DOMAIN pass |-> pass[p].kernel]),
       output |-> SumFunction([p \in DOMAIN pass |-> pass[p].output])]

\* compute_tile_schedule: every tile with its passes and traffic (in words).
Schedule(c) ==
  [k \in TileIds(c) |->
     LET t == Tile(c, k) IN [tile    |-> t, passes |-> NumPasses(c, t),
                             traffic |-> TileTraffic(c, t)]]

ScheduleTotal(sched, Part(_)) == SumFunction([k \in DOMAIN sched |-> Part(sched[k].traffic)])
ScheduleInput(sched)  == ScheduleTotal(sched, LAMBDA x: x.input)
ScheduleKernel(sched) == ScheduleTotal(sched, LAMBDA x: x.kernel)
ScheduleOutput(sched) == ScheduleTotal(sched, LAMBDA x: x.output)

-----------------------------------------------------------------------------
\* lower_tile_schedule.  A resident operand is streamed whole with the first
\* tile and held; another one is streamed with every tile.
DataflowResidency(dataflow) ==
  [weight |-> dataflow = "WS", input |-> dataflow = "IS"]

StreamedOperands(resident, k, total, perTile) ==
  IF resident THEN (IF k = 0 THEN total ELSE 0) ELSE perTile

TileTxn(entry, k, residency, inputTotal, weightTotal, elem, passesPerOutput) ==
  LET in  == StreamedOperands(residency.input, k, inputTotal, entry.traffic.input)
      wt  == StreamedOperands(residency.weight, k, weightTotal, entry.traffic.kernel)
      out == entry.traffic.output
  IN  [inOps |-> in, wtOps |-> wt, outOps |-> out * Most(1, passesPerOutput),
       passes |-> entry.passes,
       inBytes |-> in * Most(1, elem), wtBytes |-> wt * Most(1, elem),
       outBytes |-> out * Most(1, elem), spillRd |-> 0, spillWr |-> 0]

Lower(sched, residency, inputTotal, weightTotal, elem, passesPerOutput) ==
  [k \in DOMAIN sched |->
     TileTxn(sched[k], k, residency, inputTotal, weightTotal, elem, passesPerOutput)]

TxnTotal(txns, Part(_)) == SumFunction([k \in DOMAIN txns |-> Part(txns[k])])
=============================================================================
