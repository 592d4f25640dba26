---------------------------- MODULE LatencyParams ----------------------------
(***************************************************************************)
(* The latency descriptor of a layer: how many operands it fetches and     *)
(* writes, what must be on chip before it starts, how wide it issues and   *)
(* how deep its pipeline is.  DnnImageGenerator derives it from the layer, *)
(* the processing elements and the dataflow; Mode B of the compiler        *)
(* derives the pipeline depth on its own.                                  *)
(*                                                                         *)
(* Processing elements pe: type ("Systolic" or "AdderTree"), k operations  *)
(* per pass, g passes in parallel, s output lanes, psumKb of partial sums. *)
(* A generator gen: configured, pe, dataflow, l2kb, adaptive, typePe and   *)
(* indexPe (functions from layer types and from positions to overrides).   *)
(***************************************************************************)
EXTENDS LayerShape, TileSchedule, TLC

ProcessingElements ==
  [type : {"Systolic", "AdderTree"}, k : Nat, g : Nat, s : Nat, psumKb : Nat]

SanitizePe(pe) ==
  [pe EXCEPT !.k = Most(1, @), !.g = Most(1, @), !.s = Most(1, @)]
MaxWidth(pe) == pe.s * pe.g
MinWidth(pe) == pe.g

\* (fault) The lanes are rounded up.
AdaptedPeRoundedUp(base, spec) ==
  LET total == base.k * MaxWidth(base)
      k     == Most(1, Least(base.k, OpsPerOutput(spec)))
      g     == Least(base.g, Most(1, CeilDiv(OpsPerOutput(spec), k)))
  IN  [base EXCEPT !.k = k, !.g = g, !.s = CeilDiv(total, k * g)]

\* AdaptiveByOps keeps the multipliers (k * s * g) and regroups them for the
\* operations one output of this layer needs.
AdaptedPe(base, spec) ==
  LET total  == base.k * MaxWidth(base)
      target == Most(1, Least(base.k, OpsPerOutput(spec)))
      k      == Max({n \in 1 .. target : total % n = 0})
      units  == total \div k
      g      == Least(Least(base.g, Most(1, CeilDiv(OpsPerOutput(spec), k))), units)
  IN  [base EXCEPT !.k = k, !.g = g, !.s = Most(1, units \div g)]

\* The position in the network overrides the type, the type the grouping mode.
ResolvePe(gen, spec, index) ==
  LET base == SanitizePe(gen.pe)
  IN  IF index \in DOMAIN gen.indexPe          THEN SanitizePe(gen.indexPe[index])
      ELSE IF spec.type \in DOMAIN gen.typePe  THEN SanitizePe(gen.typePe[spec.type])
      ELSE IF gen.adaptive                     THEN AdaptedPe(base, spec)
                                               ELSE base

-----------------------------------------------------------------------------
\* ceil(log2 v), as the loop that halves rounding up.
CeilLog2[v \in Nat] == IF v <= 1 THEN 0 ELSE 1 + CeilLog2[(v + 1) \div 2]
IssueLatency(pe)    == IF pe.type = "Systolic" THEN pe.k ELSE 1 + CeilLog2[pe.k]

\* derive_pass_latency, for Mode B: an explicit value first, then the bits
\* of k - 1.
BitLength[v \in Nat] == IF v = 0 THEN 0 ELSE 1 + BitLength[v \div 2]
PassLatency(m) ==
  IF m.l # 0 THEN m.l
  ELSE IF m.type = "Systolic" THEN m.k
  ELSE 1 + BitLength[IF m.k > 1 THEN m.k - 1 ELSE 0]

PassesPerOutput(spec, pe) == CeilDiv(OpsPerOutput(spec), pe.k)

\* Operands on chip before compute starts, by layer type: [in, wt].
PrefetchGates(spec, weightFetches) ==
  LET window == spec.kh * spec.kw
      in == CASE spec.type = "Conv2D"                      -> window * spec.ic
              [] spec.type \in {"DepthwiseConv2D", "Pooling"} -> window
              [] spec.type = "FullyConnected"              -> spec.ic
              [] spec.type = "MatMul"                      -> spec.kc
              [] OTHER                                     -> 1
      wt == IF spec.type = "Pooling" THEN 0 ELSE in
  IN  [in |-> Most(1, in),
       wt |-> IF wt = 0 /\ weightFetches > 0 THEN 1 ELSE wt]

\* Partial sums written back and fetched again: all of them without local
\* storage, else the share of the concurrent outputs that does not fit.
\* (Source: float arithmetic, rounded down at the end; here exact.)
SpilledWords(passes, outputs, pe) ==
  LET capacity   == pe.psumKb * 256
      concurrent == Least(outputs, MaxWidth(pe))
      sums       == (passes - pe.g) * outputs
      excess     == concurrent - capacity
  IN  IF passes <= pe.g \/ (capacity > 0 /\ excess <= 0) THEN 0
      ELSE IF capacity = 0 THEN sums
      ELSE (sums \div concurrent) * excess + ((sums % concurrent) * excess) \div concurrent

\* Weight-stationary refetches with the inputs, input-stationary with the
\* weights, output-stationary with both.
WithSpill(fetch, dataflow, spill) ==
  [in |-> fetch.in + (IF dataflow \in {"WS", "OS"} THEN spill ELSE 0),
   wt |-> fetch.wt + (IF dataflow \in {"IS", "OS"} THEN spill ELSE 0)]

Descriptor(spec, pe, out, base, dataflow) ==
  LET passes == PassesPerOutput(spec, pe)
      fetch  == WithSpill(base, dataflow, SpilledWords(passes, Volume(out), pe))
      gates  == PrefetchGates(spec, fetch.wt)
  IN  [fI |-> fetch.in, fW |-> fetch.wt, fO |-> passes * Volume(out),
       preIn |-> gates.in, preWt |-> gates.wt,
       nMin |-> MinWidth(pe), nMax |-> MaxWidth(pe),
       issue |-> IssueLatency(pe), post |-> 0, ops |-> OpsPerOutput(spec)]

\* The cut set_tiled_latency_params asks compute_tile_schedule for.
LayerCut(spec, th, tw, kb) ==
  [out |-> OutputShape(spec), ic |-> spec.ic, kh |-> spec.kh, kw |-> spec.kw,
   stride |-> spec.stride, kb |-> kb, th |-> th, tw |-> tw,
   inKb |-> 0, wtKb |-> 0, outKb |-> 0, depthwise |-> spec.type = "DepthwiseConv2D"]

\* Traffic under a tile schedule.  The stationary operand is counted once: the
\* kernel as it is, the input as the array is fed (im2col).
TiledTraffic(spec, th, tw, kb, dataflow) ==
  LET sched == Schedule(LayerCut(spec, th, tw, kb))
      input == Volume(InputShape(spec))
  IN  IF spec.type = "MatMul"
      THEN [in |-> input,
            wt |-> IF spec.kc > 0 /\ spec.kn > 0 THEN spec.ih * spec.kc * spec.kn ELSE input]
      ELSE [in |-> IF dataflow = "IS"
                   THEN OutputShape(spec).h * OutputShape(spec).w * spec.ic * spec.kh * spec.kw
                   ELSE ScheduleInput(sched),
            wt |-> IF dataflow = "WS" THEN spec.kh * spec.kw * spec.kc * spec.kn
                                      ELSE ScheduleKernel(sched)]

\* Traffic without tiling: every operand once, no kernel but a
\* convolution's or a fully connected layer's.
UntiledTraffic(spec) ==
  [in |-> Volume(InputShape(spec)),
   wt |-> CASE spec.type \in {"Conv2D", "DepthwiseConv2D"} -> spec.kh * spec.kw * spec.kc * spec.kn
            [] spec.type = "FullyConnected"                -> spec.kc * spec.kn
            [] OTHER                                       -> 0]
UntiledShape(spec) ==
  IF spec.type \in TiledTypes \ {"MatMul"} THEN CompilerOutputShape(spec) ELSE InputShape(spec)

\* set_default_latency_params; an unconfigured generator is weight-stationary.
DefaultLatency(spec, pe, dataflow) ==
  Descriptor(spec, SanitizePe(pe), UntiledShape(spec), UntiledTraffic(spec), dataflow)

\* set_tiled_latency_params: five types are tiled, the others are not.  The
\* fallback spills by the generator's own dataflow, own.
TiledLatency(spec, th, tw, kb, dataflow, pe, own) ==
  IF spec.type \in TiledTypes
  THEN Descriptor(spec, SanitizePe(pe), OutputShape(spec),
                  TiledTraffic(spec, th, tw, kb, dataflow), dataflow)
  ELSE DefaultLatency(spec, pe, own)

\* apply_latency_params of the layer at a position of a generated network.
DefaultPe == [type |-> "Systolic", k |-> 1, g |-> 1, s |-> 16, psumKb |-> 0]
GeneratorLatency(gen, spec, index) ==
  IF gen.configured
  THEN TiledLatency(spec, 0, 0, gen.l2kb, gen.dataflow, ResolvePe(gen, spec, index), gen.dataflow)
  ELSE DefaultLatency(spec, DefaultPe, "WS")
=============================================================================
