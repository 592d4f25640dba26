----------------------------- MODULE MCEndToEnd -----------------------------
(* Programs and machines for the TLC run of EndToEnd.                         *)
EXTENDS EndToEnd

Row(layer, type, h, w, c, th, tw) ==
  [layer_id |-> layer, layer_type |-> type, input_h |-> h, input_w |-> w, input_c |-> c,
   tile_h |-> th, tile_w |-> tw]

\* A packet of one, two or three functions, and packets that chain: tiles with an
\* edge, layers that fit the buffer and layers that do not, an activation alone in its
\* packet or behind a convolution, a layer that reads an address of its own, an
\* oracle, a preprocessing function.
RowOverrides ==
  { [kernel_h |-> 3, kernel_w |-> 3, kernel_count |-> 2, k |-> 4] @@ Row(0, "Conv2D", 6, 5, 5, 2, 3),
    [kernel_count |-> 2] @@ Row(1, "Conv2D", 4, 3, 2, 4, 3),
    [kernel_h |-> 2, kernel_w |-> 2, input_addr |-> 0, skip_permille |-> 300,
     function_type |-> "Preprocess", preprocess_type |-> "ZeroSkipping"]
      @@ Row(1, "Pooling", 4, 3, 2, 1, 2),
    Row(2, "Activation", 4, 3, 2, 4, 3),
    [kernel_h |-> 2, kernel_w |-> 2, kernel_count |-> 20] @@ Row(3, "Conv2D", 4, 3, 2, 3, 1),
    [i1_connect |-> 0, f_i |-> 8, f_w |-> 4, f_o |-> 2, l_pass |-> 1, n_max |-> 2, n_min |-> 1,
     tau_i |-> 3] @@ Row(2, "Reduction", 4, 3, 2, 4, 3) }
SomeRows == {r @@ EmptyRow : r \in RowOverrides}

Pe(type, k, g, s) == [type |-> type, k |-> k, g |-> g, s |-> s, psumKb |-> 0]
TwoMachines ==
  {[pe |-> Pe("Systolic", 3, 2, 2), dataflow |-> "IS", l2kb |-> 1],
   [pe |-> Pe("AdderTree", 8, 1, 4), dataflow |-> "WS", l2kb |-> 2]}

\* Two layers that each read what the other writes, with and without tiles.
Layer(in, out, h, c, n) ==
  LET s == [type |-> "Conv2D", stride |-> 1, pad |-> 0, dil |-> 1, ih |-> h, iw |-> h, ic |-> c,
            kh |-> 3, kw |-> 3, kc |-> c, kn |-> n]
  IN  [spec |-> s, in |-> in, wt |-> 1000, out |-> out, tile |-> NoTile, flags |-> {},
       lat |-> DefaultLatency(s, DefaultPe, "WS")]
Plain    == {Layer(0, 2000, 6, 2, 3), Layer(2000, 0, 4, 3, 2)}
TwoTiles == {NoTile, [r |-> 2, c |-> 3, oc |-> 0, ic |-> 0, kern |-> 0, order |-> 0]}
NothingSet == {}
SmallInput == {[h |-> 8, w |-> 8, c |-> 3, classes |-> 4, base |-> 64]}

Operands(in, wt, out) == [in |-> in, wt |-> wt, out |-> out]
Plainest ==
  [gbKb |-> 2, elem |-> 4, dataflow |-> "WS", fusion |-> FALSE, spill |-> FALSE,
   strategy |-> "dataflow", weightGb |-> "dataflow", inKb |-> 0, wtKb |-> 0, outKb |-> 0,
   psumKb |-> -1, twice |-> FALSE, line |-> 0, peakBw |-> FALSE, burst |-> 256,
   ratio |-> Operands(1, 1, 1), sparsity |-> "off", ports |-> Operands(0, 0, 0),
   enable |-> "auto"]
SomeMachines ==
  { \* those the rows are compiled for, one with a cache, one that fuses layers
    [Plainest EXCEPT !.line = 64, !.twice = TRUE, !.burst = 96],
    [Plainest EXCEPT !.gbKb = 1, !.dataflow = "IS", !.fusion = TRUE, !.ports = Operands(2, 1, 1)],
    \* bytes as elements, everything resident, no DMA timing
    [Plainest EXCEPT !.elem = 1, !.fusion = TRUE, !.weightGb = "resident", !.twice = TRUE,
                     !.peakBw = TRUE, !.ports = Operands(1, 0, 0), !.enable = "lockstep"],
    \* a buffer too small for most layers, tiles searched for, partial sums spilled
    [Plainest EXCEPT !.gbKb = 1, !.elem = 2, !.dataflow = "OS", !.spill = TRUE,
                     !.strategy = "min_tiles", !.psumKb = 0, !.inKb = 1, !.wtKb = 1, !.outKb = 1,
                     !.ratio = Operands(2, 3, 2), !.sparsity = "remove",
                     !.enable = "independent"] }
=============================================================================
