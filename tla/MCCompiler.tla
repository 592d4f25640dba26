----------------------------- MODULE MCCompiler -----------------------------
(* Programs for the TLC runs of Compiler.                                     *)
EXTENDS Compiler

Row(layer, type, h, w, c, th, tw) ==
  [layer_id |-> layer, layer_type |-> type, input_h |-> h, input_w |-> w, input_c |-> c,
   tile_h |-> th, tile_w |-> tw]

\* Rows that chain within and across packets, in any order: explicit, repeated and
\* forward function ids, explicit addresses below and above the cursor, every way to
\* ask for tiles, an oracle, a preprocessing function and a row that is skipped.
RowOverrides ==
  { [kernel_h |-> 3, kernel_w |-> 3, kernel_count |-> 2, padding |-> 1, k |-> 4, psum_kb |-> 1]
      @@ Row(0, "Conv2D", 4, 4, 5, 2, 3),
    [kernel_h |-> 2, kernel_w |-> 2, stride |-> 2] @@ Row(0, "Pooling", 4, 4, 2, 4, 4),
    [function_id |-> 0, kernel_addr |-> 1, output_addr |-> 100] @@ Row(0, "Activation", 4, 4, 2, 4, 4),
    [function_id |-> 2, i1_connect |-> 0, i2_connect |-> 1] @@ Row(0, "ElementWise", 4, 4, 2, 4, 4),
    [i1_connect |-> 2, input_addr |-> 900, t_oc |-> 1] @@ Row(0, "DepthwiseConv2D", 4, 4, 2, 2, 2),
    [kernel_count |-> 4] @@ Row(1, "FullyConnected", 2, 2, 2, 1, 1),
    [kernel_c |-> 2, kernel_count |-> 3, function_id |-> 0] @@ Row(1, "MatMul", 4, 1, 2, 2, 1),
    [function_type |-> "Preprocess", preprocess_type |-> "ZeroSkipping", skip_permille |-> 300]
      @@ Row(1, "Softmax", 1, 1, 4, 1, 1),
    [f_i |-> 8, f_w |-> 4, f_o |-> 2, l_pass |-> 1, n_max |-> 2, n_min |-> 1, tau_i |-> 3]
      @@ Row(2, "Reduction", 2, 2, 4, 2, 2),
    [tile_w |-> Absent] @@ Row(1, "Activation", 2, 2, 2, 1, 1) }
SomeRows == {r @@ EmptyRow : r \in RowOverrides}

Pe(type, k, g, s, kb) == [type |-> type, k |-> k, g |-> g, s |-> s, psumKb |-> kb]
TwoMachines ==
  {[pe |-> Pe("Systolic", 3, 2, 2, 0), dataflow |-> "IS", l2kb |-> 1],
   [pe |-> Pe("AdderTree", 8, 1, 4, 0), dataflow |-> "WS", l2kb |-> 2]}
OnePe   == {<<"Conv2D", Pe("Systolic", 7, 3, 1, 0)>>}
FirstPe == {<<1, Pe("AdderTree", 1, 1, 4, 0)>>}
SomePes == {Pe("Systolic", 16, 2, 6, 1), Pe("AdderTree", 5, 4, 1, 0)}

LayerOf(type, h, w, c, k, stride, dil, n) ==
  [type |-> type, stride |-> stride, pad |-> 0, dil |-> dil, ih |-> h, iw |-> w, ic |-> c,
   kh |-> k, kw |-> k, kc |-> c, kn |-> n]
At(s) == [spec |-> s, in |-> 0, wt |-> 1000, out |-> 2000, tile |-> NoTile, flags |-> {},
          lat |-> DefaultLatency(s, DefaultPe, "WS")]
Plain == {At(LayerOf("Conv2D", 3, 3, 2, 2, 1, 1, 2))}
\* An edge tile in every axis: 5 rows in pieces of 2, 3 columns, 5 channels.
Geometric ==
  {At(LayerOf("Conv2D", 9, 7, 5, 3, 1, 2, 3)), At(LayerOf("DepthwiseConv2D", 6, 4, 5, 2, 1, 1, 1)),
   At([LayerOf("MatMul", 5, 5, 1, 1, 1, 1, 1) EXCEPT !.kw = 3]),
   At(LayerOf("Pooling", 10, 6, 3, 2, 2, 1, 3)), At(LayerOf("FullyConnected", 1, 1, 5, 1, 1, 1, 3)),
   At(LayerOf("ElementWise", 5, 3, 3, 1, 1, 1, 1))}
SomeTiles ==
  {NoTile, [r |-> 2, c |-> 2, oc |-> 2, ic |-> 2, kern |-> 0, order |-> 0]}
SomeMappings ==
  {[type |-> "Systolic", k |-> 2, g |-> 1, s |-> 2, l |-> 0, delta |-> 4,
    betaI |-> 2, betaW |-> 1, betaO |-> 1, alpha |-> 2],
   [type |-> "AdderTree", k |-> 16, g |-> 4, s |-> 2, l |-> 0, delta |-> 2,
    betaI |-> 0, betaW |-> 4, betaO |-> 0, alpha |-> 4]}

SmallInput == {[h |-> 32, w |-> 32, c |-> 3, classes |-> 10, base |-> 64]}

\* The memory of the runs, and the last address, are beyond all that is placed.
ASSUME RoomAssumption == MemoryIsLargeEnough
=============================================================================
