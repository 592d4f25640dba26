----------------------------- MODULE NetworkCsv -----------------------------
(***************************************************************************)
(* The CSV front end: a row becomes an entry, the entries are ordered,     *)
(* given function ids and placed in memory (the linker), and each becomes  *)
(* a function record of the image.                                         *)
(*                                                                         *)
(* A row maps every column to what try_parse_u32 or the token parsers make *)
(* of its cell: a number or a token, Absent or "" when the column is       *)
(* missing, the cell empty or unparseable.  Addresses are in words.        *)
(***************************************************************************)
EXTENDS LatencyParams, DnnImage

Absent == -1
NumberColumns == {"layer_id", "input_h", "input_w", "input_c", "kernel_h", "kernel_w",
  "kernel_c", "kernel_count", "stride", "padding", "dilation", "tile_h", "tile_w",
  "k", "g", "s", "psum_kb", "function_id", "i1_connect", "i2_connect", "skip_permille",
  "input_addr", "kernel_addr", "output_addr", "t_r", "t_c", "t_oc", "t_ic", "t_kern",
  "intra_order", "f_i", "f_w", "f_o", "l_pass", "n_max", "n_min", "tau_i", "tau_w",
  "post_cycles"}
TokenColumns == {"layer_type", "function_type", "preprocess_type", "pe_type"}
EmptyRow ==
  [c \in NumberColumns \cup TokenColumns |-> IF c \in TokenColumns THEN "" ELSE Absent]

Given(row, c)            == row[c] # Absent
OrElse(row, c, default)  == IF Given(row, c) THEN row[c] ELSE default
AtLeastOne(row, c, default) == IF Given(row, c) THEN Most(1, row[c]) ELSE default

\* Rows without an id, a known type, the input's extents or a tile are skipped.
RowAccepted(row) ==
  /\ \A c \in {"layer_id", "input_h", "input_w", "input_c", "tile_h", "tile_w"} : Given(row, c)
  /\ row["layer_type"] # ""

\* Kernel defaults: one by one, over and into the input's channels.
RowSpec(row) ==
  LET type == row["layer_type"]
      ic   == row["input_c"]
      plain == type \in {"Pooling", "Activation", "ElementWise"}
      depthwise == type = "DepthwiseConv2D"
  IN  [type |-> type, stride |-> AtLeastOne(row, "stride", 1),
       pad |-> OrElse(row, "padding", 0), dil |-> AtLeastOne(row, "dilation", 1),
       ih |-> row["input_h"], iw |-> row["input_w"], ic |-> ic,
       kh |-> AtLeastOne(row, "kernel_h", 1), kw |-> AtLeastOne(row, "kernel_w", 1),
       kc |-> IF depthwise THEN 1 ELSE IF plain THEN 0 ELSE AtLeastOne(row, "kernel_c", ic),
       kn |-> IF depthwise \/ plain THEN ic ELSE AtLeastOne(row, "kernel_count", ic)]

\* A row with numbers where numbers belong that describes a layer.
RowOK(row) ==
  /\ \A c \in NumberColumns : row[c] \in Nat \cup {Absent}
  /\ row["layer_type"] \in FuncTypes \cup {""}
  /\ row["pe_type"] \in {"", "Systolic", "AdderTree"}
  /\ RowAccepted(row) => LayerFits(RowSpec(row))

RowPe(row, base) ==
  [type |-> IF row["pe_type"] # "" THEN row["pe_type"] ELSE base.type,
   k |-> Most(1, OrElse(row, "k", base.k)), g |-> Most(1, OrElse(row, "g", base.g)),
   s |-> Most(1, OrElse(row, "s", base.s)), psumKb |-> OrElse(row, "psum_kb", base.psumKb)]

TileColumns   == {"t_r", "t_c", "t_oc", "t_ic", "t_kern", "intra_order"}
RowTile(row) ==
  [r |-> OrElse(row, "t_r", 0), c |-> OrElse(row, "t_c", 0), oc |-> OrElse(row, "t_oc", 0),
   ic |-> OrElse(row, "t_ic", 0), kern |-> OrElse(row, "t_kern", 0),
   order |-> OrElse(row, "intra_order", 0)]

\* The latency columns count only when all six are there.
OracleColumns == {"f_i", "f_w", "f_o", "l_pass", "n_max", "n_min"}
HasOracle(row) == \A c \in OracleColumns : Given(row, c)
WithOracle(lat, row) ==
  IF ~HasOracle(row) THEN lat
  ELSE [lat EXCEPT !.fI = row["f_i"], !.fW = row["f_w"], !.fO = row["f_o"],
                   !.issue = row["l_pass"], !.nMax = row["n_max"], !.nMin = row["n_min"],
                   !.preIn = OrElse(row, "tau_i", @), !.preWt = OrElse(row, "tau_w", @),
                   !.post = OrElse(row, "post_cycles", @)]

\* A function type of its own, or the layer's; softmax and the like run as
\* element-wise functions.
RowFunctionType(row) ==
  IF row["function_type"] # "" THEN row["function_type"] ELSE RunsAs(row["layer_type"])

Entry(row, line, basePe) ==
  [layer |-> row["layer_id"], line |-> line, row |-> row, spec |-> RowSpec(row),
   pe |-> RowPe(row, basePe), fid |-> row["function_id"], type |-> RowFunctionType(row),
   i1 |-> row["i1_connect"], i2 |-> row["i2_connect"],
   in |-> row["input_addr"], wt |-> row["kernel_addr"], out |-> row["output_addr"]]

\* The rows of a file, those skipped left out.
Entries(rows, basePe) ==
  Selected([i \in DOMAIN rows |-> Entry(rows[i], i, basePe)],
           {i \in DOMAIN rows : RowAccepted(rows[i])})

-----------------------------------------------------------------------------
\* By layer, explicit function ids first and in order, then by line.
Precedes(a, b) ==
  LET explicit(e) == e.fid # Absent
  IN  \/ a.layer < b.layer
      \/ /\ a.layer = b.layer
         /\ \/ explicit(a) /\ ~explicit(b)
            \/ explicit(a) /\ explicit(b) /\ a.fid < b.fid
            \/ a.fid = b.fid /\ a.line < b.line
Ordered(entries) ==
  LET order == Arranged([i \in DOMAIN entries |->
                           {j \in DOMAIN entries : Precedes(entries[j], entries[i])}])
  IN  [n \in DOMAIN order |-> entries[order[n]]]

\* Function ids continue from the highest in the layer; an operand not given
\* is the function before it in the layer.
AssignId(acc, e) ==
  LET first == e.layer # acc.layer
      next  == IF first THEN 0 ELSE acc.next
      prev  == IF first THEN NoOperand ELSE acc.prev
      fid   == IF e.fid = Absent THEN next ELSE e.fid
  IN  [layer |-> e.layer, next |-> Most(next, fid + 1), prev |-> fid,
       done |-> Append(acc.done,
         [e EXCEPT !.fid = fid, !.i1 = IF @ = Absent THEN prev ELSE @,
                   !.i2 = IF @ = Absent THEN NoOperand ELSE @])]
AssignIds(entries) ==
  LET after[n \in 0 .. Len(entries)] ==
        IF n = 0 THEN [layer |-> Absent, next |-> 0, prev |-> NoOperand, done |-> <<>>]
        ELSE AssignId(after[n - 1], entries[n])
  IN  after[Len(entries)].done

\* (fault) The outputs of the packet before are still known.
PlaceEntryKeepsOuts(acc, e) ==
  LET first   == e.layer # acc.layer
      prevOut == IF first THEN acc.lastOut ELSE acc.prevOut
      in  == CASE e.in # Absent              -> e.in
               [] e.in = Absent /\ e.i1 \in DOMAIN acc.outs -> acc.outs[e.i1]
               [] e.in = Absent /\ acc.outs = <<>> /\ prevOut # Absent -> prevOut
               [] OTHER                      -> Wrap(acc.cursor)
      afterIn == Most(acc.cursor, in + Volume(InputShape(e.spec)))
      wt      == IF e.wt # Absent THEN e.wt ELSE Wrap(afterIn)
      afterWt == Most(afterIn, wt + KernelWords(e.spec))
      out     == IF e.out # Absent THEN e.out ELSE Wrap(afterWt)
  IN  [layer |-> e.layer, outs |-> With(acc.outs, e.fid, out), prevOut |-> prevOut,
       lastOut |-> out, cursor |-> Most(afterWt, out + Volume(OutputShape(e.spec))),
       done |-> Append(acc.done, [e EXCEPT !.in = in, !.wt = wt, !.out = out])]

\* (fault) The cursor follows the last output, below what is taken already.
PlaceEntryFollowsOutput(acc, e) ==
  LET first   == e.layer # acc.layer
      outs    == IF first THEN <<>> ELSE acc.outs
      in  == IF e.in # Absent THEN e.in
             ELSE IF e.i1 \in DOMAIN outs THEN outs[e.i1] ELSE Wrap(acc.cursor)
      wt  == IF e.wt # Absent THEN e.wt ELSE Wrap(in + Volume(InputShape(e.spec)))
      out == IF e.out # Absent THEN e.out ELSE Wrap(wt + KernelWords(e.spec))
  IN  [layer |-> e.layer, outs |-> With(outs, e.fid, out), prevOut |-> Absent, lastOut |-> out,
       cursor |-> out + Volume(OutputShape(e.spec)),
       done |-> Append(acc.done, [e EXCEPT !.in = in, !.wt = wt, !.out = out])]

\* One entry's tensors.  outs: outputs of this packet so far, by function id;
\* prevOut: last output of the packet before.  An address the row gives stands;
\* an input is its producer's output, the previous packet's, or new space at
\* the cursor; weights and outputs are new space.  The cursor (64 bits) is the
\* high-water mark; an address keeps 32 bits of it.
PlaceEntry(acc, e) ==
  LET first   == e.layer # acc.layer
      outs    == IF first THEN <<>> ELSE acc.outs
      prevOut == IF first THEN acc.lastOut ELSE acc.prevOut
      in  == CASE e.in # Absent                           -> e.in
               [] e.in = Absent /\ e.i1 \in DOMAIN outs   -> outs[e.i1]
               [] e.in = Absent /\ outs = <<>> /\ prevOut # Absent -> prevOut
               [] OTHER                                   -> Wrap(acc.cursor)
      afterIn == Most(acc.cursor, in + Volume(InputShape(e.spec)))
      wt      == IF e.wt # Absent THEN e.wt ELSE Wrap(afterIn)
      afterWt == Most(afterIn, wt + KernelWords(e.spec))
      out     == IF e.out # Absent THEN e.out ELSE Wrap(afterWt)
  IN  [layer |-> e.layer, outs |-> With(outs, e.fid, out), prevOut |-> prevOut, lastOut |-> out,
       cursor |-> Most(afterWt, out + Volume(OutputShape(e.spec))),
       done |-> Append(acc.done, [e EXCEPT !.in = in, !.wt = wt, !.out = out])]
Place(entries) ==
  LET after[n \in 0 .. Len(entries)] ==
        IF n = 0 THEN [layer |-> Absent, outs |-> <<>>, prevOut |-> Absent,
                       lastOut |-> Absent, cursor |-> 0, done |-> <<>>]
        ELSE PlaceEntry(after[n - 1], entries[n])
  IN  after[Len(entries)]

\* load_layer_spec_csv: the placed entries and the image's footprint.
Link(rows, basePe) ==
  LET placed == Place(AssignIds(Ordered(Entries(rows, basePe))))
  IN  [entries |-> placed.done, footprint |-> placed.cursor]

-----------------------------------------------------------------------------
\* A tile below the input's extent turns on tiling, tile columns always do.
EntryTile(e) ==
  LET th == Most(1, e.row["tile_h"])
      tw == Most(1, e.row["tile_w"])
  IN  IF \E c \in TileColumns : Given(e.row, c)
      THEN [tile |-> RowTile(e.row), flags |-> {"TileEnable"}]
      ELSE IF th < e.spec.ih \/ tw < e.spec.iw
      THEN [tile |-> [NoTile EXCEPT !.r = th, !.c = tw, !.kern = e.spec.kh * e.spec.kw],
            flags |-> {"TileEnable"}]
      ELSE [tile |-> NoTile, flags |-> {}]

\* hw: pe, dataflow, l2kb.
EntryLatency(e, hw) ==
  WithOracle(TiledLatency(e.spec, Most(1, e.row["tile_h"]), Most(1, e.row["tile_w"]),
                          hw.l2kb, hw.dataflow, e.pe, hw.dataflow), e.row)

EntryFunction(e, hw) ==
  LET s == e.spec
      pre == IF e.row["preprocess_type"] = "" THEN "None" ELSE e.row["preprocess_type"]
  IN  Function(e.layer, e.fid, e.type, e.i1, e.i2, s, pre, OrElse(e.row, "skip_permille", 0),
               Tensor(InputShape(s), e.in, Volume(InputShape(s))),
               Tensor(Shape(s.kh, s.kw, s.kc), e.wt, KernelWords(s)),
               Tensor(OutputShape(s), e.out, Volume(OutputShape(s))),
               EntryLatency(e, hw), EntryTile(e).tile, EntryTile(e).flags)

CsvFunctions(entries, hw) == [i \in DOMAIN entries |-> EntryFunction(entries[i], hw)]
=============================================================================
