------------------------------ MODULE Compiler ------------------------------
(***************************************************************************)
(* The compile side as a whole: a program is written row by row (CSV),     *)
(* call by call (DnnImageCompiler) or layer by layer (DnnImageGenerator),  *)
(* made into an image, and the image is loaded by the NPU, whole or cut    *)
(* short.  One behaviour uses one of the three entry points.               *)
(***************************************************************************)
EXTENDS TileMath, NetworkGenerator, NetworkCsv

CONSTANTS
  Rows, MaxRows,           \* CSV rows to write, how many of them
  Hardware, DramWords,     \* pe, dataflow, l2kb; the memory map's dram_size
  PlainLayers,             \* layers handed to add_layer
  Geometries, Mappings, Tiles, MaxLayers,   \* for add_layer_direct / _derived
  BlobSizes,               \* sizes of attached weights and inputs
  Networks, NetConfigs,    \* built-in networks and their input
  PeChoices, TypeOverrides, IndexOverrides  \* generator configuration; <<key, pe>>

ASSUME CompilerAssumption ==
  /\ MaxRows \in Nat /\ MaxLayers \in Nat /\ DramWords \in 0 .. WordSpace
  /\ Networks \subseteq NetworkNames
  /\ BlobSizes \subseteq Nat \ {0}
  /\ PeChoices \subseteq ProcessingElements
  /\ \A h \in Hardware : h.pe \in ProcessingElements /\ h.l2kb \in Nat
  /\ \A o \in TypeOverrides : o[2] \in ProcessingElements
  /\ \A o \in IndexOverrides : o[2] \in ProcessingElements
  /\ \A c \in NetConfigs : {c.h, c.w, c.c, c.classes} \subseteq Nat /\ c.base \in 0 .. WordSpace - 1

\* What is compiled describes layers: the source checks neither the extents of a
\* row or a network nor that a kernel fits its input.
GivenLayers ==
  [spec : LayerSpecs, in : Nat, wt : Nat, out : Nat,
   lat : [fI : Nat, fW : Nat, fO : Nat, preIn : Nat, preWt : Nat, nMin : Nat, nMax : Nat,
          issue : Nat, post : Nat, ops : Nat],
   tile : TileRequests, flags : SUBSET {"TileEnable", "DerivedMode"}]
ASSUME LayersAssumption ==
  /\ \A r \in Rows : RowOK(r)
  /\ PlainLayers \cup Geometries \subseteq GivenLayers
  /\ \A l \in PlainLayers \cup Geometries : KernelFits(l.spec)
  /\ Tiles \subseteq TileRequests
  /\ \A m \in Mappings : MappingValid(m)
  /\ \A name \in Networks, c \in NetConfigs : NetworkFits(name, c)

VARIABLES
  tool,       \* "csv", "api" or "generator"
  stage,      \* "edit", "built", "rejected", "loaded"
  hw, rows,   \* the configuration and the rows of the CSV file
  compiler,   \* DnnImageCompiler: layers, blobs (bytes by layer), fmap (bytes)
  gen,        \* DnnImageGenerator's configuration
  net, todo,  \* the network it is building, the steps left
  image,      \* the image built
  loaded,     \* what the loader made of it
  whole       \* it was given the whole image

vars == <<tool, stage, hw, rows, compiler, gen, net, todo, image, loaded, whole>>

Cleared  == [layers |-> <<>>, blobs |-> <<>>, fmap |-> 0]
NewGenerator(h) ==
  [configured |-> FALSE, pe |-> DefaultPe, dataflow |-> "WS", l2kb |-> 256,
   adaptive |-> FALSE, typePe |-> <<>>, indexPe |-> <<>>]
Unloaded == [ok |-> FALSE, layers |-> <<>>, packets |-> 0]

Init ==
  /\ tool \in {"csv", "api", "generator"} /\ stage = "edit"
  /\ hw \in Hardware
  /\ tool # "csv" => hw = CHOOSE h \in Hardware : TRUE
  /\ rows = <<>> /\ compiler = Cleared /\ gen = NewGenerator(hw)
  /\ net = Start(0, 1, 1, 1) /\ todo = <<>>
  /\ image = NoImage /\ loaded = Unloaded /\ whole = FALSE

Editing(t) == tool = t /\ stage = "edit"

-----------------------------------------------------------------------------
\* The CSV file.
WriteRow(r) ==
  /\ Editing("csv") /\ Len(rows) < MaxRows
  /\ rows' = Append(rows, r)
  /\ UNCHANGED <<tool, stage, hw, compiler, gen, net, todo, image, loaded, whole>>

\* generate_network_from_layer_spec_csv: no entries or a footprint beyond the
\* DRAM region is an error, else the image is built.
GenerateFromCsv ==
  LET linked == Link(rows, hw.pe)
  IN  /\ Editing("csv")
      /\ IF linked.entries = <<>> \/ linked.footprint > DramWords
         THEN stage' = "rejected" /\ UNCHANGED image
         ELSE /\ stage' = "built"
              /\ image' = BuildImage(CsvFunctions(linked.entries, hw), <<>>, 0)
      /\ UNCHANGED <<tool, hw, rows, compiler, gen, net, todo, loaded, whole>>

-----------------------------------------------------------------------------
\* The compiler's interface.
ApiCall ==
  /\ Editing("api")
  /\ UNCHANGED <<tool, stage, hw, rows, gen, net, todo, image, loaded, whole>>

PushLayer(layer) ==
  /\ Len(compiler.layers) < MaxLayers
  /\ compiler' = [compiler EXCEPT !.layers = Append(@, layer)]

\* The legacy path: a layer with its latency, no tile.
AddLayer(l) ==
  ApiCall /\ PushLayer([l EXCEPT !.tile = NoTile, !.flags = {}])

Direct(l, lat, tile) ==
  [spec |-> DirectSpec(l.spec), in |-> l.in, wt |-> l.wt, out |-> l.out, lat |-> lat,
   tile |-> tile, flags |-> IF TileRequested(tile) THEN {"TileEnable"} ELSE {}]

AddLayerDirect(l, tile) == ApiCall /\ PushLayer(Direct(l, l.lat, tile))

AddLayerDerived(l, m, tile) ==
  LET layer == Direct(l, DerivedLatency(l.spec, m, tile), tile)
  IN  ApiCall /\ PushLayer([layer EXCEPT !.flags = @ \cup {"DerivedMode"}])

AttachWeights(id, bytes) ==
  ApiCall /\ compiler' = [compiler EXCEPT !.blobs = With(@, id, bytes)]

SetFirstLayerInput(bytes) ==
  ApiCall /\ compiler' = [compiler EXCEPT !.fmap = bytes]

Clear == ApiCall /\ compiler' = Cleared

\* compile: one packet per layer.
LayerFunction(i, l) ==
  LET s == l.spec
      o == CompilerOutputShape(s)
  IN  Function(i - 1, 0, RunsAs(s.type), NoOperand, NoOperand, s, "None", 0,
               Tensor(InputShape(s), l.in, Volume(InputShape(s))),
               Tensor(Shape(s.kh, s.kw, s.kc), l.wt, s.kh * s.kw * s.kc * s.kn),
               Tensor(o, l.out, Volume(o)), l.lat, l.tile, l.flags)
LayerFunctions(layers) == [i \in DOMAIN layers |-> LayerFunction(i, layers[i])]

Compile ==
  /\ Editing("api")
  /\ image' = BuildImage(LayerFunctions(compiler.layers), compiler.blobs, compiler.fmap)
  /\ stage' = IF image' = NoImage THEN "rejected" ELSE "built"
  /\ UNCHANGED <<tool, hw, rows, compiler, gen, net, todo, loaded, whole>>

-----------------------------------------------------------------------------
\* The generator: configured between networks, then one layer at a time.
GeneratorCall ==
  /\ Editing("generator") /\ todo = <<>> /\ net.layers = <<>>
  /\ UNCHANGED <<tool, stage, hw, rows, compiler, net, todo, image, loaded, whole>>

Configure(pe, dataflow) ==
  GeneratorCall /\ gen' = [gen EXCEPT !.configured = TRUE, !.pe = pe, !.dataflow = dataflow]
ResetConfig == GeneratorCall /\ gen' = [gen EXCEPT !.configured = FALSE]
SetPeGroupingMode(adaptive) == GeneratorCall /\ gen' = [gen EXCEPT !.adaptive = adaptive]
SetTypePe(type, pe)   == GeneratorCall /\ gen' = [gen EXCEPT !.typePe = With(@, type, pe)]
SetIndexPe(index, pe) == GeneratorCall /\ gen' = [gen EXCEPT !.indexPe = With(@, index, pe)]
ClearTypePe  == GeneratorCall /\ gen' = [gen EXCEPT !.typePe = <<>>]
ClearIndexPe == GeneratorCall /\ gen' = [gen EXCEPT !.indexPe = <<>>]

Generate(name, cfg) ==
  /\ Editing("generator") /\ todo = <<>> /\ net.layers = <<>>
  /\ net' = StartOf(name, cfg) /\ todo' = Steps(name, cfg.classes)
  /\ UNCHANGED <<tool, stage, hw, rows, compiler, gen, image, loaded, whole>>

GenerateLayer ==
  /\ Editing("generator") /\ todo # <<>>
  /\ net' = AddStep(gen, net, Head(todo)) /\ todo' = Tail(todo)
  /\ UNCHANGED <<tool, stage, hw, rows, compiler, gen, image, loaded, whole>>

GeneratedLayers(layers) ==
  [i \in DOMAIN layers |-> [spec |-> layers[i].spec, in |-> layers[i].in, wt |-> layers[i].wt,
                            out |-> layers[i].out, lat |-> layers[i].lat,
                            tile |-> NoTile, flags |-> {}]]
GenerateDone ==
  /\ Editing("generator") /\ todo = <<>> /\ net.layers # <<>>
  /\ stage' = "built"
  /\ image' = BuildImage(LayerFunctions(GeneratedLayers(net.layers)), <<>>, 0)
  /\ UNCHANGED <<tool, hw, rows, compiler, gen, net, todo, loaded, whole>>

-----------------------------------------------------------------------------
\* DnnImageLoader::parse, of the whole image or of its first bytes.
Load(length) ==
  /\ stage = "built"
  /\ stage' = "loaded" /\ loaded' = ParseImage(image, length)
  /\ whole' = (length >= image.total)
  /\ UNCHANGED <<tool, hw, rows, compiler, gen, net, todo, image>>

WriteCsv == (\E r \in Rows : WriteRow(r)) \/ GenerateFromCsv
UseCompiler ==
  \/ \E l \in PlainLayers : AddLayer(l)
  \/ \E l \in PlainLayers, t \in Tiles : AddLayerDirect(l, t)
  \/ \E l \in Geometries, m \in Mappings, t \in Tiles : AddLayerDerived(l, m, t)
  \/ \E id \in 0 .. MaxLayers - 1, n \in BlobSizes : AttachWeights(id, n)
  \/ \E n \in BlobSizes : SetFirstLayerInput(n)
  \/ Clear \/ Compile
UseGenerator ==
  \/ \E pe \in PeChoices, d \in {"WS", "IS", "OS"} : Configure(pe, d)
  \/ ResetConfig \/ ClearTypePe \/ ClearIndexPe
  \/ \E a \in BOOLEAN : SetPeGroupingMode(a)
  \/ \E o \in TypeOverrides : SetTypePe(o[1], o[2])
  \/ \E o \in IndexOverrides : SetIndexPe(o[1], o[2])
  \/ \E name \in Networks, cfg \in NetConfigs : Generate(name, cfg)
  \/ GenerateLayer \/ GenerateDone
LoadImage == \E cut \in {0, 1, DescriptorBytes} : Load(image.total - cut)

Next == WriteCsv \/ UseCompiler \/ UseGenerator \/ LoadImage
Spec == Init /\ [][Next]_vars

-----------------------------------------------------------------------------
\* What was written, as the functions an image should carry.
Linked == Link(rows, hw.pe).entries
Program ==
  CASE tool = "csv"       -> CsvFunctions(Linked, hw)
    [] tool = "api"       -> LayerFunctions(compiler.layers)
    [] tool = "generator" -> LayerFunctions(GeneratedLayers(net.layers))

\* The cuts the layers of a CSV program are given.
CutsInUse ==
  IF tool # "csv" THEN {}
  ELSE {LayerCut(e.spec, Most(1, e.row["tile_h"]), Most(1, e.row["tile_w"]), hw.l2kb) :
          e \in {x \in Range(Linked) : x.spec.type \in TiledTypes}}
CutsOK == \A c \in CutsInUse : CutOK(c)

\* The variables stay what the source declares them to be.
TypeOK ==
  /\ CutsOK
  /\ tool \in {"csv", "api", "generator"}
  /\ stage \in {"edit", "built", "rejected", "loaded"}
  /\ hw \in Hardware /\ rows \in BoundedSeq(Rows, MaxRows)
  /\ Len(compiler.layers) <= MaxLayers /\ compiler.fmap \in BlobSizes \cup {0}
  /\ Range(compiler.blobs) \subseteq BlobSizes
  /\ gen.configured \in BOOLEAN /\ gen.adaptive \in BOOLEAN
  /\ \A s \in Range(todo) : s.type \in FuncTypes
  /\ net.addr \in 0 .. WordSpace - 1
  /\ (stage \in {"built", "loaded"}) = (image # NoImage)
  /\ whole \in BOOLEAN /\ (whole => stage = "loaded")

\* The NPU runs the program that was written.  An image without weights is
\* accepted exactly when all of it is there, and then every function of the
\* program is loaded once, in the order of its layers and function ids, with
\* its tensors, and knows whether its operand is one of its own packet's.
\* What was read of an image cut short is a prefix of that, never more
\* (build_dnn_image_packets against parse_dnn_image_packets_to_layers).
LoadedIsTheProgram ==
  LET P == Program  L == loaded.layers
      SameLayer(i) == {j \in DOMAIN P : P[j].layer = P[i].layer}
  IN  stage = "loaded" /\ Range(LoadedBlobs(image)) = {0} =>
        /\ loaded.ok = whole
        /\ loaded.ok => Len(L) = Len(P)
        /\ \A i \in DOMAIN L :
             /\ <<L[i].layer, L[i].fid, L[i].ftype>> = <<P[i].layer, P[i].fid, P[i].type>>
             /\ <<L[i].input, L[i].weight, L[i].output>> = <<P[i].input, P[i].weight, P[i].output>>
             /\ <<L[i].tile, L[i].flags>> = <<P[i].tile, P[i].flags>>
             /\ L[i].i1FromPacket = (\E j \in SameLayer(i) : P[j].fid = L[i].i1)
             /\ L[i].consumed = (\E j \in SameLayer(i) : P[i].fid \in {L[j].i1, L[j].i2})
        /\ \A i, j \in DOMAIN L : i < j =>
             \/ L[i].layer < L[j].layer
             \/ L[i].layer = L[j].layer /\ L[i].fid <= L[j].fid

\* A function whose row gives no input address reads where its producer
\* wrote: the last function before it in the packet that has the id it names,
\* for the first of a packet the last function of the packet before (the
\* "producer to consumer address chaining" of the linker), whatever order the
\* rows were written in.
ConsumerReadsItsProducer ==
  tool = "csv" /\ loaded.ok =>
    LET L == loaded.layers
        Producers(j) == {i \in 1 .. j - 1 : L[i].layer = L[j].layer /\ L[i].fid = L[j].i1}
        First(j)     == j > 1 /\ L[j - 1].layer # L[j].layer
    IN  \A j \in DOMAIN L : ~Given(Linked[j].row, "input_addr") =>
          /\ Producers(j) # {} => L[j].input.addr = L[Max(Producers(j))].output.addr
          /\ First(j) => L[j].input.addr = L[j - 1].output.addr

\* The memory ends before the last address, and so does every network.  (At the last
\* address the running cursors of both would wrap around to zero.)
MemoryIsLargeEnough ==
  DramWords < WordSpace /\ \A name \in Networks, c \in NetConfigs : NetworkEnd(name, c) < WordSpace

\* Nothing the linker or the generator places is overwritten: a region it
\* chose for weights or for an output overlaps no tensor of an earlier
\* function and no other tensor of its own, in a memory that is large enough.
\* (A generated pooling layer is given no place for weights.)
Apart(a, b) ==
  a.words = 0 \/ b.words = 0 \/ a.addr + a.words <= b.addr \/ b.addr + b.words <= a.addr
Weights(f) == IF tool = "generator" /\ f.type = "Pooling" THEN {} ELSE {f.weight}
RegionsApart ==
  stage = "built" /\ tool # "api" =>
    LET P == Program
        Chosen(i, column) == tool = "generator" \/ ~Given(Linked[i].row, column)
        Fits(t) == t.addr + t.words <= IF tool = "csv" THEN DramWords ELSE WordSpace
        Before(i) == UNION {{P[j].input, P[j].output} \cup Weights(P[j]) : j \in 1 .. i - 1}
    IN  \A i \in DOMAIN P :
          /\ \A t \in {P[i].input, P[i].output} \cup Weights(P[i]) : Fits(t)
          /\ Chosen(i, "kernel_addr") =>
               \A w \in Weights(P[i]), t \in Before(i) \cup {P[i].input} : Apart(w, t)
          /\ Chosen(i, "output_addr") =>
               \A t \in Before(i) \cup {P[i].input} \cup Weights(P[i]) : Apart(P[i].output, t)

\* The closed form add_layer_derived puts in a descriptor is what its tiles
\* move, those at the edges at their own size, together with at most one
\* refetch of each partial sum, and none when all passes run in parallel.
PieceSizes(extent, part) ==
  IF part = 0 THEN {0}
  ELSE {Least(part, extent - k * part) : k \in 0 .. CeilDiv(extent, part) - 1}
PieceCount(extent, part, piece) ==
  IF part = 0 THEN 1
  ELSE Cardinality({k \in 0 .. CeilDiv(extent, part) - 1 : Least(part, extent - k * part) = piece})
OverTiles(s, t, Part(_)) ==
  LET o == GeometryShape(s)  ic == ReductionExtent(s)
  IN  SumFunction(
        [x \in [r : PieceSizes(o.h, t.r), c : PieceSizes(o.w, t.c),
                oc : PieceSizes(o.c, t.oc), ic : PieceSizes(ic, t.ic)] |->
           Part(PerTileVolumes(s, x)) * PieceCount(o.h, t.r, x.r) * PieceCount(o.w, t.c, x.c)
             * PieceCount(o.c, t.oc, x.oc) * PieceCount(ic, t.ic, x.ic)])
AggregateIsTheSum ==
  \A i \in DOMAIN compiler.layers :
    LET l == compiler.layers[i]  t == TileAxes(l.spec, l.tile)
        in == OverTiles(l.spec, t, LAMBDA v: v.in)
        wt == OverTiles(l.spec, t, LAMBDA v: v.wt)
        extra == (l.lat.fI - in) + (l.lat.fW - wt)
    IN  "DerivedMode" \in l.flags =>
          /\ l.lat.fI >= in /\ l.lat.fW >= wt
          /\ extra <= Most(0, l.lat.fO - l.lat.nMin * Volume(GeometryShape(l.spec)))

\* Regrouping the processing elements for a layer keeps the multipliers: it
\* never uses more than the hardware has and leaves fewer than one group of
\* them idle (AdaptiveByOps of resolve_pe_for_layer).
PeBudgetKept ==
  tool = "generator" =>
    \A i \in DOMAIN net.layers :
      LET spec == net.layers[i].spec
          base == SanitizePe(gen.pe)
          pe   == ResolvePe(gen, spec, i - 1)
          Multipliers(p) == p.k * MaxWidth(p)
      IN  gen.adaptive /\ i - 1 \notin DOMAIN gen.indexPe /\ spec.type \notin DOMAIN gen.typePe =>
            /\ Multipliers(pe) <= Multipliers(base)
            /\ Multipliers(base) - Multipliers(pe) < pe.k * pe.g

\* The tiles of a schedule that hold an output element, and the passes (of n)
\* that bring an input channel.
TilesAt(sched, y, x) ==
  {k \in DOMAIN sched :
     LET t == sched[k].tile IN y - t.h0 \in 0 .. t.h - 1 /\ x - t.w0 \in 0 .. t.w - 1}
PassesWith(c, n, ch) ==
  {p \in 0 .. n - 1 : ch - PassFrom(c, n, p) \in 0 .. PassChannels(c, n, p) - 1}

\* A pass fits the buffer whenever the tile's output and one channel do.
PassesFit(c, t, n) ==
  LET room == Least(InputBudget(c), KernelBudget(c))
      Need(p) == 4 * (PassTraffic(c, t, n, p).input + PassTraffic(c, t, n, p).kernel)
  IN  4 * TileOutputWords(c, t) <= OutputBudget(c) =>
        \A p \in 0 .. n - 1 : Need(p) <= room \/ PassChannels(c, n, p) <= 1

\* The tiles of a layer's schedule cut its output into pieces, every element
\* in one of them; the passes of a tile share out the input channels, every
\* channel in one of them, and fit (compute_tile_schedule).
TilesCoverOutput ==
  stage = "built" => \A c \in CutsInUse :
    LET sched == Schedule(c)
    IN  /\ \A y \in 0 .. c.out.h - 1, x \in 0 .. c.out.w - 1 : Cardinality(TilesAt(sched, y, x)) = 1
        /\ \A k \in DOMAIN sched :
             LET n == sched[k].passes
             IN  /\ \A ch \in 0 .. c.ic - 1 : Cardinality(PassesWith(c, n, ch)) = 1
                 /\ PassesFit(c, sched[k].tile, n)

\* What compiler.h promises of attached weights, "embedded right after the
\* layer's packet descriptors": an image that carries some can be loaded.
WeightsCanBeLoaded == stage = "loaded" /\ whole => loaded.ok
=============================================================================
