---------------------------- MODULE SystemProofs ----------------------------
(***************************************************************************)
(* The types of everything the compilers and the executor keep, for every  *)
(* program, machine and number of runs, the properties of EndToEnd that    *)
(* follow once no loaded image can be anything but a built one, that an    *)
(* image loaded is the program it was built from, that its consumers read  *)
(* what their producers wrote, and that nothing placed is overwritten.     *)
(***************************************************************************)
EXTENDS EndToEndProofs

----------------------------------------------------------------------------
(* A network's steps are layers the generator takes *)

\* A layer a generator has placed.
Generated(l) ==
  /\ l.spec \in LayerSpecs /\ KernelFits(l.spec) /\ LatencyOK(l.lat)
  /\ l.in \in Nat /\ l.wt \in Nat /\ l.out \in Nat

LEMMA AddStepIs ==
  ASSUME NEW g, GenOK(g), NEW n, n.addr \in 0 .. WordSpace - 1, n.last \in Nat,
         NEW step, LayerFits(StepSpec(step, n.at)), NEW after, after = AddStep(g, n, step)
  PROVE  /\ after.addr \in 0 .. WordSpace - 1 /\ after.last \in Nat
         /\ after.at = ShapeBehind(step, n.at)
         /\ \E l : after.layers = Append(n.layers, l) /\ Generated(l)
<1> DEFINE spec  == StepSpec(step, n.at)
           in    == IF step.chained THEN n.last ELSE n.addr
           wt    == IF step.chained THEN n.addr ELSE Wrap(n.addr + Volume(n.at))
           out   == Wrap(wt + StepWeights(spec))
           shape == CompilerOutputShape(spec)
           lat   == GeneratorLatency(g, spec, Len(n.layers))
           layer == [spec |-> spec, in |-> in, wt |-> IF spec.type = "Pooling" THEN 0 ELSE wt,
                     out |-> out, lat |-> lat]
<1>1. after = [addr |-> Wrap(out + Volume(shape)), at |-> IF step.aside THEN n.at ELSE shape,
               last |-> out, layers |-> Append(n.layers, layer)]
  BY DEF AddStep
<1>2. spec.ih = n.at.h /\ spec.iw = n.at.w /\ spec.ic = n.at.c
  BY DEF StepSpec
<1>3. (IF step.aside THEN n.at ELSE shape) = ShapeBehind(step, n.at)
  BY DEF ShapeBehind
<1>4. spec \in LayerSpecs /\ KernelFits(spec)
  BY DEF LayerFits
<1>5. LatencyOK(lat)
  BY GeneratorLatencyOK
<1> HIDE DEF lat, spec
<1>6. n.addr \in Nat
  <2> DEFINE w == WordSpace - 1
  <2>1. n.addr \in 0 .. w
    OBVIOUS
  <2> HIDE DEF w
  <2>2. w \in Int
    BY WordSpacePositive DEF w
  <2> QED
    BY <2>1, <2>2
<1>7. Volume(n.at) \in Nat
  <2>1. ShapeOK(n.at)
    BY <1>2, <1>4, SpecFields DEF ShapeOK
  <2> QED
    BY <2>1, ShapeVolume
<1>8. Volume(shape) \in Nat
  BY <1>4, ShapesAre, ShapeVolume
<1>9. StepWeights(spec) \in Nat
  <2>1. spec.kh \in Nat /\ spec.kw \in Nat /\ spec.kc \in Nat /\ spec.kn \in Nat
    BY <1>4, SpecFields
  <2>2. spec.kh * spec.kw \in Nat
    BY <2>1
  <2>3. spec.kh * spec.kw * spec.kc \in Nat
    BY <2>1, <2>2
  <2>4. spec.kh * spec.kw * spec.kc * spec.kn \in Nat
    BY <2>1, <2>3
  <2> QED
    BY <2>4 DEF StepWeights
<1>10. in \in Nat
  BY <1>6
<1>11. wt \in Nat
  <2>1. n.addr + Volume(n.at) \in Int
    BY <1>6, <1>7
  <2>2. Wrap(n.addr + Volume(n.at)) \in Nat
    BY <2>1, WrapIs
  <2> QED
    BY <1>6, <2>2
<1> HIDE DEF in, wt, shape
<1>12. out \in Nat
  <2>1. wt + StepWeights(spec) \in Int
    BY <1>9, <1>11
  <2> QED
    BY <2>1, WrapIs
<1> HIDE DEF out
<1>13. Wrap(out + Volume(shape)) \in 0 .. WordSpace - 1
  <2>1. out + Volume(shape) \in Int
    BY <1>8, <1>12
  <2> QED
    BY <2>1, WrapIs
<1>14. Generated(layer)
  BY <1>4, <1>5, <1>10, <1>11, <1>12 DEF Generated
<1> HIDE DEF layer
<1> QED
  BY <1>1, <1>3, <1>12, <1>13, <1>14

\* What the generator keeps: the layers placed so far, and steps ahead that fit behind
\* the shape it has reached.
Ahead(t, steps, k) ==
  /\ k \in Nat /\ Len(t) + k = Len(steps)
  /\ \A i \in 1 .. Len(t) : t[i] = steps[k + i]
NetworkAhead(n, t) ==
  \E name \in Networks, cfg \in NetConfigs : \E at, k :
    LET steps == Steps(name, cfg.classes)
    IN  /\ FitsAlong(at, steps, cfg, Len(steps)) /\ Ahead(t, steps, k) /\ n.at = at[k]
NetOK(n, t) ==
  /\ t \in Seq(GeneratorSteps)
  /\ n.addr \in 0 .. WordSpace - 1 /\ n.last \in Nat
  /\ n.layers \in Seq(Range(n.layers)) /\ \A l \in Range(n.layers) : Generated(l)
  /\ t # <<>> => NetworkAhead(n, t)

LEMMA GenerateIs ==
  ASSUME NEW name \in Networks, NEW cfg \in NetConfigs
  PROVE  NetOK(StartOf(name, cfg), Steps(name, cfg.classes))
<1> DEFINE n == StartOf(name, cfg)
           t == Steps(name, cfg.classes)
<1>1. {cfg.h, cfg.w, cfg.c, cfg.classes} \subseteq Nat /\ cfg.base \in 0 .. WordSpace - 1
  BY CompilerAssumption
<1>2. NetworkFits(name, cfg)
  BY LayersAssumption
<1>3. /\ n.addr = (IF name \in {"test", "single"} THEN 0 ELSE cfg.base)
      /\ n.at = Shape(cfg.h, cfg.w, cfg.c) /\ n.last = 0 /\ n.layers = <<>>
  BY DEF StartOf, Start
<1> HIDE DEF n, t
<1>4. t \in Seq(GeneratorSteps) /\ \E at : FitsAlong(at, t, cfg, Len(t))
  BY <1>1, <1>2, NetworkAlong DEF t
<1>5. n.addr \in 0 .. WordSpace - 1
  <2> DEFINE w == WordSpace - 1
  <2>1. w \in Nat
    BY WordSpacePositive
  <2>2. cfg.base \in 0 .. w
    BY <1>1
  <2> HIDE DEF w
  <2>3. n.addr \in 0 .. w
    BY <1>3, <2>1, <2>2
  <2> QED
    BY <2>3 DEF w
<1>6. n.layers \in Seq(Range(n.layers)) /\ \A l \in Range(n.layers) : Generated(l)
  BY <1>3 DEF Range
<1>7. NetworkAhead(n, t)
  <2>1. PICK at : FitsAlong(at, t, cfg, Len(t))
    BY <1>4
  <2>2. Ahead(t, t, 0)
    BY <1>4 DEF Ahead
  <2>3. n.at = at[0]
    BY <1>3, <2>1 DEF FitsAlong
  <2> QED
    BY <2>1, <2>2, <2>3 DEF NetworkAhead, t
<1>8. n.last \in Nat
  BY <1>3
<1>9. NetOK(n, t)
  BY <1>4, <1>5, <1>6, <1>7, <1>8 DEF NetOK
<1> QED
  BY <1>9 DEF n, t

LEMMA NextFits ==
  ASSUME NEW n, NEW t \in Seq(GeneratorSteps), t # <<>>, NetworkAhead(n, t)
  PROVE  /\ LayerFits(StepSpec(Head(t), n.at))
         /\ \A m : m.at = ShapeBehind(Head(t), n.at) => NetworkAhead(m, Tail(t))
<1>1. PICK name \in Networks, cfg \in NetConfigs :
        \E at, k :
          LET steps == Steps(name, cfg.classes)
          IN  /\ FitsAlong(at, steps, cfg, Len(steps)) /\ Ahead(t, steps, k) /\ n.at = at[k]
  BY DEF NetworkAhead
<1> DEFINE steps == Steps(name, cfg.classes)
           z == Len(steps)
<1>2. PICK at, k : FitsAlong(at, steps, cfg, z) /\ Ahead(t, steps, k) /\ n.at = at[k]
  BY <1>1
<1> HIDE DEF steps
<1>3. /\ Len(t) \in Nat \ {0} /\ Head(t) = t[1] /\ Len(Tail(t)) = Len(t) - 1
      /\ \A i \in 1 .. Len(t) - 1 : Tail(t)[i] = t[i + 1]
  OBVIOUS
<1>4. k \in Nat /\ Len(t) + k = z /\ \A i \in 1 .. Len(t) : t[i] = steps[k + i]
  BY <1>2 DEF Ahead
<1> HIDE DEF z
<1>5. Head(t) = steps[k + 1] /\ k + 1 \in 1 .. z /\ (k + 1) - 1 = k
  BY <1>3, <1>4
<1>6. LayerFits(StepSpec(Head(t), n.at)) /\ at[k + 1] = ShapeBehind(Head(t), n.at)
  BY <1>2, <1>5 DEF FitsAlong
<1>7. Ahead(Tail(t), steps, k + 1)
  <2>1. Len(Tail(t)) + (k + 1) = z /\ k + 1 \in Nat
    BY <1>3, <1>4
  <2>2. \A i \in 1 .. Len(Tail(t)) : Tail(t)[i] = steps[(k + 1) + i]
    <3>1. ASSUME NEW i \in 1 .. Len(Tail(t)) PROVE Tail(t)[i] = steps[(k + 1) + i]
      <4>1. i \in 1 .. Len(t) - 1 /\ i + 1 \in 1 .. Len(t) /\ k + (i + 1) = (k + 1) + i
        BY <1>3, <1>4
      <4> QED
        BY <1>3, <1>4, <4>1
    <3> QED
      BY <3>1
  <2> QED
    BY <2>1, <2>2 DEF Ahead, z
<1>8. ASSUME NEW m, m.at = ShapeBehind(Head(t), n.at) PROVE NetworkAhead(m, Tail(t))
  BY <1>2, <1>6, <1>7, <1>8 DEF NetworkAhead, steps, z
<1> QED
  BY <1>6, <1>8

LEMMA StepPlaced ==
  ASSUME NEW g, GenOK(g), NEW n, NEW t, NetOK(n, t), t # <<>>, NEW m, m = AddStep(g, n, Head(t))
  PROVE  NetOK(m, Tail(t))
<1>1. /\ t \in Seq(GeneratorSteps) /\ n.addr \in 0 .. WordSpace - 1 /\ n.last \in Nat
      /\ n.layers \in Seq(Range(n.layers)) /\ \A l \in Range(n.layers) : Generated(l)
      /\ NetworkAhead(n, t)
  BY DEF NetOK
<1>2. /\ LayerFits(StepSpec(Head(t), n.at))
      /\ \A x : x.at = ShapeBehind(Head(t), n.at) => NetworkAhead(x, Tail(t))
  BY <1>1, NextFits
<1>3. /\ m.addr \in 0 .. WordSpace - 1 /\ m.last \in Nat
      /\ m.at = ShapeBehind(Head(t), n.at)
      /\ \E l : m.layers = Append(n.layers, l) /\ Generated(l)
  BY <1>1, <1>2, AddStepIs
<1>4. PICK l : m.layers = Append(n.layers, l) /\ Generated(l)
  BY <1>3
<1>5. m.layers \in Seq(Range(m.layers)) /\ \A x \in Range(m.layers) : Generated(x)
  <2> DEFINE R == Range(n.layers)
             T == R \cup {l}
             ls == n.layers
  <2>1. ls \in Seq(R) /\ R \subseteq T /\ l \in T
    BY <1>1
  <2>2. \A x \in T : Generated(x)
    BY <1>1, <1>4
  <2> HIDE DEF T, R, ls
  <2>3. Len(ls) \in Nat /\ ls = [i \in 1 .. Len(ls) |-> ls[i]] /\ \A i \in 1 .. Len(ls) : ls[i] \in T
    BY <2>1
  <2>4. ls \in Seq(T)
    BY <2>3
  <2>5. Append(ls, l) \in Seq(T)
    BY <2>1, <2>4
  <2>6. m.layers \in Seq(T)
    BY <1>4, <2>5 DEF ls
  <2> QED
    BY <2>2, <2>6, OwnRange
<1>6. Tail(t) \in Seq(GeneratorSteps)
  BY <1>1
<1> QED
  BY <1>2, <1>3, <1>5, <1>6 DEF NetOK

----------------------------------------------------------------------------
(* What the compilers' calls keep *)

CompilerKept ==
  /\ DOMAIN compiler = {"layers", "blobs", "fmap"}
  /\ AllDescribed(compiler.layers) /\ Len(compiler.layers) <= MaxLayers
  /\ compiler.fmap \in BlobSizes \cup {0} /\ Range(compiler.blobs) \subseteq BlobSizes
GeneratorKept ==
  /\ DOMAIN gen = {"configured", "pe", "dataflow", "l2kb", "adaptive", "typePe", "indexPe"}
  /\ GenOK(gen) /\ gen.configured \in BOOLEAN /\ gen.adaptive \in BOOLEAN
ImageKept ==
  /\ tool \in {"csv", "api", "generator"} /\ stage \in {"edit", "built", "rejected", "loaded"}
  /\ hw \in Hardware /\ rows \in Seq(Rows) /\ Len(rows) <= MaxRows
  /\ ImageOK(image) /\ (stage \in {"built", "loaded"} <=> image # NoImage)
  /\ whole \in BOOLEAN /\ (whole => stage = "loaded")
Compiling == ImageKept /\ CompilerKept /\ GeneratorKept /\ NetOK(net, todo)

LEMMA NothingCompiled ==
  ASSUME Init
  PROVE  Compiling
<1>1. /\ tool \in {"csv", "api", "generator"} /\ stage = "edit" /\ hw \in Hardware
      /\ rows = <<>> /\ compiler = Cleared /\ gen = NewGenerator(hw)
      /\ net = Start(0, 1, 1, 1) /\ todo = <<>>
      /\ image = NoImage /\ whole = FALSE
  BY DEF Init
<1>2. ImageKept
  <2>1. ImageOK(NoImage)
    BY DEF ImageOK, NoImage
  <2>2. <<>> \in Seq(Rows) /\ Len(<<>>) = 0 /\ 0 <= MaxRows
    BY CompilerAssumption
  <2> QED
    BY <1>1, <2>1, <2>2 DEF ImageKept
<1>3. CompilerKept
  <2>1. AllDescribed(<<>>) /\ Range(<<>>) = {} /\ Len(<<>>) = 0 /\ 0 <= MaxLayers
    BY CompilerAssumption DEF AllDescribed, Range
  <2> QED
    BY <1>1, <2>1 DEF CompilerKept, Cleared
<1>4. GeneratorKept
  <2>1. DefaultPe \in ProcessingElements
    BY DEF DefaultPe, ProcessingElements
  <2>2. hw.pe \in ProcessingElements /\ hw.l2kb \in Nat /\ DOMAIN <<>> = {}
    BY <1>1, CompilerAssumption
  <2> QED
    BY <1>1, <2>1, <2>2 DEF GeneratorKept, NewGenerator, GenOK
<1>5. NetOK(net, todo)
  <2>1. net.addr = 0 /\ net.last = 0 /\ net.layers = <<>> /\ todo = <<>>
    BY <1>1 DEF Start
  <2>2. 0 \in 0 .. WordSpace - 1
    <3> DEFINE w == WordSpace - 1
    <3>1. w \in Nat
      BY WordSpacePositive
    <3> HIDE DEF w
    <3>2. 0 \in 0 .. w
      BY <3>1
    <3> QED
      BY <3>2 DEF w
  <2>3. <<>> \in Seq(Range(<<>>)) /\ Range(<<>>) = {} /\ <<>> \in Seq(GeneratorSteps)
    BY DEF Range
  <2> QED
    BY <2>1, <2>2, <2>3 DEF NetOK
<1> QED
  BY <1>2, <1>3, <1>4, <1>5 DEF Compiling

LEMMA GivenLatency == ASSUME NEW l \in GivenLayers PROVE LatencyOK(l.lat)
<1>1. l.lat \in [fI : Nat, fW : Nat, fO : Nat, preIn : Nat, preWt : Nat, nMin : Nat, nMax : Nat,
                  issue : Nat, post : Nat, ops : Nat]
  BY DEF GivenLayers
<1> QED
  BY <1>1 DEF LatencyOK

\* The compiler's layers.
LEMMA PushKeeps ==
  ASSUME CompilerKept, NEW l, Described(l), PushLayer(l)
  PROVE  CompilerKept'
<1> DEFINE ls == compiler.layers
<1>1. /\ Len(ls) < MaxLayers /\ compiler' = [compiler EXCEPT !.layers = Append(ls, l)]
  BY DEF PushLayer
<1>2. AllDescribed(Append(ls, l)) /\ Len(Append(ls, l)) = Len(ls) + 1
  BY AppendDescribed DEF CompilerKept
<1>3. Len(ls) \in Nat /\ MaxLayers \in Nat
  BY CompilerAssumption DEF CompilerKept, AllDescribed
<1>4. /\ DOMAIN compiler' = {"layers", "blobs", "fmap"} /\ compiler'.layers = Append(ls, l)
      /\ compiler'.blobs = compiler.blobs /\ compiler'.fmap = compiler.fmap
  BY <1>1 DEF CompilerKept
<1> HIDE DEF ls
<1>5. Len(compiler'.layers) <= MaxLayers
  BY <1>1, <1>2, <1>3, <1>4
<1> QED
  BY <1>2, <1>4, <1>5 DEF CompilerKept

LEMMA CompilerCalls ==
  ASSUME CompilerKept, [Next]_vars
  PROVE  CompilerKept'
<1>1. CASE UNCHANGED compiler
  BY <1>1 DEF CompilerKept
<1>2. ASSUME NEW l \in PlainLayers, AddLayer(l) PROVE CompilerKept'
  <2> DEFINE d == [l EXCEPT !.tile = NoTile, !.flags = {}]
  <2>1. l \in GivenLayers /\ KernelFits(l.spec)
    BY LayersAssumption
  <2>2. /\ d.spec = l.spec /\ d.in = l.in /\ d.wt = l.wt /\ d.out = l.out /\ d.lat = l.lat
        /\ d.tile = NoTile
    BY <2>1 DEF GivenLayers
  <2>3. PushLayer(d)
    BY <1>2 DEF AddLayer
  <2> HIDE DEF d
  <2>4. /\ l.spec \in LayerSpecs /\ l.in \in Nat /\ l.wt \in Nat /\ l.out \in Nat
        /\ LatencyOK(l.lat)
    BY <2>1, GivenLatency DEF GivenLayers
  <2>5. NoTile \in TileRequests
    BY DEF NoTile, TileRequests
  <2>6. Described(d)
    BY <2>1, <2>2, <2>4, <2>5 DEF Described
  <2> QED
    BY <2>3, <2>6, PushKeeps
<1>3. ASSUME NEW l \in PlainLayers, NEW t \in Tiles, AddLayerDirect(l, t) PROVE CompilerKept'
  <2>1. l \in GivenLayers /\ KernelFits(l.spec) /\ t \in TileRequests
    BY LayersAssumption
  <2>2. LatencyOK(l.lat)
    BY <2>1, GivenLatency
  <2>3. Described(Direct(l, l.lat, t))
    BY <2>1, <2>2, DirectDescribed
  <2>4. PushLayer(Direct(l, l.lat, t))
    BY <1>3 DEF AddLayerDirect
  <2> QED
    BY <2>3, <2>4, PushKeeps
<1>4. ASSUME NEW l \in Geometries, NEW m \in Mappings, NEW t \in Tiles, AddLayerDerived(l, m, t)
      PROVE  CompilerKept'
  <2> DEFINE lat == DerivedLatency(l.spec, m, t)
             layer == Direct(l, lat, t)
             d == [layer EXCEPT !.flags = @ \cup {"DerivedMode"}]
  <2>1. l \in GivenLayers /\ KernelFits(l.spec) /\ t \in TileRequests /\ MappingValid(m)
    BY LayersAssumption
  <2>2. LatencyOK(lat)
    <3>1. l.spec \in LayerSpecs
      BY <2>1 DEF GivenLayers
    <3> QED
      BY <2>1, <3>1, DerivedLatencyOK
  <2>3. PushLayer(d)
    BY <1>4 DEF AddLayerDerived
  <2> HIDE DEF lat
  <2>4. Described(layer)
    BY <2>1, <2>2, DirectDescribed
  <2>5. /\ d.spec = layer.spec /\ d.in = layer.in /\ d.wt = layer.wt /\ d.out = layer.out
        /\ d.lat = layer.lat /\ d.tile = layer.tile
    BY DEF Direct
  <2> HIDE DEF d, layer
  <2>6. Described(d)
    BY <2>4, <2>5 DEF Described
  <2> QED
    BY <2>3, <2>6, PushKeeps
<1>5. ASSUME NEW id, NEW n \in BlobSizes, AttachWeights(id, n) PROVE CompilerKept'
  <2> DEFINE blobs == With(compiler.blobs, id, n)
  <2>1. compiler' = [compiler EXCEPT !.blobs = blobs]
    BY <1>5 DEF AttachWeights
  <2>2. Range(blobs) \subseteq BlobSizes
    BY DEF With, Range, CompilerKept
  <2> HIDE DEF blobs
  <2> QED
    BY <2>1, <2>2 DEF CompilerKept
<1>6. ASSUME NEW n \in BlobSizes, SetFirstLayerInput(n) PROVE CompilerKept'
  BY <1>6 DEF SetFirstLayerInput, CompilerKept
<1>7. CASE Clear
  <2>1. AllDescribed(<<>>) /\ Range(<<>>) = {} /\ Len(<<>>) = 0 /\ 0 <= MaxLayers
    BY CompilerAssumption DEF AllDescribed, Range
  <2> QED
    BY <1>7, <2>1 DEF CompilerKept, Cleared, Clear
<1>8. CASE WriteCsv \/ Compile \/ UseGenerator \/ LoadImage \/ UNCHANGED vars
  <2>1. UNCHANGED compiler
    BY <1>8 DEF WriteCsv, WriteRow, GenerateFromCsv, Compile, UseGenerator, GeneratorCall, Configure,
         ResetConfig, ClearTypePe, ClearIndexPe, SetPeGroupingMode, SetTypePe, SetIndexPe,
         Generate, GenerateLayer, GenerateDone, LoadImage, Load, vars
  <2> QED
    BY <1>1, <2>1
<1> QED
  BY <1>2, <1>3, <1>4, <1>5, <1>6, <1>7, <1>8 DEF Next, UseCompiler

\* The generator's configuration.
LEMMA GeneratorCalls ==
  ASSUME GeneratorKept, [Next]_vars
  PROVE  GeneratorKept'
<1>1. CASE UNCHANGED gen
  BY <1>1 DEF GeneratorKept
<1>2. ASSUME NEW pe \in PeChoices, NEW d, Configure(pe, d) PROVE GeneratorKept'
  <2>1. gen' = [gen EXCEPT !.configured = TRUE, !.pe = pe, !.dataflow = d] /\ pe \in ProcessingElements
    BY <1>2, CompilerAssumption DEF Configure
  <2>2. /\ DOMAIN gen' = DOMAIN gen /\ gen'.pe = pe /\ gen'.l2kb = gen.l2kb
        /\ gen'.configured = TRUE /\ gen'.adaptive = gen.adaptive
        /\ gen'.typePe = gen.typePe /\ gen'.indexPe = gen.indexPe
    BY <2>1 DEF GeneratorKept
  <2> QED
    BY <2>1, <2>2 DEF GeneratorKept, GenOK
<1>3. CASE ResetConfig
  <2>1. gen' = [gen EXCEPT !.configured = FALSE]
    BY <1>3 DEF ResetConfig
  <2>2. /\ DOMAIN gen' = DOMAIN gen /\ gen'.pe = gen.pe /\ gen'.l2kb = gen.l2kb
        /\ gen'.configured = FALSE /\ gen'.adaptive = gen.adaptive
        /\ gen'.typePe = gen.typePe /\ gen'.indexPe = gen.indexPe
    BY <2>1 DEF GeneratorKept
  <2> QED
    BY <2>2 DEF GeneratorKept, GenOK
<1>4. ASSUME NEW a \in BOOLEAN, SetPeGroupingMode(a) PROVE GeneratorKept'
  <2>1. gen' = [gen EXCEPT !.adaptive = a]
    BY <1>4 DEF SetPeGroupingMode
  <2>2. /\ DOMAIN gen' = DOMAIN gen /\ gen'.pe = gen.pe /\ gen'.l2kb = gen.l2kb
        /\ gen'.configured = gen.configured /\ gen'.adaptive = a
        /\ gen'.typePe = gen.typePe /\ gen'.indexPe = gen.indexPe
    BY <2>1 DEF GeneratorKept
  <2> QED
    BY <2>2 DEF GeneratorKept, GenOK
<1>5. ASSUME NEW f, NEW k, NEW pe \in ProcessingElements, \A i \in DOMAIN f : f[i] \in ProcessingElements
      PROVE  \A i \in DOMAIN With(f, k, pe) : With(f, k, pe)[i] \in ProcessingElements
  BY <1>5 DEF With
<1>6. ASSUME NEW typePe, NEW indexPe, \A i \in DOMAIN typePe : typePe[i] \in ProcessingElements,
             \A i \in DOMAIN indexPe : indexPe[i] \in ProcessingElements,
             gen' = [gen EXCEPT !.typePe = typePe] \/ gen' = [gen EXCEPT !.indexPe = indexPe]
      PROVE  GeneratorKept'
  <2>1. /\ DOMAIN gen' = DOMAIN gen /\ gen'.pe = gen.pe /\ gen'.l2kb = gen.l2kb
        /\ gen'.configured = gen.configured /\ gen'.adaptive = gen.adaptive
        /\ gen'.typePe = gen.typePe \/ gen'.typePe = typePe
        /\ gen'.indexPe = gen.indexPe \/ gen'.indexPe = indexPe
    BY <1>6 DEF GeneratorKept
  <2> QED
    BY <1>6, <2>1 DEF GeneratorKept, GenOK
<1>7. /\ \A i \in DOMAIN gen.typePe : gen.typePe[i] \in ProcessingElements
      /\ \A i \in DOMAIN gen.indexPe : gen.indexPe[i] \in ProcessingElements
  BY DEF GeneratorKept, GenOK
<1>8. ASSUME NEW o \in TypeOverrides, SetTypePe(o[1], o[2]) PROVE GeneratorKept'
  <2> DEFINE typePe == With(gen.typePe, o[1], o[2])
  <2>1. o[2] \in ProcessingElements
    BY CompilerAssumption
  <2>2. gen' = [gen EXCEPT !.typePe = typePe]
    BY <1>8 DEF SetTypePe
  <2>3. \A i \in DOMAIN typePe : typePe[i] \in ProcessingElements
    BY <1>5, <1>7, <2>1
  <2> HIDE DEF typePe
  <2> QED
    BY <1>6, <1>7, <2>2, <2>3
<1>9. ASSUME NEW o \in IndexOverrides, SetIndexPe(o[1], o[2]) PROVE GeneratorKept'
  <2> DEFINE indexPe == With(gen.indexPe, o[1], o[2])
  <2>1. o[2] \in ProcessingElements
    BY CompilerAssumption
  <2>2. gen' = [gen EXCEPT !.indexPe = indexPe]
    BY <1>9 DEF SetIndexPe
  <2>3. \A i \in DOMAIN indexPe : indexPe[i] \in ProcessingElements
    BY <1>5, <1>7, <2>1
  <2> HIDE DEF indexPe
  <2> QED
    BY <1>6, <1>7, <2>2, <2>3
<1>10. CASE ClearTypePe \/ ClearIndexPe
  <2> DEFINE none == <<>>
  <2>1. gen' = [gen EXCEPT !.typePe = none] \/ gen' = [gen EXCEPT !.indexPe = none]
    BY <1>10 DEF ClearTypePe, ClearIndexPe
  <2>2. \A i \in DOMAIN none : none[i] \in ProcessingElements
    OBVIOUS
  <2> HIDE DEF none
  <2> QED
    BY <1>6, <2>1, <2>2
<1>11. CASE WriteCsv \/ UseCompiler \/ LoadImage \/ GenerateLayer \/ GenerateDone \/ UNCHANGED vars
            \/ \E name \in Networks, cfg \in NetConfigs : Generate(name, cfg)
  <2>1. UNCHANGED gen
    BY <1>11 DEF WriteCsv, WriteRow, GenerateFromCsv, UseCompiler, AddLayer, AddLayerDirect,
         AddLayerDerived, AttachWeights, SetFirstLayerInput, Clear, ApiCall, Compile,
         Generate, GenerateLayer, GenerateDone, LoadImage, Load, vars
  <2> QED
    BY <1>1, <2>1
<1> QED
  BY <1>2, <1>3, <1>4, <1>8, <1>9, <1>10, <1>11 DEF Next, UseGenerator

\* The network under construction.
LEMMA NetworkSteps ==
  ASSUME GeneratorKept, NetOK(net, todo), [Next]_vars
  PROVE  NetOK(net', todo')
<1>1. CASE UNCHANGED <<net, todo>>
  BY <1>1
<1>2. ASSUME NEW name \in Networks, NEW cfg \in NetConfigs, Generate(name, cfg) PROVE NetOK(net', todo')
  <2>1. net' = StartOf(name, cfg) /\ todo' = Steps(name, cfg.classes)
    BY <1>2 DEF Generate
  <2> QED
    BY <2>1, GenerateIs
<1>3. CASE GenerateLayer
  <2>1. net' = AddStep(gen, net, Head(todo)) /\ todo' = Tail(todo) /\ todo # <<>>
    BY <1>3 DEF GenerateLayer
  <2>2. GenOK(gen)
    BY DEF GeneratorKept
  <2>3. NetOK(net', Tail(todo))
    BY <2>1, <2>2, StepPlaced
  <2> QED
    BY <2>1, <2>3
<1>4. CASE WriteCsv \/ UseCompiler \/ LoadImage \/ GenerateDone \/ UNCHANGED vars
  <2>1. UNCHANGED <<net, todo>>
    BY <1>4 DEF WriteCsv, WriteRow, GenerateFromCsv, UseCompiler, AddLayer, AddLayerDirect,
         AddLayerDerived, AttachWeights, SetFirstLayerInput, Clear, ApiCall, Compile,
         GenerateDone, LoadImage, Load, vars
  <2> QED
    BY <1>1, <2>1
<1>5. ASSUME NEW pe, NEW d, Configure(pe, d) PROVE NetOK(net', todo')
  BY <1>1, <1>5 DEF Configure, GeneratorCall
<1>6. CASE ResetConfig \/ ClearTypePe \/ ClearIndexPe \/ \E a \in BOOLEAN : SetPeGroupingMode(a)
  BY <1>1, <1>6 DEF ResetConfig, ClearTypePe, ClearIndexPe, SetPeGroupingMode, GeneratorCall
<1>7. ASSUME NEW a, NEW b, SetTypePe(a, b) \/ SetIndexPe(a, b) PROVE NetOK(net', todo')
  BY <1>1, <1>7 DEF SetTypePe, SetIndexPe, GeneratorCall
<1> QED
  BY <1>2, <1>3, <1>4, <1>5, <1>6, <1>7 DEF Next, UseGenerator

----------------------------------------------------------------------------
(* What building an image keeps *)

LEMMA NonEmptyList == ASSUME NEW T, NEW s \in Seq(T), s # <<>> PROVE 1 \in DOMAIN s
OBVIOUS

LEMMA CsvBuilt ==
  ASSUME ImageKept, GenerateFromCsv
  PROVE  ImageKept'
<1> DEFINE es == Link(rows, hw.pe).entries
           fs == CsvFunctions(es, hw)
<1>1. /\ stage = "edit" /\ UNCHANGED <<tool, hw, rows, whole>>
      /\ \/ stage' = "rejected" /\ UNCHANGED image
         \/ es # <<>> /\ stage' = "built" /\ image' = BuildImage(fs, <<>>, 0)
  BY DEF GenerateFromCsv, Editing
<1>2. /\ tool \in {"csv", "api", "generator"} /\ hw \in Hardware /\ rows \in Seq(Rows)
      /\ Len(rows) <= MaxRows /\ ImageOK(image) /\ image = NoImage
      /\ whole = FALSE
  BY <1>1 DEF ImageKept
<1>3. hw.pe \in ProcessingElements
  BY <1>2, CompilerAssumption
<1>4. es \in Seq(CsvEntries(Nat, Nat))
  BY <1>2, <1>3, LinkIs
<1> HIDE DEF es
<1>5. ProgramOK(fs) /\ DOMAIN fs = DOMAIN es
  BY <1>2, <1>4, CsvProgramOK
<1> HIDE DEF fs
<1>6. CASE stage' = "rejected" /\ UNCHANGED image
  BY <1>1, <1>2, <1>6 DEF ImageKept
<1>7. CASE es # <<>> /\ stage' = "built" /\ image' = BuildImage(fs, <<>>, 0)
  <2>1. fs # <<>>
    <3>1. es # <<>>
      BY <1>7
    <3>2. 1 \in DOMAIN es
      BY <1>4, <3>1, NonEmptyList
    <3> QED
      BY <1>5, <3>2
  <2>2. ImageOK(image') /\ image' # NoImage
    <3>1. \A x \in DOMAIN <<>> : <<>>[x] \in Nat
      OBVIOUS
    <3> QED
      BY <1>5, <1>7, <2>1, <3>1, BuiltIs
  <2> QED
    BY <1>1, <1>2, <1>7, <2>2 DEF ImageKept
<1> QED
  BY <1>1, <1>6, <1>7

LEMMA CompilerBuilt ==
  ASSUME ImageKept, CompilerKept, Compile
  PROVE  ImageKept'
<1> DEFINE fs == LayerFunctions(compiler.layers)
<1>1. /\ stage = "edit" /\ UNCHANGED <<tool, hw, rows, whole>>
      /\ image' = BuildImage(fs, compiler.blobs, compiler.fmap)
      /\ stage' = IF image' = NoImage THEN "rejected" ELSE "built"
  BY DEF Compile, Editing
<1>2. ProgramOK(fs)
  BY LayerProgramOK DEF CompilerKept
<1> HIDE DEF fs
<1>4. /\ compiler.fmap \in Nat /\ \A x \in DOMAIN compiler.blobs : compiler.blobs[x] \in Nat
  <2>1. BlobSizes \subseteq Nat
    BY CompilerAssumption
  <2>2. compiler.fmap \in BlobSizes \cup {0} /\ Range(compiler.blobs) \subseteq BlobSizes
    BY DEF CompilerKept
  <2> DEFINE blobs == compiler.blobs
  <2>3. \A x \in DOMAIN blobs : blobs[x] \in Range(blobs)
    BY DEF Range
  <2> HIDE DEF blobs
  <2>4. Range(blobs) \subseteq Nat
    BY <2>1, <2>2 DEF blobs
  <2>5. \A x \in DOMAIN blobs : blobs[x] \in Nat
    BY <2>3, <2>4
  <2>6. compiler.fmap \in Nat
    <3> DEFINE f == compiler.fmap
    <3>1. f \in BlobSizes \cup {0}
      BY <2>2
    <3> HIDE DEF f
    <3>2. f \in Nat
      BY <2>1, <3>1
    <3> QED
      BY <3>2 DEF f
  <2> QED
    BY <2>5, <2>6 DEF blobs
<1>3. ImageOK(image')
  BY <1>1, <1>2, <1>4, BuiltIs
<1> QED
  BY <1>1, <1>3 DEF ImageKept

LEMMA GeneratorBuilt ==
  ASSUME ImageKept, NetOK(net, todo), GenerateDone
  PROVE  ImageKept'
<1> DEFINE ls == GeneratedLayers(net.layers)
           fs == LayerFunctions(ls)
<1>1. /\ stage = "edit" /\ UNCHANGED <<tool, hw, rows, whole>> /\ net.layers # <<>>
      /\ image' = BuildImage(fs, <<>>, 0) /\ stage' = "built"
  BY DEF GenerateDone, Editing
<1>2. net.layers \in Seq(Range(net.layers)) /\ \A l \in Range(net.layers) : Generated(l)
  BY DEF NetOK
<1>3. AllDescribed(ls) /\ DOMAIN ls = DOMAIN net.layers
  BY <1>2, GeneratedDescribed DEF Generated
<1> HIDE DEF ls
<1>4. ProgramOK(fs) /\ DOMAIN fs = DOMAIN ls
  BY <1>3, LayerProgramOK
<1> HIDE DEF fs
<1>5. fs # <<>>
  <2> DEFINE ns == net.layers
  <2>1. 1 \in DOMAIN ns
    BY <1>1, <1>2, NonEmptyList
  <2> QED
    BY <1>3, <1>4, <2>1
<1>6. ImageOK(image') /\ image' # NoImage
  <2>1. \A x \in DOMAIN <<>> : <<>>[x] \in Nat
    OBVIOUS
  <2> QED
    BY <1>1, <1>4, <1>5, <2>1, BuiltIs
<1> QED
  BY <1>1, <1>6 DEF ImageKept

LEMMA CompilingSteps ==
  ASSUME Compiling, [Next]_vars
  PROVE  Compiling'
<1>1. CompilerKept' /\ GeneratorKept' /\ NetOK(net', todo')
  BY CompilerCalls, GeneratorCalls, NetworkSteps DEF Compiling
<1>2. ImageKept'
  <2>1. ASSUME UNCHANGED <<tool, stage, hw, rows, image, whole>> PROVE ImageKept'
    BY <2>1 DEF Compiling, ImageKept
  <2>2. ASSUME NEW r \in Rows, WriteRow(r) PROVE ImageKept'
    <3>1. /\ Len(rows) < MaxRows /\ rows' = Append(rows, r)
          /\ UNCHANGED <<tool, stage, hw, image, whole>>
      BY <2>2 DEF WriteRow
    <3>2. rows \in Seq(Rows) /\ MaxRows \in Nat
      BY CompilerAssumption DEF Compiling, ImageKept
    <3>3. rows' \in Seq(Rows) /\ Len(rows') <= MaxRows
      BY <3>1, <3>2
    <3> QED
      BY <3>1, <3>3 DEF Compiling, ImageKept
  <2>3. CASE LoadImage
    <3>1. /\ stage = "built" /\ stage' = "loaded" /\ whole' \in BOOLEAN
          /\ UNCHANGED <<tool, hw, rows, image>>
      BY <2>3 DEF LoadImage, Load
    <3> QED
      BY <3>1 DEF Compiling, ImageKept
  <2>4. CASE \/ UNCHANGED vars
             \/ \E l \in PlainLayers : AddLayer(l)
             \/ \E l \in PlainLayers, t \in Tiles : AddLayerDirect(l, t)
             \/ \E l \in Geometries, m \in Mappings, t \in Tiles : AddLayerDerived(l, m, t)
             \/ \E id \in 0 .. MaxLayers - 1, n \in BlobSizes : AttachWeights(id, n)
             \/ \E n \in BlobSizes : SetFirstLayerInput(n)
             \/ Clear
    BY <2>1, <2>4 DEF AddLayer, AddLayerDirect, AddLayerDerived, AttachWeights,
       SetFirstLayerInput, Clear, ApiCall, vars
  <2>5. CASE \/ \E pe \in PeChoices, d \in {"WS", "IS", "OS"} : Configure(pe, d)
             \/ ResetConfig \/ ClearTypePe \/ ClearIndexPe
             \/ \E a \in BOOLEAN : SetPeGroupingMode(a)
             \/ \E o \in TypeOverrides : SetTypePe(o[1], o[2])
             \/ \E o \in IndexOverrides : SetIndexPe(o[1], o[2])
             \/ \E name \in Networks, cfg \in NetConfigs : Generate(name, cfg)
             \/ GenerateLayer
    BY <2>1, <2>5 DEF Configure, ResetConfig, ClearTypePe, ClearIndexPe, SetPeGroupingMode,
       SetTypePe, SetIndexPe, GeneratorCall, Generate, GenerateLayer
  <2>6. CASE GenerateFromCsv \/ Compile \/ GenerateDone
    BY <2>6, CsvBuilt, CompilerBuilt, GeneratorBuilt DEF Compiling
  <2> QED
    BY <2>2, <2>3, <2>4, <2>5, <2>6 DEF Next, WriteCsv, UseCompiler, UseGenerator
<1> QED
  BY <1>1, <1>2 DEF Compiling

LEMMA CutsAreOK ==
  ASSUME ImageKept
  PROVE  CutsOK
<1> DEFINE es == Link(rows, hw.pe).entries
<1>1. hw \in Hardware /\ rows \in Seq(Rows)
  BY DEF ImageKept
<1>2. hw.pe \in ProcessingElements /\ hw.l2kb \in Nat
  BY <1>1, CompilerAssumption
<1>3. es \in Seq(CsvEntries(Nat, Nat)) /\ Linked = es
  BY <1>1, <1>2, LinkIs DEF Linked
<1> HIDE DEF es
<1>4. ASSUME NEW e \in Range(es), e.spec.type \in TiledTypes
      PROVE  CutOK(LayerCut(e.spec, Most(1, e.row["tile_h"]), Most(1, e.row["tile_w"]), hw.l2kb))
  <2>1. e \in CsvEntries(Nat, Nat)
    BY <1>3 DEF Range
  <2>2. e.row \in Rows /\ LayerFits(e.spec)
    BY <2>1 DEF CsvEntries, AcceptedRows, FittedSpecs
  <2>3. e.row["tile_h"] \in Int /\ e.row["tile_w"] \in Int
    BY <2>2, RowNumbers DEF NumberColumns
  <2>4. Most(1, e.row["tile_h"]) \in Nat /\ Most(1, e.row["tile_w"]) \in Nat
    BY <2>3 DEF Most
  <2> QED
    BY <1>2, <1>4, <2>2, <2>4, LayerCutOK
<1>5. ASSUME NEW c \in CutsInUse PROVE CutOK(c)
  <2>1. PICK e \in {x \in Range(es) : x.spec.type \in TiledTypes} :
          c = LayerCut(e.spec, Most(1, e.row["tile_h"]), Most(1, e.row["tile_w"]), hw.l2kb)
    BY <1>3 DEF CutsInUse
  <2> QED
    BY <1>4, <2>1
<1> QED
  BY <1>5 DEF CutsOK

LEMMA CompilingTyped ==
  ASSUME Compiling
  PROVE  TypeOK
<1>1. CutsOK
  BY CutsAreOK DEF Compiling
<1>2. rows \in BoundedSeq(Rows, MaxRows)
  <2>1. rows \in Seq(Rows) /\ Len(rows) <= MaxRows /\ MaxRows \in Nat
    BY CompilerAssumption DEF Compiling, ImageKept
  <2>2. Len(rows) \in 0 .. MaxRows /\ rows \in [1 .. Len(rows) -> Rows]
    BY <2>1
  <2> QED
    BY <2>1, <2>2 DEF BoundedSeq, SeqOf
<1>3. \A s \in Range(todo) : s.type \in FuncTypes
  <2>1. todo \in Seq(GeneratorSteps)
    BY DEF Compiling, NetOK
  <2>2. \A i \in DOMAIN todo : todo[i] \in GeneratorSteps
    BY <2>1
  <2>3. \A s \in GeneratorSteps : s.type \in FuncTypes
    BY DEF GeneratorSteps, FuncTypes, Windowed
  <2> QED
    BY <2>2, <2>3 DEF Range
<1>4. /\ tool \in {"csv", "api", "generator"} /\ stage \in {"edit", "built", "rejected", "loaded"}
      /\ hw \in Hardware /\ whole \in BOOLEAN /\ (whole => stage = "loaded")
  BY DEF Compiling, ImageKept
<1>5. (stage \in {"built", "loaded"}) = (image # NoImage)
  BY DEF Compiling, ImageKept
<1>6. /\ Len(compiler.layers) <= MaxLayers /\ compiler.fmap \in BlobSizes \cup {0}
      /\ Range(compiler.blobs) \subseteq BlobSizes
  BY DEF Compiling, CompilerKept
<1>7. gen.configured \in BOOLEAN /\ gen.adaptive \in BOOLEAN
  BY DEF Compiling, GeneratorKept
<1>8. net.addr \in 0 .. WordSpace - 1
  BY DEF Compiling, NetOK
<1> QED
  BY <1>1, <1>2, <1>3, <1>4, <1>5, <1>6, <1>7, <1>8 DEF TypeOK

----------------------------------------------------------------------------
(* What a DMA moves is counted *)

\* What a DMA has moved so far, with the lines of the cache anything.
DmaCounts(C) == [cache : C, rd : Nat, wr : Nat, served : Nat]

\* The contents the cache c can have after some of the transfers q.
Contents(m, c, q) ==
  LET V == {c[i] : i \in DOMAIN c} \cup
           {(LastLine(m, t) - ((LastLine(m, t) - i) % LineCount(m))) \div LineCount(m) :
              t \in Range(q), i \in DOMAIN c}
  IN  {c} \cup [DOMAIN c -> V]

LEMMA StoredIs ==
  ASSUME NEW m, NEW c, NEW q, NEW t \in Range(q), NEW d \in Contents(m, c, q)
  PROVE  CacheStore(m, d, t) \in Contents(m, c, q)
<1> DEFINE D == DOMAIN c
           Newest(i) == LastLine(m, t) - ((LastLine(m, t) - i) % LineCount(m))
           V == {c[i] : i \in DOMAIN c} \cup
                {(LastLine(m, x) - ((LastLine(m, x) - i) % LineCount(m))) \div LineCount(m) :
                   x \in Range(q), i \in DOMAIN c}
           e == CacheStore(m, d, t)
<1>1. Contents(m, c, q) = {c} \cup [D -> V]
  BY DEF Contents
<1>2. DOMAIN d = D /\ \A i \in D : d[i] \in V
  <2>1. CASE d = c
    BY <2>1
  <2>2. CASE d \in [D -> V]
    <3> HIDE DEF D, V
    <3> QED
      BY <2>2
  <2> QED
    BY <1>1, <2>1, <2>2
<1>3. e = [i \in D |-> IF Newest(i) >= FirstLine(m, t) THEN Newest(i) \div LineCount(m) ELSE d[i]]
  BY <1>2 DEF CacheStore
<1>4. \A i \in D : Newest(i) \div LineCount(m) \in V
  OBVIOUS
<1> HIDE DEF e, D, V, Newest
<1>5. e \in [D -> V]
  BY <1>2, <1>3, <1>4
<1> QED
  BY <1>1, <1>5 DEF e

LEMMA RecordIs ==
  ASSUME NEW e, DOMAIN e = {"cache", "rd", "wr", "served"}, e = [x \in DOMAIN e |-> e[x]]
  PROVE  e = [cache |-> e.cache, rd |-> e.rd, wr |-> e.wr, served |-> e.served]
OBVIOUS

LEMMA StaysMoved ==
  ASSUME NEW C, NEW acc \in DmaCounts(C), NEW n \in Nat, NEW d \in C
  PROVE  /\ [acc EXCEPT !.rd = n] \in DmaCounts(C)
         /\ [acc EXCEPT !.served = n] \in DmaCounts(C)
         /\ [acc EXCEPT !.rd = n, !.cache = d] \in DmaCounts(C)
         /\ [acc EXCEPT !.wr = n, !.cache = d] \in DmaCounts(C)
<1>1. PICK c \in C, r \in Nat, w \in Nat, v \in Nat :
        acc = [cache |-> c, rd |-> r, wr |-> w, served |-> v]
  BY DEF DmaCounts
<1>11. DOMAIN acc = {"cache", "rd", "wr", "served"}
  BY <1>1
<1>12. [acc EXCEPT !.rd = n] = [cache |-> c, rd |-> n, wr |-> w, served |-> v]
  BY <1>1
<1>13. [acc EXCEPT !.served = n] = [cache |-> c, rd |-> r, wr |-> w, served |-> n]
  BY <1>1
<1>14. [acc EXCEPT !.rd = n, !.cache = d] = [cache |-> d, rd |-> n, wr |-> w, served |-> v]
  <2> DEFINE e == [acc EXCEPT !.rd = n, !.cache = d]
  <2>1. DOMAIN e = {"cache", "rd", "wr", "served"} /\ e = [x \in DOMAIN e |-> e[x]]
    BY <1>1, <1>11
  <2>2. e.cache = d
    BY <1>1, <1>11
  <2>3. e.rd = n
    BY <1>1, <1>11
  <2>4. e.wr = w
    BY <1>1, <1>11
  <2>5. e.served = v
    BY <1>1, <1>11
  <2> HIDE DEF e
  <2>6. e = [cache |-> d, rd |-> n, wr |-> w, served |-> v]
    BY <2>1, <2>2, <2>3, <2>4, <2>5, RecordIs
  <2> QED
    BY <2>6 DEF e
<1>15. [acc EXCEPT !.wr = n, !.cache = d] = [cache |-> d, rd |-> r, wr |-> n, served |-> v]
  <2> DEFINE e == [acc EXCEPT !.wr = n, !.cache = d]
  <2>1. DOMAIN e = {"cache", "rd", "wr", "served"} /\ e = [x \in DOMAIN e |-> e[x]]
    BY <1>1, <1>11
  <2>2. e.cache = d
    BY <1>1, <1>11
  <2>3. e.rd = r
    BY <1>1, <1>11
  <2>4. e.wr = n
    BY <1>1, <1>11
  <2>5. e.served = v
    BY <1>1, <1>11
  <2> HIDE DEF e
  <2>6. e = [cache |-> d, rd |-> r, wr |-> n, served |-> v]
    BY <2>1, <2>2, <2>3, <2>4, <2>5, RecordIs
  <2> QED
    BY <2>6 DEF e
<1>6. /\ [cache |-> c, rd |-> n, wr |-> w, served |-> v] \in DmaCounts(C)
      /\ [cache |-> c, rd |-> r, wr |-> w, served |-> n] \in DmaCounts(C)
      /\ [cache |-> d, rd |-> n, wr |-> w, served |-> v] \in DmaCounts(C)
      /\ [cache |-> d, rd |-> r, wr |-> n, served |-> v] \in DmaCounts(C)
  BY <1>1 DEF DmaCounts
<1> QED
  BY <1>12, <1>13, <1>14, <1>15, <1>6

LEMMA ReadIs ==
  ASSUME NEW m, NEW muted, NEW c, NEW q, NEW t \in Range(q), t.size \in Nat,
         NEW acc \in DmaCounts(Contents(m, c, q))
  PROVE  /\ Read(m, muted, acc, t) \in DmaCounts(Contents(m, c, q))
         /\ Write(m, muted, acc, t) \in DmaCounts(Contents(m, c, q))
<1> DEFINE C == Contents(m, c, q)
           stored == CacheStore(m, acc.cache, t)
<1>1. /\ acc = [cache |-> acc.cache, rd |-> acc.rd, wr |-> acc.wr, served |-> acc.served]
      /\ acc.cache \in C /\ acc.rd \in Nat /\ acc.wr \in Nat /\ acc.served \in Nat
  BY DEF DmaCounts
<1>2. stored \in C
  BY <1>1, StoredIs
<1>3. acc.rd + t.size \in Nat /\ acc.wr + t.size \in Nat /\ acc.served + t.size \in Nat
  BY <1>1
<1> HIDE DEF C
<1> DEFINE more == acc.rd + t.size
           out  == acc.wr + t.size
           hit  == acc.served + t.size
           x == acc.cache
<1>4. \/ Read(m, muted, acc, t) = [acc EXCEPT !.rd = more]
      \/ Read(m, muted, acc, t) = [acc EXCEPT !.served = hit]
      \/ Read(m, muted, acc, t) = [acc EXCEPT !.rd = more, !.cache = stored]
  BY DEF Read
<1>5. \/ Write(m, muted, acc, t) = [acc EXCEPT !.wr = out, !.cache = x]
      \/ Write(m, muted, acc, t) = [acc EXCEPT !.wr = out, !.cache = stored]
  BY DEF Write
<1>6. x \in C /\ more \in Nat /\ out \in Nat /\ hit \in Nat /\ acc \in DmaCounts(C)
  BY <1>1, <1>3 DEF C
<1> HIDE DEF stored, more, out, hit, x
<1>8. Read(m, muted, acc, t) \in DmaCounts(C)
  <2>1. /\ [acc EXCEPT !.rd = more] \in DmaCounts(C) /\ [acc EXCEPT !.served = hit] \in DmaCounts(C)
        /\ [acc EXCEPT !.rd = more, !.cache = stored] \in DmaCounts(C)
    BY <1>2, <1>6, StaysMoved
  <2> QED
    BY ONLY <1>4, <2>1
<1>9. Write(m, muted, acc, t) \in DmaCounts(C)
  <2>1. [acc EXCEPT !.wr = out, !.cache = x] \in DmaCounts(C) /\ [acc EXCEPT !.wr = out, !.cache = stored] \in DmaCounts(C)
    BY <1>2, <1>6, StaysMoved
  <2> QED
    BY ONLY <1>5, <2>1
<1> QED
  BY <1>8, <1>9 DEF C

\* A number of transfers, one after another, as Reader or as writer.
LEMMA AllMoved ==
  ASSUME NEW m, NEW muted, NEW c, NEW T, \A t \in T : t.size \in Nat, NEW q \in Seq(T),
         NEW acc \in DmaCounts(Contents(m, c, q))
  PROVE  /\ ReadAll(m, muted, acc, q) \in DmaCounts(Contents(m, c, q))
         /\ WriteAll(m, muted, acc, q) \in DmaCounts(Contents(m, c, q))
<1> DEFINE S == DmaCounts(Contents(m, c, q))
           z == Len(q)
<1>1. z \in Nat /\ \A n \in 1 .. z : q[n] \in Range(q) /\ q[n].size \in Nat
  BY DEF Range
<1> HIDE DEF z
<1>2. ReadAll(m, muted, acc, q) \in S
  <2> DEFINE Body(f) == [n \in 0 .. z |-> IF n = 0 THEN acc ELSE Read(m, muted, f[n - 1], q[n])]
             after == CHOOSE f : f = Body(f)
             g == [n \in 1 .. z |-> [s \in S |-> Read(m, muted, s, q[n])]]
  <2>1. ReadAll(m, muted, acc, q) = after[z]
    BY DEF ReadAll, z
  <2>2. \A n \in 1 .. z : \A s \in S : Read(m, muted, s, q[n]) \in S
    BY <1>1, ReadIs
  <2> HIDE DEF S
  <2>3. g \in [1 .. z -> [S -> S]]
    BY <2>2
  <2>4. acc \in S
    BY DEF S
  <2>5. PICK u : Composes(u, S, acc, g, z)
    <3> HIDE DEF g, Body
    <3> QED
      BY <1>1, <2>3, <2>4, StepsExist
  <2>6. /\ u \in [0 .. z -> S] /\ u[0] = acc
        /\ \A n \in 1 .. z : u[n] = Read(m, muted, u[n - 1], q[n])
    <3>1. u \in [0 .. z -> S] /\ u[0] = acc /\ \A n \in 1 .. z : u[n] = g[n][u[n - 1]]
      BY <2>5 DEF Composes
    <3>2. \A n \in 1 .. z : n - 1 \in 0 .. z /\ u[n - 1] \in S
      BY <1>1, <3>1
    <3> QED
      BY <3>1, <3>2
  <2>7. u = Body(u)
    <3>1. ASSUME NEW n \in 0 .. z PROVE u[n] = IF n = 0 THEN acc ELSE Read(m, muted, u[n - 1], q[n])
      <4>1. CASE n = 0
        BY <2>6, <4>1
      <4>2. CASE n # 0
        <5>1. n \in 1 .. z
          BY <1>1, <4>2
        <5> QED
          BY <2>6, <4>2, <5>1
      <4> QED
        BY <4>1, <4>2
    <3>2. u = [n \in 0 .. z |-> u[n]]
      BY <2>6
    <3> QED
      BY <3>1, <3>2
  <2>8. after = Body(after)
    <3> HIDE DEF Body
    <3> QED
      BY <2>7 DEF after
  <2> HIDE DEF after
  <2>9. \A n \in 0 .. z : after[n] = IF n = 0 THEN acc ELSE Read(m, muted, after[n - 1], q[n])
    BY <2>8
  <2>10. after[0] \in S
    BY <1>1, <2>4, <2>9
  <2>11. ASSUME NEW n \in 1 .. z, after[n - 1] \in S PROVE after[n] \in S
    <3>1. n \in 0 .. z /\ n # 0
      BY <1>1
    <3> QED
      BY <2>2, <2>9, <2>11, <3>1
  <2> HIDE DEF Body
  <2>12. \A n \in 0 .. z : after[n] \in S
    BY <1>1, <2>10, <2>11, StaysIn
  <2> QED
    BY <1>1, <2>1, <2>12
<1>3. WriteAll(m, muted, acc, q) \in S
  <2> DEFINE Body(f) == [n \in 0 .. z |-> IF n = 0 THEN acc ELSE Write(m, muted, f[n - 1], q[n])]
             after == CHOOSE f : f = Body(f)
             g == [n \in 1 .. z |-> [s \in S |-> Write(m, muted, s, q[n])]]
  <2>1. WriteAll(m, muted, acc, q) = after[z]
    BY DEF WriteAll, z
  <2>2. \A n \in 1 .. z : \A s \in S : Write(m, muted, s, q[n]) \in S
    BY <1>1, ReadIs
  <2> HIDE DEF S
  <2>3. g \in [1 .. z -> [S -> S]]
    BY <2>2
  <2>4. acc \in S
    BY DEF S
  <2>5. PICK u : Composes(u, S, acc, g, z)
    <3> HIDE DEF g, Body
    <3> QED
      BY <1>1, <2>3, <2>4, StepsExist
  <2>6. /\ u \in [0 .. z -> S] /\ u[0] = acc
        /\ \A n \in 1 .. z : u[n] = Write(m, muted, u[n - 1], q[n])
    <3>1. u \in [0 .. z -> S] /\ u[0] = acc /\ \A n \in 1 .. z : u[n] = g[n][u[n - 1]]
      BY <2>5 DEF Composes
    <3>2. \A n \in 1 .. z : n - 1 \in 0 .. z /\ u[n - 1] \in S
      BY <1>1, <3>1
    <3> QED
      BY <3>1, <3>2
  <2>7. u = Body(u)
    <3>1. ASSUME NEW n \in 0 .. z PROVE u[n] = IF n = 0 THEN acc ELSE Write(m, muted, u[n - 1], q[n])
      <4>1. CASE n = 0
        BY <2>6, <4>1
      <4>2. CASE n # 0
        <5>1. n \in 1 .. z
          BY <1>1, <4>2
        <5> QED
          BY <2>6, <4>2, <5>1
      <4> QED
        BY <4>1, <4>2
    <3>2. u = [n \in 0 .. z |-> u[n]]
      BY <2>6
    <3> QED
      BY <3>1, <3>2
  <2>8. after = Body(after)
    <3> HIDE DEF Body
    <3> QED
      BY <2>7 DEF after
  <2> HIDE DEF after
  <2>9. \A n \in 0 .. z : after[n] = IF n = 0 THEN acc ELSE Write(m, muted, after[n - 1], q[n])
    BY <2>8
  <2>10. after[0] \in S
    BY <1>1, <2>4, <2>9
  <2>11. ASSUME NEW n \in 1 .. z, after[n - 1] \in S PROVE after[n] \in S
    <3>1. n \in 0 .. z /\ n # 0
      BY <1>1
    <3> QED
      BY <2>2, <2>9, <2>11, <3>1
  <2> HIDE DEF Body
  <2>12. \A n \in 0 .. z : after[n] \in S
    BY <1>1, <2>10, <2>11, StaysIn
  <2> QED
    BY <1>1, <2>1, <2>12
<1> QED
  BY <1>2, <1>3

----------------------------------------------------------------------------
(* What a streamed layer moves *)

\* Transfers of some bytes.
Transfers == {t \in [addr : Int, size : Nat, off : Int] : TRUE}

LEMMA ImageReadsAre ==
  ASSUME NEW m \in Machines, NEW img, img.total \in Int
  PROVE  ImageReads(m, img) \in Seq(Transfers)
<1> DEFINE body == img.total - HeaderBytes
           gb == GbBytes(m)
           n == CeilDiv(body, gb)
           Piece(k) == [addr |-> DnnBase + HeaderBytes + (k - 1) * gb,
                        size |-> Least(gb, body - (k - 1) * gb), off |-> 0]
           head == <<[addr |-> DnnBase, size |-> HeaderBytes, off |-> 0]>>
           rest == [k \in 1 .. n |-> Piece(k)]
<1>1. body \in Int /\ gb \in Nat \ {0} /\ DnnBase \in Nat /\ HeaderBytes = 32
  BY Sizes, ExecutionAssumption DEF HeaderBytes
<1>2. ImageReads(m, img) = head \o rest
  BY DEF ImageReads
<1>3. n \in Int
  <2> HIDE DEF body, gb
  <2>1. (body + gb - 1) \div gb \in Int
    BY <1>1
  <2> QED
    BY <2>1 DEF CeilDiv
<1> HIDE DEF body, gb
<1>4. ASSUME NEW k \in 1 .. n PROVE Piece(k) \in Transfers
  <2> DEFINE skipped == (k - 1) * gb
  <2>1. k \in Nat \ {0} /\ skipped \in Nat /\ skipped <= body
    BY <1>1, <1>4, PiecesWithin
  <2> HIDE DEF skipped
  <2>2. Least(gb, body - skipped) \in Nat
    BY <1>1, <2>1 DEF Least
  <2>3. DnnBase + HeaderBytes + skipped \in Int
    BY <1>1, <2>1
  <2>4. Piece(k) = [addr |-> DnnBase + HeaderBytes + skipped, size |-> Least(gb, body - skipped), off |-> 0]
    BY DEF skipped
  <2> QED
    BY <2>2, <2>3, <2>4 DEF Transfers
<1>5. head \in Seq(Transfers)
  <2>1. [addr |-> DnnBase, size |-> HeaderBytes, off |-> 0] \in Transfers
    BY <1>1 DEF Transfers
  <2> QED
    BY <2>1
<1> HIDE DEF n, Piece
<1>6. rest \in Seq(Transfers)
  <2> DEFINE T == Transfers
  <2> HIDE DEF T
  <2>1. \A k \in 1 .. n : Piece(k) \in T
    BY <1>4 DEF T
  <2>2. CASE n \in Nat
    <3>1. rest \in Seq(T)
      BY <2>1, <2>2
    <3> QED
      BY <3>1 DEF T
  <2>3. CASE n \notin Nat
    <3>1. 1 .. n = {}
      BY <1>3, <2>3
    <3>2. rest = <<>>
      BY <3>1
    <3> HIDE DEF rest
    <3>3. rest \in Seq(T)
      BY <3>2
    <3> QED
      BY <3>3 DEF T
  <2> QED
    BY <2>2, <2>3
<1> HIDE DEF head, rest
<1> QED
  BY <1>2, <1>5, <1>6

\* What a START reads of the image.
LEMMA ImageRead ==
  ASSUME NEW m \in Machines, NEW img, img.total \in Int, NEW muted, NEW c,
         NEW dma, dma = ReadAll(m, muted, Untransferred(c), ImageReads(m, img))
  PROVE  dma.rd \in Nat
<1> DEFINE q == ImageReads(m, img)
           acc == Untransferred(c)
<1>1. q \in Seq(Transfers) /\ \A t \in Transfers : t.size \in Nat
  BY ImageReadsAre DEF Transfers
<1>2. acc \in DmaCounts(Contents(m, c, q))
  BY DEF Untransferred, DmaCounts, Contents
<1> HIDE DEF q, acc
<1>3. ReadAll(m, muted, acc, q) \in DmaCounts(Contents(m, c, q))
  BY <1>1, <1>2, AllMoved
<1> QED
  BY <1>3 DEF DmaCounts, q, acc

\* What a streamed packet moves.
LEMMA StreamMoved ==
  ASSUME NEW m \in Machines, NEW muted, NEW c, NEW reads \in Seq(Fitting(m)),
         NEW writes \in Seq(Fitting(m)),
         NEW dma, dma = WriteAll(m, muted, ReadAll(m, muted, Untransferred(c), reads), writes)
  PROVE  dma.rd \in Nat /\ dma.wr \in Nat
<1> DEFINE acc == Untransferred(c)
           mid == ReadAll(m, muted, acc, reads)
<1>1. \A t \in Fitting(m) : t.size \in Nat
  BY DEF Fitting
<1>2. acc \in DmaCounts(Contents(m, c, reads))
  BY DEF Untransferred, DmaCounts, Contents
<1>3. mid \in DmaCounts(Contents(m, c, reads))
  <2> HIDE DEF acc
  <2> QED
    BY <1>1, <1>2, AllMoved
<1> HIDE DEF acc, mid
<1>4. mid \in DmaCounts(Contents(m, mid.cache, writes))
  BY <1>3 DEF DmaCounts, Contents
<1>5. WriteAll(m, muted, mid, writes) \in DmaCounts(Contents(m, mid.cache, writes))
  BY <1>1, <1>4, AllMoved
<1> QED
  BY <1>5 DEF DmaCounts, acc, mid

LEMMA SqueezedNat ==
  ASSUME NEW n \in Nat, NEW ratio \in Nat
  PROVE  Squeezed(n, ratio) \in Nat
<1>1. CASE ratio <= 1 \/ n = 0
  BY <1>1 DEF Squeezed
<1>2. CASE ~(ratio <= 1 \/ n = 0)
  <2> DEFINE a == 2 * n + ratio
             b == 2 * ratio
  <2>1. a \in Nat /\ b \in Nat \ {0}
    BY <1>2
  <2> HIDE DEF a, b
  <2>2. a \div b \in Nat
    BY <2>1
  <2>3. Most(1, a \div b) \in Nat
    BY <2>2 DEF Most
  <2> QED
    BY <1>2, <2>3 DEF Squeezed, a, b
<1> QED
  BY <1>1, <1>2

LEMMA KeptNat ==
  ASSUME NEW l, l.skip \in 0 .. 1000, NEW n \in Nat
  PROVE  Kept(l, n) \in Nat
<1> DEFINE left == 1000 - l.skip
           a == n * left
<1>1. a \in Nat
  <2>1. left \in Nat
    <3> DEFINE k == l.skip
    <3>1. k \in 0 .. 1000
      OBVIOUS
    <3> HIDE DEF k
    <3>2. 1000 - k \in Nat
      BY <3>1
    <3> QED
      BY <3>2 DEF k
  <2> HIDE DEF left
  <2> QED
    BY <2>1
<1> HIDE DEF a
<1>2. a \div 1000 \in Nat
  BY <1>1
<1>3. Most(1, a \div 1000) \in Nat
  BY <1>2 DEF Most
<1> QED
  BY <1>3 DEF Kept, a, left

\* The bytes of a transaction, whatever the compression and the skipping.
LEMMA TxnBytes ==
  ASSUME NEW m \in Machines, NEW l, LayerOK(l), NEW cut, NEW entry,
         NEW low, NEW in \in Nat, NEW wt \in Nat, NEW out \in Nat, NEW ops, NEW i, NEW w, NEW p,
         low = [inOps |-> i, wtOps |-> w, outOps |-> ops, passes |-> p, inBytes |-> in, wtBytes |-> wt,
                outBytes |-> out, spillRd |-> 0, spillWr |-> 0],
         TileOutBytes(m, cut, entry.tile) \in Nat, entry.passes \in Nat \ {0},
         NEW t, t = Spilled(m, cut, entry, Boundary(m, l, low))
  PROVE  /\ t.inBytes \in Nat /\ t.wtBytes \in Nat /\ t.outBytes \in Nat /\ t.spillWr \in Nat
         /\ t = [x \in DOMAIN t |-> t[x]] /\ DOMAIN t = DOMAIN low
<1> DEFINE sIn == Squeezed(in, m.ratio.in)
           sWt == Squeezed(wt, m.ratio.wt)
           sOut == Squeezed(out, m.ratio.out)
           s == [low EXCEPT !.inBytes = Squeezed(@, m.ratio.in), !.wtBytes = Squeezed(@, m.ratio.wt),
                            !.outBytes = Squeezed(@, m.ratio.out)]
           kp == [s EXCEPT !.inBytes = Kept(l, @)]
           b == Boundary(m, l, low)
           D == {"inOps", "wtOps", "outOps", "passes", "inBytes", "wtBytes", "outBytes", "spillRd", "spillWr"}
<1>1. l.skip \in 0 .. 1000
  BY DEF LayerOK
<1>2. sIn \in Nat /\ sWt \in Nat /\ sOut \in Nat
  <2>1. m.ratio.in \in Nat /\ m.ratio.wt \in Nat /\ m.ratio.out \in Nat
    BY ExecutionAssumption
  <2> QED
    BY <2>1, SqueezedNat
<1>3. low.inBytes = in /\ low.wtBytes = wt /\ low.outBytes = out /\ DOMAIN low = D
  OBVIOUS
<1>4. s.inBytes = sIn /\ s.wtBytes = sWt /\ s.outBytes = sOut /\ DOMAIN s = D
  BY <1>3
<1> HIDE DEF s, sIn, sWt, sOut
<1>5. kp.inBytes = Kept(l, sIn) /\ kp.wtBytes = sWt /\ kp.outBytes = sOut /\ DOMAIN kp = D
  BY <1>4
<1> HIDE DEF kp
<1>6. b = IF l.skip = 0 THEN s
          ELSE IF m.sparsity # "remove" THEN kp
          ELSE [kp EXCEPT !.wtBytes = Kept(l, @), !.outOps = Kept(l, @)]
  BY DEF Boundary, s, kp
<1>7. Kept(l, sIn) \in Nat /\ Kept(l, sWt) \in Nat
  BY <1>1, <1>2, KeptNat
<1>8. b.inBytes \in Nat /\ b.wtBytes \in Nat /\ b.outBytes \in Nat /\ DOMAIN b = D
  <2> HIDE DEF b, D
  <2>1. CASE l.skip = 0
    BY <1>2, <1>4, <1>6, <2>1
  <2>2. CASE l.skip # 0 /\ m.sparsity # "remove"
    BY <1>2, <1>5, <1>6, <1>7, <2>2
  <2>3. CASE l.skip # 0 /\ m.sparsity = "remove"
    <3>1. b = [kp EXCEPT !.wtBytes = Kept(l, @), !.outOps = Kept(l, @)]
      BY <1>6, <2>3
    <3>2. b.inBytes = Kept(l, sIn) /\ b.wtBytes = Kept(l, sWt) /\ b.outBytes = sOut /\ DOMAIN b = D
      BY <1>5, <3>1 DEF D
    <3> QED
      BY <1>2, <1>7, <3>2
  <2> QED
    BY <2>1, <2>2, <2>3
<1> HIDE DEF b
<1> DEFINE o == TileOutBytes(m, cut, entry.tile)
           n == IF m.spill /\ o > PsumStore(m) THEN (entry.passes - 1) * o ELSE 0
<1>9. n \in Nat
  <2>1. entry.passes - 1 \in Nat /\ o \in Nat
    OBVIOUS
  <2> HIDE DEF o
  <2>2. (entry.passes - 1) * o \in Nat
    BY <2>1, Products
  <2> QED
    BY <2>2
<1>10. t = [b EXCEPT !.spillRd = n, !.spillWr = n]
  BY DEF Spilled, b
<1> HIDE DEF n
<1>11. /\ t.inBytes = b.inBytes /\ t.wtBytes = b.wtBytes /\ t.outBytes = b.outBytes /\ t.spillWr = n
       /\ DOMAIN t = D
  BY <1>8, <1>10
<1>12. t = [x \in DOMAIN t |-> t[x]]
  BY <1>8, <1>10
<1> QED
  BY <1>3, <1>8, <1>9, <1>11, <1>12

----------------------------------------------------------------------------
(* What a tiled layer moves *)

\* The bytes a tiled layer moves are no less than none.
Bytes(txns, D) ==
  /\ DOMAIN txns = D
  /\ \A k \in D : /\ txns[k].inBytes \in Nat /\ txns[k].wtBytes \in Nat
                  /\ txns[k].outBytes \in Nat /\ txns[k].spillWr \in Nat
                  /\ txns[k] = [x \in DOMAIN txns[k] |-> txns[k][x]] /\ "inBytes" \in DOMAIN txns[k]

LEMMA LayerBytesNat ==
  ASSUME NEW m \in Machines, NEW l, LayerOK(l), NEW cut, cut = RunCut(m, l),
         NEW sched, sched = Schedule(cut), NEW kept,
         NEW txns, txns = Transactions(m, l, cut, sched, kept)
  PROVE  Bytes(txns, TileIds(cut))
<1> DEFINE passes == Most(1, l.lat.fO \div Volume(cut.out))
           lowered == Lower(sched, kept, l.input.words, l.lat.fW, m.elem, passes)
<1>1. CutOK(cut)
  BY RunCutOK
<1>2. DOMAIN sched = TileIds(cut)
  BY DEF Schedule
<1>3. DOMAIN txns = TileIds(cut) /\
      \A k \in TileIds(cut) : txns[k] = Spilled(m, cut, sched[k], Boundary(m, l, lowered[k]))
  BY <1>2 DEF Transactions
<1>4. ASSUME NEW k \in TileIds(cut)
      PROVE  /\ txns[k].inBytes \in Nat /\ txns[k].wtBytes \in Nat
             /\ txns[k].outBytes \in Nat /\ txns[k].spillWr \in Nat
             /\ txns[k] = [x \in DOMAIN txns[k] |-> txns[k][x]] /\ "inBytes" \in DOMAIN txns[k]
  <2> DEFINE e   == sched[k]
             in  == StreamedOperands(kept.input, k, l.input.words, e.traffic.input)
             wt  == StreamedOperands(kept.weight, k, l.lat.fW, e.traffic.kernel)
             out == e.traffic.output
             elem == Most(1, m.elem)
             ops == out * Most(1, passes)
             bIn == in * elem
             bWt == wt * elem
             bOut == out * elem
             low == lowered[k]
  <2>1. low = [inOps |-> in, wtOps |-> wt, outOps |-> ops, passes |-> e.passes,
               inBytes |-> bIn, wtBytes |-> bWt, outBytes |-> bOut, spillRd |-> 0, spillWr |-> 0]
    BY <1>2 DEF Lower, TileTxn
  <2>2. e.traffic.output \in Nat /\ e.traffic.input \in Nat /\ e.traffic.kernel \in Nat /\ e.passes \in Nat \ {0}
    BY <1>1, ScheduleMoves
  <2>3. e.tile = Tile(cut, k)
    BY DEF Schedule
  <2>4. l.input.words \in Nat /\ l.lat.fW \in Nat /\ elem \in Nat
    BY LayerSizes, MachineSizes DEF Most
  <2>5. TileOutBytes(m, cut, e.tile) \in Nat
    <3> DEFINE t == Tile(cut, k)
    <3>1. t.h \in Nat /\ t.w \in Nat /\ cut.out.c \in Nat
      BY <1>1, TileExtents DEF CutOK
    <3> HIDE DEF t
    <3>2. t.h * t.w \in Nat
      BY <3>1, Products
    <3>3. t.h * t.w * cut.out.c \in Nat
      BY <3>1, <3>2, Products
    <3>4. Physical(m, TileOutputWords(cut, t)) \in Nat
      BY <3>3, Sizes DEF TileOutputWords
    <3> QED
      BY <2>3, <3>4 DEF TileOutBytes, t
  <2> HIDE DEF e, elem
  <2>6. in \in Nat /\ wt \in Nat /\ out \in Nat
    BY <2>2, <2>4 DEF StreamedOperands
  <2> HIDE DEF in, wt, out, ops
  <2>7. bIn \in Nat /\ bWt \in Nat /\ bOut \in Nat
    BY <2>4, <2>6, Products
  <2>8. txns[k] = Spilled(m, cut, e, Boundary(m, l, low))
    BY <1>3 DEF e
  <2> HIDE DEF bIn, bWt, bOut, low
  <2> DEFINE t == txns[k]
  <2> HIDE DEF t
  <2>9. t = Spilled(m, cut, e, Boundary(m, l, low))
    BY <2>8 DEF t
  <2>10. /\ t.inBytes \in Nat /\ t.wtBytes \in Nat /\ t.outBytes \in Nat /\ t.spillWr \in Nat
         /\ t = [x \in DOMAIN t |-> t[x]] /\ DOMAIN t = DOMAIN low
    BY <2>1, <2>2, <2>5, <2>7, <2>9, TxnBytes
  <2>11. "inBytes" \in DOMAIN low
    BY <2>1
  <2> QED
    BY <2>10, <2>11 DEF t
<1> QED
  BY <1>3, <1>4 DEF Bytes

\* Forwarding leaves of the bytes of the input none or all of them.
LEMMA ForwardedBytes ==
  ASSUME NEW D, IsFiniteSet(D), NEW txns, Bytes(txns, D), NEW forward,
         NEW s, s = Forwarded(txns, forward)
  PROVE  Bytes(s.txns, D) /\ s.forwarded \in Nat
<1>1. /\ DOMAIN s.txns = DOMAIN txns
      /\ s.txns = IF forward THEN [k \in DOMAIN txns |-> [txns[k] EXCEPT !.inBytes = 0]] ELSE txns
      /\ s.forwarded = IF forward THEN SumFunction([k \in DOMAIN txns |-> txns[k].inBytes]) ELSE 0
  BY ForwardedIs
<1>2. DOMAIN txns = D
  BY DEF Bytes
<1>3. SumFunction([k \in DOMAIN txns |-> txns[k].inBytes]) \in Nat
  <2> DEFINE F == [k \in DOMAIN txns |-> txns[k].inBytes]
  <2>1. DOMAIN F = D /\ \A k \in D : F[k] \in Nat
    BY DEF Bytes
  <2> HIDE DEF F
  <2>2. SumFunction(F) \in Nat
    BY <2>1, SumNat DEF SumFunction
  <2> QED
    BY <2>2 DEF F
<1>4. CASE ~forward
  BY <1>1, <1>4
<1>5. CASE forward
  <2>1. s.forwarded \in Nat
    BY <1>1, <1>3, <1>5
  <2>2. ASSUME NEW k \in D
        PROVE  /\ s.txns[k].inBytes \in Nat /\ s.txns[k].wtBytes \in Nat
               /\ s.txns[k].outBytes \in Nat /\ s.txns[k].spillWr \in Nat
               /\ s.txns[k] = [x \in DOMAIN s.txns[k] |-> s.txns[k][x]]
               /\ "inBytes" \in DOMAIN s.txns[k]
    <3> DEFINE t == txns[k]
               u == s.txns[k]
    <3>1. u = [t EXCEPT !.inBytes = 0]
      BY <1>1, <1>2, <1>5
    <3>2. /\ t.wtBytes \in Nat /\ t.outBytes \in Nat /\ t.spillWr \in Nat
          /\ t = [x \in DOMAIN t |-> t[x]] /\ "inBytes" \in DOMAIN t
      BY DEF Bytes
    <3> HIDE DEF t, u
    <3>3. /\ u.inBytes = 0 /\ u.wtBytes = t.wtBytes /\ u.outBytes = t.outBytes /\ u.spillWr = t.spillWr
          /\ DOMAIN u = DOMAIN t /\ u = [x \in DOMAIN u |-> u[x]]
      BY <3>1, <3>2
    <3> QED
      BY <3>2, <3>3 DEF u
  <2>3. DOMAIN s.txns = D
    BY <1>1, <1>2
  <2> QED
    BY <2>1, <2>2, <2>3 DEF Bytes
<1> QED
  BY <1>4, <1>5

LEMMA TotalNat ==
  ASSUME NEW m \in Machines, NEW l, LayerOK(l), NEW held,
         NEW x, x = Total(l.lat, LayerSchedule(m, l, held))
  PROVE  x.in \in Nat /\ x.wt \in Nat /\ x.out \in Nat /\ x.spill \in Nat /\ x.forwarded \in Nat
<1> DEFINE cut == RunCut(m, l)
           sched == Schedule(cut)
           ws == KernelWorkingSet(m, cut, sched)
           kept == KeptResidency(m, l, InputWorkingSet(m, cut, sched), ws)
           txns == Transactions(m, l, cut, sched, kept)
           s == LayerSchedule(m, l, held)
           D == TileIds(cut)
           forward == Forwardable(m, l, held, kept, ws)
<1>1. CutOK(cut) /\ IsFiniteSet(D)
  BY RunCutOK, TilesFinite
<1>2. Bytes(txns, D)
  <2>1. cut = RunCut(m, l) /\ sched = Schedule(cut)
    OBVIOUS
  <2> HIDE DEF cut, sched, kept
  <2> QED
    BY <2>1, LayerBytesNat
<1>3. s = Forwarded(txns, forward)
  <2>1. cut = RunCut(m, l) /\ sched = Schedule(cut)
    OBVIOUS
  <2> HIDE DEF cut, sched
  <2> QED
    BY <2>1, RunScheduleIs
<1>4. x = Total(l.lat, s)
  OBVIOUS
<1> HIDE DEF txns, forward, s, D
<1>5. Bytes(s.txns, D) /\ s.forwarded \in Nat
  BY <1>1, <1>2, <1>3, ForwardedBytes
<1>6. /\ x.forwarded = s.forwarded
      /\ x.in = SumFunction([k \in DOMAIN s.txns |-> s.txns[k].inBytes])
      /\ x.wt = SumFunction([k \in DOMAIN s.txns |-> s.txns[k].wtBytes])
      /\ x.out = SumFunction([k \in DOMAIN s.txns |-> s.txns[k].outBytes])
      /\ x.spill = SumFunction([k \in DOMAIN s.txns |-> s.txns[k].spillWr])
  BY <1>4 DEF Total, TxnTotal
<1>7. DOMAIN s.txns = D /\ \A k \in D : /\ s.txns[k].inBytes \in Nat /\ s.txns[k].wtBytes \in Nat
                                       /\ s.txns[k].outBytes \in Nat /\ s.txns[k].spillWr \in Nat
  BY <1>5 DEF Bytes
<1> DEFINE fIn == [k \in DOMAIN s.txns |-> s.txns[k].inBytes]
           fWt == [k \in DOMAIN s.txns |-> s.txns[k].wtBytes]
           fOut == [k \in DOMAIN s.txns |-> s.txns[k].outBytes]
           fSpill == [k \in DOMAIN s.txns |-> s.txns[k].spillWr]
<1>8. /\ DOMAIN fIn = D /\ DOMAIN fWt = D /\ DOMAIN fOut = D /\ DOMAIN fSpill = D
      /\ \A k \in D : fIn[k] \in Nat /\ fWt[k] \in Nat /\ fOut[k] \in Nat /\ fSpill[k] \in Nat
  BY <1>7
<1>9. x.in = SumFunction(fIn) /\ x.wt = SumFunction(fWt) /\ x.out = SumFunction(fOut) /\ x.spill = SumFunction(fSpill)
  BY <1>6
<1> HIDE DEF fIn, fWt, fOut, fSpill
<1>10. /\ SumFunction(fIn) \in Nat /\ SumFunction(fWt) \in Nat
       /\ SumFunction(fOut) \in Nat /\ SumFunction(fSpill) \in Nat
  BY <1>1, <1>8, SumNat DEF SumFunction
<1> QED
  BY <1>5, <1>6, <1>9, <1>10

----------------------------------------------------------------------------
(* What the executor's control keeps *)

\* The NPU between power-on and the next START, and what it has counted.
Controlled ==
  /\ LoaderOK
  /\ machine \in Machines \cup {Off} /\ (machine = Off) = (npu = "off")
  /\ npu \in {"off", "idle", "running", "done", "fatal", "ahead"} /\ streamsDone \in BOOLEAN
  /\ next \in 0 .. Len(loader) + 1 /\ runs \in 0 .. MaxRuns /\ quiet \in BOOLEAN
Counted ==
  /\ perf \in [rd : Nat, wr : Nat] /\ records \in Seq([layer : Int, wr : Nat])
  /\ retained.words \in Nat
  /\ trace \in Seq(Range(trace)) /\ \A e \in Range(trace) : e.first <= e.last

LEMMA OffIsNoMachine == Off \notin Machines
<1>1. Off.gbKb = 0
  BY DEF Off
<1>2. \A m \in Machines : m.gbKb \in Nat \ {0}
  BY MachineSizes
<1> QED
  BY <1>1, <1>2

LEMMA StartControls ==
  ASSUME Controlled, ImageOK(image), StartRun(image)
  PROVE  Controlled'
<1> DEFINE layers == ParseImage(image, image.total).layers
<1>1. /\ npu \in {"idle", "done"} /\ runs < MaxRuns /\ runs' = runs + 1 /\ next' = 1
      /\ UNCHANGED <<machine, quiet, streamsDone>>
      /\ npu' \in {"running", "idle"} /\ loader' \in {layers, <<>>}
  BY DEF StartRun
<1>2. layers \in Seq(Range(layers)) /\ \A l \in Range(layers) : LayerOK(l)
  BY ParsedIs
<1> HIDE DEF layers
<1>3. /\ loader' \in Seq(Range(loader')) /\ \A l \in Range(loader') : LayerOK(l)
  <2>1. <<>> \in Seq(Range(<<>>)) /\ Range(<<>>) = {}
    BY DEF Range
  <2>2. CASE loader' = layers
    BY <1>2, <2>2
  <2>3. CASE loader' = <<>>
    BY <2>1, <2>3
  <2> QED
    BY <1>1, <2>2, <2>3
<1>4. LoaderOK'
  BY <1>3 DEF LoaderOK
<1>5. 1 \in 0 .. Len(loader') + 1
  BY <1>3
<1>6. machine' \in Machines \cup {Off} /\ machine # Off
  BY <1>1 DEF Controlled
<1>7. runs' \in 0 .. MaxRuns
  BY <1>1, ExecutionAssumption DEF Controlled
<1> QED
  BY <1>1, <1>4, <1>5, <1>6, <1>7 DEF Controlled

LEMMA PacketControls ==
  ASSUME Controlled, Contained, Running, NextGroup, UNCHANGED <<machine, loader, runs, streamsDone>>,
         npu' \in {"running", "fatal", "ahead"}, quiet' \in BOOLEAN
  PROVE  Controlled'
<1>1. /\ LoaderOK' /\ machine \in Machines \cup {Off} /\ machine # Off
  BY DEF Controlled, LoaderOK, Running
<1>2. next \in 1 .. Len(loader) /\ Len(loader) \in Nat
  <2>1. Len(loader) \in Nat
    BY LoadedLayers DEF Controlled
  <2>2. next \in 1 .. Len(loader) + 1 /\ next <= Len(loader)
    BY DEF Controlled, Contained, Running
  <2> QED
    BY <2>1, <2>2
<1>3. next' \in 1 .. Len(loader) + 1
  <2>1. LoaderOK /\ next \in Nat \ {0}
    BY <1>2 DEF Controlled
  <2> QED
    BY <2>1, NextLayer
<1>4. next' \in 0 .. Len(loader') + 1
  BY <1>2, <1>3
<1> QED
  BY <1>1, <1>4 DEF Controlled

LEMMA ExecuteControls ==
  ASSUME Controlled, Contained, ImageOK(image), Execute \/ StartRun(image)
  PROVE  Controlled'
<1>1. ASSUME NEW m \in Machines, PowerOn(m) PROVE Controlled'
  <2>1. /\ machine' = m /\ npu' = "idle" /\ m # Off /\ UNCHANGED <<loader, next, runs, quiet, streamsDone>>
    BY <1>1, OffIsNoMachine DEF PowerOn
  <2> QED
    BY <2>1 DEF Controlled, LoaderOK
<1>2. CASE Reset \/ Finish
  <2>1. /\ npu \in {"idle", "done", "running"} /\ npu' \in {"idle", "done"}
        /\ UNCHANGED <<machine, loader, next, runs, quiet>>
    BY <1>2 DEF Reset, Finish
  <2>2. streamsDone' \in BOOLEAN
    BY <1>2 DEF Reset, Finish, Controlled
  <2> QED
    BY <2>1, <2>2 DEF Controlled, LoaderOK
<1>3. CASE RunFused \/ RunTiled
  <2>1. Running /\ NextGroup /\ UNCHANGED <<machine, npu, loader, runs, streamsDone>> /\ quiet' = FALSE
    BY <1>3 DEF RunFused, RunTiled
  <2>2. npu' \in {"running", "fatal", "ahead"} /\ quiet' \in BOOLEAN
    BY <2>1 DEF Running
  <2> QED
    BY <2>1, <2>2, PacketControls
<1>4. ASSUME NEW r, RunStreamed(r) PROVE Controlled'
  <2>1. /\ Running /\ NextGroup /\ UNCHANGED <<machine, loader, runs, streamsDone>>
        /\ npu' \in {"running", "fatal", "ahead"} /\ quiet' = machine.peakBw
    BY <1>4 DEF RunStreamed
  <2>2. machine \in Machines
    BY <2>1 DEF Contained, Running
  <2>3. machine.peakBw \in BOOLEAN
    BY <2>2, ExecutionAssumption
  <2> QED
    BY <2>1, <2>3, PacketControls
<1> QED
  BY <1>1, <1>2, <1>3, <1>4, StartControls DEF Execute

LEMMA VisitCounts ==
  ASSUME Counted, Controlled, Contained, Running, NEW u, {"first", "last"} \subseteq DOMAIN u, Visit(u)
  PROVE  trace' \in Seq(Range(trace')) /\ \A e \in Range(trace') : e.first <= e.last
<1> DEFINE g == GroupEnd(loader, next)
           e == [u EXCEPT !.first = next, !.last = g]
<1>1. trace' = Append(trace, e)
  BY DEF Visit
<1>2. next \in 1 .. Len(loader) /\ Len(loader) \in Nat
  <2>1. Len(loader) \in Nat
    BY LoadedLayers DEF Controlled
  <2>2. next \in 1 .. Len(loader) + 1 /\ next <= Len(loader)
    BY DEF Controlled, Contained, Running
  <2> QED
    BY <2>1, <2>2
<1>3. g \in next .. Len(loader)
  BY <1>2, GroupIsAhead
<1> HIDE DEF g
<1>4. e.first = next /\ e.last = g
  OBVIOUS
<1>5. next <= g
  BY <1>2, <1>3
<1> HIDE DEF e
<1>6. trace' \in Seq(Range(trace')) /\ Range(trace') \subseteq Range(trace) \cup {e}
  BY <1>1, Appended DEF Counted
<1> QED
  BY <1>4, <1>5, <1>6 DEF Counted

LEMMA LedgerCounts ==
  ASSUME Controlled, Contained, Running
  PROVE  LedgerAfter(machine, loader, next).words \in Nat
<1> DEFINE g == GroupEnd(loader, next)
<1>1. next \in 1 .. Len(loader) /\ Len(loader) \in Nat
  <2>1. Len(loader) \in Nat
    BY LoadedLayers DEF Controlled
  <2>2. next \in 1 .. Len(loader) + 1 /\ next <= Len(loader)
    BY DEF Controlled, Contained, Running
  <2> QED
    BY <2>1, <2>2
<1>2. g \in 1 .. Len(loader)
  <2>1. g \in next .. Len(loader)
    BY <1>1, GroupIsAhead
  <2> QED
    BY <1>1, <2>1
<1> DEFINE out == loader[g].output
<1>3. out.words \in Nat
  <2>1. LayerOK(loader[g])
    BY <1>2, LoadedLayers DEF Controlled
  <2> QED
    BY <2>1 DEF LayerOK, TensorOK
<1>4. LedgerAfter(machine, loader, next) =
        IF Retainable(machine, out) THEN [addr |-> out.addr, words |-> out.words] ELSE NothingRetained
  BY DEF LedgerAfter
<1> HIDE DEF out
<1> QED
  BY <1>3, <1>4 DEF NothingRetained

LEMMA EntryOf ==
  ASSUME NEW T, NEW s \in Seq(T), NEW i \in DOMAIN s
  PROVE  s[i] \in T /\ \A x \in T : [s EXCEPT ![i] = x] \in Seq(T)
OBVIOUS

LEMMA TakenBack ==
  ASSUME NEW T, T = [layer : Int, wr : Nat], NEW recs \in Seq(T), NEW n \in Nat
  PROVE  TakeBack(n, recs) \in Seq(T)
<1> DEFINE z == Len(recs)
           r == recs[z]
           left == r.wr - Least(r.wr, n)
<1>1. CASE recs = <<>> \/ n = 0
  BY <1>1 DEF TakeBack
<1>2. CASE ~(recs = <<>> \/ n = 0)
  <2>1. z \in Nat \ {0} /\ DOMAIN recs = 1 .. z /\ z \in 1 .. z
    BY <1>2
  <2>2. r \in T
    BY <2>1, EntryOf
  <2>3. r.wr \in Nat /\ r.layer \in Int /\ r = [layer |-> r.layer, wr |-> r.wr]
    BY <2>2
  <2>4. TakeBack(n, recs) = [recs EXCEPT ![z] = [r EXCEPT !.wr = left]]
    BY <1>2 DEF TakeBack
  <2> DEFINE w == r.wr
  <2>5. left \in Nat
    <3>1. w \in Nat
      BY <2>3
    <3> HIDE DEF w
    <3>2. w - Least(w, n) \in Nat
      BY <3>1 DEF Least
    <3> QED
      BY <3>2 DEF w
  <2> HIDE DEF left, r
  <2>6. [r EXCEPT !.wr = left] = [layer |-> r.layer, wr |-> left]
    BY <2>3
  <2> DEFINE x == [r EXCEPT !.wr = left]
  <2>7. x \in T
    BY <2>3, <2>5, <2>6
  <2> HIDE DEF x
  <2>8. [recs EXCEPT ![z] = x] \in Seq(T)
    BY <2>1, <2>7, EntryOf
  <2> QED
    BY <2>4, <2>8 DEF x
<1> QED
  BY <1>1, <1>2

----------------------------------------------------------------------------
(* What the executor's counters keep *)

LEMMA AtALayer ==
  ASSUME Controlled, Contained, Running
  PROVE  machine \in Machines /\ next \in Nat \ {0} /\ next \in 1 .. Len(loader) /\ LayerOK(Current)
<1>1. Len(loader) \in Nat /\ \A i \in 1 .. Len(loader) : LayerOK(loader[i])
  BY LoadedLayers DEF Controlled
<1>2. machine \in Machines /\ next \in 1 .. Len(loader) + 1 /\ next <= Len(loader)
  BY DEF Controlled, Contained, Running
<1>3. next \in 1 .. Len(loader)
  BY <1>1, <1>2
<1>4. next \in Nat \ {0}
  BY <1>1, <1>3
<1>5. LayerOK(loader[next])
  BY <1>1, <1>3
<1> QED
  BY <1>2, <1>3, <1>4, <1>5 DEF Current

LEMMA StartCounts ==
  ASSUME Counted, Controlled, ImageOK(image), StartRun(image)
  PROVE  Counted'
<1> DEFINE dma == ReadAll(machine, quiet, Untransferred(EmptyCache(machine)), ImageReads(machine, image))
           n == IF quiet THEN HeaderBytes ELSE dma.rd
<1>1. /\ npu \in {"idle", "done"} /\ retained' = NothingRetained /\ trace' = <<>> /\ records' = records
      /\ perf' = [perf EXCEPT !.rd = @ + n]
  BY DEF StartRun
<1>2. n \in Nat
  <2>1. machine \in Machines
    BY <1>1 DEF Controlled
  <2>2. image.total \in Int
    BY DEF ImageOK
  <2>3. dma.rd \in Nat
    BY <2>1, <2>2, ImageRead
  <2> QED
    BY <2>3 DEF HeaderBytes
<1> HIDE DEF n
<1>3. perf' \in [rd : Nat, wr : Nat]
  BY <1>1, <1>2 DEF Counted
<1>4. trace' \in Seq(Range(trace')) /\ Range(trace') = {} /\ retained'.words \in Nat
  BY <1>1 DEF Range, NothingRetained
<1> QED
  BY <1>1, <1>3, <1>4 DEF Counted

LEMMA TiledCounts ==
  ASSUME Counted, Controlled, Contained, RunTiled
  PROVE  Counted'
<1> DEFINE T == [layer : Int, wr : Nat]
<1>2. Running /\ retained' = LedgerAfter(machine, loader, next)
  BY DEF RunTiled
<1>10. Running
  BY <1>2
<1>3. machine \in Machines /\ next \in Nat \ {0} /\ LayerOK(Current)
  BY <1>10, AtALayer
<1>1. PICK x \in {Total(Current.lat, LayerSchedule(machine, Current, retained))} :
        /\ perf' = [rd |-> perf.rd + x.in + x.wt + x.spill,
                    wr |-> perf.wr - Least(perf.wr, x.forwarded) + x.out + x.spill]
        /\ records' = Append(TakeBack(x.forwarded, records), [layer |-> next, wr |-> x.out + x.spill])
        /\ Visit([Unmoved EXCEPT !.source = IF x.forwarded > 0 THEN "buffer" ELSE "tiles",
                                 !.in = x.in, !.wt = x.wt, !.out = x.out,
                                 !.rolled = x.forwarded, !.emits = x.emits])
  BY DEF RunTiled
<1>4. x = Total(Current.lat, LayerSchedule(machine, Current, retained))
  OBVIOUS
<1>5. x.in \in Nat /\ x.wt \in Nat /\ x.out \in Nat /\ x.spill \in Nat /\ x.forwarded \in Nat
  BY <1>3, <1>4, TotalNat
<1>6. perf' \in [rd : Nat, wr : Nat]
  <2> DEFINE p == perf.rd  q == perf.wr
  <2>1. p \in Nat /\ q \in Nat
    BY DEF Counted
  <2>2. perf' = [rd |-> p + x.in + x.wt + x.spill, wr |-> (q - Least(q, x.forwarded)) + x.out + x.spill]
    BY <1>1
  <2> HIDE DEF p, q
  <2>3. p + x.in + x.wt + x.spill \in Nat
    BY <1>5, <2>1
  <2>4. q - Least(q, x.forwarded) \in Nat
    BY <1>5, <2>1 DEF Least
  <2>5. (q - Least(q, x.forwarded)) + x.out + x.spill \in Nat
    BY <1>5, <2>4
  <2> QED
    BY <2>2, <2>3, <2>5
<1>7. records' \in Seq(T)
  <2> DEFINE back == TakeBack(x.forwarded, records)
             r == [layer |-> next, wr |-> x.out + x.spill]
  <2>1. back \in Seq(T)
    BY <1>5, TakenBack DEF Counted
  <2>2. r \in T
    BY <1>3, <1>5
  <2>3. records' = Append(back, r)
    BY <1>1
  <2> HIDE DEF back, r, T
  <2> QED
    BY <2>1, <2>2, <2>3
<1>8. trace' \in Seq(Range(trace')) /\ \A e \in Range(trace') : e.first <= e.last
  <2> DEFINE u == [Unmoved EXCEPT !.source = IF x.forwarded > 0 THEN "buffer" ELSE "tiles",
                                  !.in = x.in, !.wt = x.wt, !.out = x.out,
                                  !.rolled = x.forwarded, !.emits = x.emits]
  <2>1. {"first", "last"} \subseteq DOMAIN u
    BY DEF Unmoved
  <2>2. Visit(u)
    BY <1>1
  <2> HIDE DEF u
  <2> QED
    BY <1>2, <2>1, <2>2, VisitCounts
<1>9. retained'.words \in Nat
  BY <1>2, LedgerCounts
<1> QED
  BY <1>6, <1>7, <1>8, <1>9 DEF Counted

LEMMA StreamCounts ==
  ASSUME Counted, Controlled, Contained, NEW reserved, RunStreamed(reserved)
  PROVE  Counted'
<1> DEFINE reads == StreamedReads
           writes == StreamedWrites(reserved)
           muted == machine.peakBw
           dma == WriteAll(machine, muted, ReadAll(machine, muted, Untransferred(cache), reads), writes)
           skip == OutputRetainedNextLayer(machine, loader, next)
           u == [Unmoved EXCEPT !.source = IF Current.i1FromPacket THEN "packet" ELSE "stream",
                                !.in = dma.rd, !.out = dma.wr, !.served = dma.served,
                                !.skipped = skip]
<1>1. /\ Running /\ reserved \in {0, Least(Current.lat.fO, GbBytes(machine))}
      /\ perf' = [rd |-> perf.rd + dma.rd, wr |-> perf.wr + dma.wr]
      /\ retained' = LedgerAfter(machine, loader, next) /\ Visit(u) /\ records' = records
  BY DEF RunStreamed, StreamedReads, StreamedWrites
<1>9. Running
  BY <1>1
<1>2. machine \in Machines /\ next \in Nat \ {0}
  BY <1>9, AtALayer
<1>3. reads \in Seq(Fitting(machine)) /\ writes \in Seq(Fitting(machine))
  BY <1>1, <1>2, StreamedTransfers DEF Controlled
<1> HIDE DEF reads, writes
<1>4. dma.rd \in Nat /\ dma.wr \in Nat
  BY <1>2, <1>3, StreamMoved
<1>5. {"first", "last"} \subseteq DOMAIN u
  BY DEF Unmoved
<1> HIDE DEF dma, u
<1>6. perf' \in [rd : Nat, wr : Nat]
  <2>1. perf.rd \in Nat /\ perf.wr \in Nat
    BY DEF Counted
  <2> QED
    BY <1>1, <1>4, <2>1
<1>7. trace' \in Seq(Range(trace')) /\ \A e \in Range(trace') : e.first <= e.last
  BY <1>1, <1>5, VisitCounts
<1>8. retained'.words \in Nat
  BY <1>1, LedgerCounts
<1> QED
  BY <1>1, <1>6, <1>7, <1>8 DEF Counted

LEMMA ExecuteCounts ==
  ASSUME Counted, Controlled, Contained, ImageOK(image), Execute \/ StartRun(image)
  PROVE  Counted'
<1>1. CASE (\E m \in Machines : PowerOn(m)) \/ Finish
  <2>1. UNCHANGED <<perf, records, retained, trace>>
    BY <1>1 DEF PowerOn, Finish
  <2> QED
    BY <2>1 DEF Counted
<1>2. CASE Reset
  <2>1. UNCHANGED <<records, retained, trace>> /\ perf' = ZeroCounts
    BY <1>2 DEF Reset
  <2> QED
    BY <2>1 DEF Counted, ZeroCounts
<1>3. CASE RunFused
  <2> DEFINE u == [Unmoved EXCEPT !.source = "fused"]
  <2>1. /\ Running /\ UNCHANGED <<perf, records>> /\ retained' = LedgerAfter(machine, loader, next)
        /\ Visit(u)
    BY <1>3 DEF RunFused
  <2>2. {"first", "last"} \subseteq DOMAIN u
    BY DEF Unmoved
  <2> HIDE DEF u
  <2>3. trace' \in Seq(Range(trace')) /\ \A e \in Range(trace') : e.first <= e.last
    BY <2>1, <2>2, VisitCounts
  <2>4. retained'.words \in Nat
    BY <2>1, LedgerCounts
  <2> QED
    BY <2>1, <2>3, <2>4 DEF Counted
<1> QED
  BY <1>1, <1>2, <1>3, StartCounts, TiledCounts, StreamCounts DEF Execute

\* What holds of the compilers, the image and the NPU together.
SystemKept == Compiling /\ Contained /\ EntriesRight /\ Controlled /\ Counted

LEMMA SystemStays == SystemSpec => []SystemKept
<1>1. SystemInit => SystemKept
  <2> SUFFICES ASSUME SystemInit PROVE SystemKept
    OBVIOUS
  <2>1. Compiling
    BY NothingCompiled DEF SystemInit
  <2>2. /\ machine = Off /\ npu = "off" /\ streamsDone = FALSE /\ loader = <<>> /\ next = 0
        /\ retained = NothingRetained /\ quiet = FALSE
        /\ perf = ZeroCounts /\ records = <<>> /\ runs = 0 /\ trace = <<>>
    BY DEF SystemInit, ExecInit
  <2>3. Range(<<>>) = {} /\ <<>> \in Seq(Range(<<>>)) /\ Len(<<>>) = 0
    BY DEF Range
  <2>4. LoaderOK
    BY <2>2, <2>3 DEF LoaderOK
  <2>5. Controlled
    <3>1. next \in 0 .. Len(loader) + 1
      BY <2>2, <2>3
    <3>2. runs \in 0 .. MaxRuns
      BY <2>2, ExecutionAssumption
    <3> QED
      BY <2>2, <2>4, <3>1, <3>2 DEF Controlled
  <2>6. Counted
    <3>1. perf \in [rd : Nat, wr : Nat] /\ records \in Seq([layer : Int, wr : Nat])
      BY <2>2 DEF ZeroCounts
    <3>2. retained.words \in Nat
      BY <2>2 DEF NothingRetained
    <3> QED
      BY <2>2, <2>3, <3>1, <3>2 DEF Counted
  <2>7. EntriesRight
    BY <2>2, <2>3 DEF EntriesRight
  <2>8. Contained
    BY <2>2 DEF Contained
  <2> QED
    BY <2>1, <2>5, <2>6, <2>7, <2>8 DEF SystemKept
<1>2. SystemKept /\ [SystemNext]_systemVars => SystemKept'
  <2> SUFFICES ASSUME SystemKept, [SystemNext]_systemVars PROVE SystemKept'
    OBVIOUS
  <2>1. CASE RunProgram
    <3>1. (Execute \/ StartRun(image)) /\ UNCHANGED vars
      BY <2>1 DEF RunProgram
    <3>2. ImageOK(image)
      BY DEF SystemKept, Compiling, ImageKept
    <3>3. Contained' /\ EntriesRight'
      BY <3>1, ExecuteContained, ExecuteKeepsEntries DEF SystemKept
    <3>4. Controlled' /\ Counted'
      BY <3>1, <3>2, ExecuteControls, ExecuteCounts DEF SystemKept
    <3>5. Compiling'
      BY <3>1, CompilingSteps DEF SystemKept
    <3> QED
      BY <3>3, <3>4, <3>5 DEF SystemKept
  <2>2. CASE BuildProgram \/ UNCHANGED systemVars
    <3>1. [Next]_vars /\ UNCHANGED execVars
      BY <2>2 DEF BuildProgram, systemVars
    <3>2. Compiling'
      BY <3>1, CompilingSteps DEF SystemKept
    <3>3. Contained'
      BY <3>1 DEF SystemKept, execVars, Contained, LoaderOK
    <3>4. EntriesRight'
      BY <3>1 DEF SystemKept, execVars, EntriesRight, LoaderOK, CompleteEntry, WideEntry
    <3>5. Controlled'
      BY <3>1 DEF SystemKept, execVars, Controlled, LoaderOK
    <3>6. Counted'
      BY <3>1 DEF SystemKept, execVars, Counted
    <3> QED
      BY <3>2, <3>3, <3>4, <3>5, <3>6 DEF SystemKept
  <2> QED
    BY <2>1, <2>2 DEF SystemNext
<1> QED
  BY <1>1, <1>2, PTL DEF SystemSpec

LEMMA SystemKeptMeans ==
  ASSUME SystemKept
  PROVE  SystemTypeOK /\ NothingOverflows /\ TiledLayersAreComplete /\ EmissionsWithinWidth
<1>1. TypeOK
  BY CompilingTyped DEF SystemKept
<1>2. ExecTypeOK
  <2>1. perf.rd >= 0 /\ perf.wr >= 0 /\ retained.words >= 0
    BY DEF SystemKept, Counted
  <2>2. \A k \in DOMAIN records : records[k].wr >= 0
    <3> DEFINE T == [layer : Int, wr : Nat]
    <3>1. \A r \in T : r.wr >= 0
      OBVIOUS
    <3>2. records \in Seq(T)
      BY DEF SystemKept, Counted
    <3> HIDE DEF T
    <3> QED
      BY <3>1, <3>2, EntryOf
  <2>3. \A e \in Range(trace) : e.first <= e.last
    BY DEF SystemKept, Counted
  <2> QED
    BY <2>1, <2>2, <2>3 DEF SystemKept, Controlled, ExecTypeOK
<1>3. LoaderOK
  BY DEF SystemKept, Controlled
<1>4. NothingOverflows
  BY <1>3 DEF SystemKept, Contained, NothingOverflows
<1>5. TiledLayersAreComplete /\ EmissionsWithinWidth
  BY <1>3, EntriesRightMeans DEF SystemKept
<1> QED
  BY <1>1, <1>2, <1>4, <1>5 DEF SystemTypeOK

\* SystemTypeOK, for every program, machine and number of runs: the compilers' fields,
\* the image, the packet cursor, the counters and the ledger stay in their ranges from
\* power-on through any number of runs, and a group never ends before it begins.
THEOREM SystemTypeCorrect == SystemSpec => []SystemTypeOK
BY SystemStays, SystemKeptMeans, PTL

\* NothingOverflows, for every program, machine and number of runs: whatever the sizes
\* of its layers, no network stops the simulation at the end of the buffer.
THEOREM NothingEverOverflows == SystemSpec => []NothingOverflows
BY SystemStays, SystemKeptMeans, PTL

\* TiledLayersAreComplete, for every program, machine and number of runs: whatever the
\* tiles, the passes and what stays resident, the tiles of a layer together write its
\* output once and read at least its input and its kernel.
THEOREM TiledLayersComplete == SystemSpec => []TiledLayersAreComplete
BY SystemStays, SystemKeptMeans, PTL

\* EmissionsWithinWidth, for every program, machine and number of runs: neither the
\* grouping of the enable signals nor the ports that feed the array make a tile emit more
\* often than it has outputs or too seldom for its width.
THEOREM EmissionsAlwaysWithinWidth == SystemSpec => []EmissionsWithinWidth
BY SystemStays, SystemKeptMeans, PTL

----------------------------------------------------------------------------
(* The compilers by themselves *)

LEMMA CompilerKeeps == Spec => []Compiling
<1>1. Init => Compiling
  BY NothingCompiled
<1>2. Compiling /\ [Next]_vars => Compiling'
  BY CompilingSteps
<1> QED
  BY <1>1, <1>2, PTL DEF Spec

\* TypeOK, for every CSV program, every sequence of compiler calls and every network:
\* what the compilers hold and build are functions, headers and sections as the image
\* format has them.
THEOREM CompilerTypeCorrect == Spec => []TypeOK
BY CompilerKeeps, CompilingTyped, PTL

\* TilesCoverOutput, for every program: a layer's tiles cut its output into pieces, a
\* tile's passes share out the input channels, and the passes fit the buffer, in every
\* schedule compute_tile_schedule makes of a layer of a built image.
THEOREM SchedulesCoverTheirLayers == Spec => []TilesCoverOutput
<1>1. Compiling => CutsOK
  BY CutsAreOK DEF Compiling
<1>2. CutsOK => TilesCoverOutput
  BY EveryScheduleCovers DEF CutsOK, TilesCoverOutput
<1> QED
  BY <1>1, <1>2, CompilerKeeps, PTL

----------------------------------------------------------------------------
(* What building and reading an image leaves as it was: programs in order *)

\* An increasing map of 1 .. z into itself leaves everything where it is.
LEMMA IncreasingIsIdentity ==
  ASSUME NEW z \in Nat, NEW f, \A n \in 1 .. z : f[n] \in 1 .. z,
         \A m, n \in 1 .. z : m < n => f[m] < f[n]
  PROVE  \A n \in 1 .. z : f[n] = n
<1> DEFINE Up(k)   == k = 0 \/ f[k] >= k
           Down(k) == k = z \/ f[z - k] <= z - k
<1>1. ASSUME NEW k \in 0 .. z PROVE Up(k)
  <2> DEFINE T == {n \in 0 .. z : Up(n)}
  <2>1. 0 \in T
    OBVIOUS
  <2>2. ASSUME NEW n \in 0 .. z - 1, n \in T PROVE n + 1 \in T
    <3>1. n + 1 \in 1 .. z /\ n + 1 \in 0 .. z /\ n \in 0 .. z
      OBVIOUS
    <3>2. CASE n = 0
      <4>1. f[1] \in 1 .. z
        BY <3>1, <3>2
      <4>2. f[1] >= 1
        BY <4>1
      <4> QED
        BY <3>1, <3>2, <4>2
    <3>3. CASE n # 0
      <4>1. n \in 1 .. z /\ n < n + 1
        BY <3>1, <3>3
      <4>2. f[n] < f[n + 1] /\ f[n] \in Int /\ f[n + 1] \in Int
        BY <3>1, <4>1
      <4>3. f[n] >= n
        BY <2>2, <3>3
      <4>4. f[n + 1] >= n + 1
        BY <4>2, <4>3
      <4> QED
        BY <3>1, <4>4
    <3> QED
      BY <3>2, <3>3
  <2> HIDE DEF Up
  <2>3. \A n \in 0 .. k - 1 : n \in T => n + 1 \in T
    <3>1. \A n \in 0 .. k - 1 : n \in 0 .. z - 1
      OBVIOUS
    <3> QED
      BY <2>2, <3>1
  <2> HIDE DEF T
  <2>4. k \in T
    BY <2>1, <2>3, TermByTerm
  <2> QED
    BY <2>4 DEF T
<1>2. ASSUME NEW k \in 0 .. z PROVE Down(k)
  <2> DEFINE T == {n \in 0 .. z : Down(n)}
  <2>1. 0 \in T
    <3>1. CASE z = 0
      BY <3>1
    <3>2. CASE z # 0
      <4>1. z \in 1 .. z
        BY <3>2
      <4>2. f[z] \in 1 .. z /\ z - 0 = z
        BY <4>1
      <4>3. f[z - 0] <= z - 0
        BY <4>2
      <4> QED
        BY <4>3
    <3> QED
      BY <3>1, <3>2
  <2>2. ASSUME NEW n \in 0 .. z - 1, n \in T PROVE n + 1 \in T
    <3>1. n + 1 \in 0 .. z /\ n # z /\ z - n \in 1 .. z
      OBVIOUS
    <3>2. f[z - n] <= z - n
      BY <2>2, <3>1
    <3>3. CASE n + 1 = z
      BY <3>1, <3>3
    <3>4. CASE n + 1 # z
      <4>1. z - (n + 1) \in 1 .. z /\ z - (n + 1) < z - n
        BY <3>1, <3>4
      <4>2. f[z - (n + 1)] < f[z - n] /\ f[z - n] \in Int /\ f[z - (n + 1)] \in Int
        BY <3>1, <4>1
      <4>3. f[z - (n + 1)] <= z - (n + 1)
        BY <3>2, <4>2
      <4> QED
        BY <3>1, <4>3
    <3> QED
      BY <3>3, <3>4
  <2> HIDE DEF Down
  <2>3. \A n \in 0 .. k - 1 : n \in T => n + 1 \in T
    <3>1. \A n \in 0 .. k - 1 : n \in 0 .. z - 1
      OBVIOUS
    <3> QED
      BY <2>2, <3>1
  <2> HIDE DEF T
  <2>4. k \in T
    BY <2>1, <2>3, TermByTerm
  <2> QED
    BY <2>4 DEF T
<1>3. ASSUME NEW n \in 1 .. z PROVE f[n] = n
  <2>1. n \in 0 .. z /\ z - n \in 0 .. z /\ z - (z - n) = n /\ z - n # z /\ n # 0
    OBVIOUS
  <2>2. f[n] >= n
    BY <1>1, <2>1
  <2>3. Down(z - n)
    BY <1>2, <2>1
  <2>4. f[n] <= n
    BY <2>1, <2>3
  <2>5. f[n] \in Int
    OBVIOUS
  <2> QED
    BY <2>2, <2>4, <2>5
<1> QED
  BY <1>3

\* The places from a to b, in order, are a, a + 1, and so on.
InARow(at, a, z) == \A n \in 1 .. z : at[n] = a - 1 + n
LEMMA PicksOfInterval ==
  ASSUME NEW a \in Int, NEW b \in Int, NEW z \in Nat, z = b - a + 1, NEW at,
         NEW S, S = a .. b, Picks(at, S, z)
  PROVE  InARow(at, a, z)
<1> DEFINE f == [n \in 1 .. z |-> at[n] - (a - 1)]
<1>1. \A n \in 1 .. z : at[n] \in Int /\ a <= at[n] /\ at[n] <= b
  BY DEF Picks
<1>2. \A n \in 1 .. z : f[n] = at[n] - (a - 1)
  OBVIOUS
<1> HIDE DEF f
<1>3. \A n \in 1 .. z : f[n] \in 1 .. z
  <2> SUFFICES ASSUME NEW n \in 1 .. z PROVE f[n] \in 1 .. z
    OBVIOUS
  <2>1. at[n] \in Int /\ a <= at[n] /\ at[n] <= b
    BY <1>1
  <2>2. at[n] - (a - 1) \in 1 .. z
    BY <2>1
  <2> QED
    BY <1>2, <2>2
<1>4. \A m, n \in 1 .. z : m < n => f[m] < f[n]
  <2> SUFFICES ASSUME NEW m \in 1 .. z, NEW n \in 1 .. z, m < n PROVE f[m] < f[n]
    OBVIOUS
  <2>1. at[m] < at[n]
    BY DEF Picks
  <2>2. at[m] \in Int /\ at[n] \in Int
    BY <1>1
  <2> QED
    BY <1>2, <2>1, <2>2
<1>5. \A n \in 1 .. z : f[n] = n
  BY <1>3, <1>4, IncreasingIsIdentity
<1> SUFFICES ASSUME NEW n \in 1 .. z PROVE at[n] = a - 1 + n
  BY DEF InARow
<1>6. at[n] - (a - 1) = n
  BY <1>2, <1>5
<1>7. at[n] \in Int /\ n \in Int
  BY <1>1
<1> QED
  BY <1>6, <1>7

\* A program whose functions stand by layer and id already.
InOrder(fs) == \A m, n \in DOMAIN fs : m < n => SortsBefore(fs, m, n)

\* Sorting such a program changes nothing.
LEMMA SortedStays ==
  ASSUME NEW T, NEW fs \in Seq(T), \A f \in T : f.layer \in Int /\ f.fid \in Int, InOrder(fs),
         NEW z, z = Len(fs)
  PROVE  Sorted(fs) = fs
<1>1. z \in Nat /\ DOMAIN fs = 1 .. z
  OBVIOUS
<1>2. \A n \in 1 .. z : fs[n].layer \in Int /\ fs[n].fid \in Int
  BY <1>1
<1>4. /\ Sorted(fs) \in Seq(T) /\ Len(Sorted(fs)) = z
      /\ \E order : Sorts(order, fs, z) /\ \A n \in 1 .. z : Sorted(fs)[n] = fs[order[n]]
  BY SortedIs
<1>3. PICK order : Sorts(order, fs, z) /\ \A n \in 1 .. z : Sorted(fs)[n] = fs[order[n]]
  BY <1>4
<1>5. \A m, n \in 1 .. z : m < n => order[m] < order[n]
  <2> SUFFICES ASSUME NEW m \in 1 .. z, NEW n \in 1 .. z, m < n PROVE order[m] < order[n]
    OBVIOUS
  <2>1. order[m] \in 1 .. z /\ order[n] \in 1 .. z /\ SortsBefore(fs, order[m], order[n])
    BY <1>3 DEF Sorts
  <2> DEFINE i == order[m]
             j == order[n]
  <2> HIDE DEF i, j
  <2>2. i \in 1 .. z /\ j \in 1 .. z /\ SortsBefore(fs, i, j)
    BY <2>1 DEF i, j
  <2>3. /\ fs[i].layer \in Int /\ fs[i].fid \in Int
        /\ fs[j].layer \in Int /\ fs[j].fid \in Int
    BY <1>2, <2>2
  <2>4. CASE j < i
    <3>1. SortsBefore(fs, j, i)
      BY <1>1, <2>2, <2>4 DEF InOrder
    <3>2. ~SortsBefore(fs, i, j)
      BY <2>2, <2>3, <2>4, <3>1 DEF SortsBefore
    <3> QED
      BY <2>2, <3>2
  <2>5. CASE j = i
    BY <2>2, <2>3, <2>5 DEF SortsBefore
  <2>6. i \in Int /\ j \in Int
    BY <1>1, <2>2
  <2>7. CASE i < j
    BY <2>7 DEF i, j
  <2> QED
    BY <2>4, <2>5, <2>6, <2>7
<1>6. \A n \in 1 .. z : order[n] = n
  <2>1. \A n \in 1 .. z : order[n] \in 1 .. z
    BY <1>3 DEF Sorts
  <2> QED
    BY <1>1, <1>5, <2>1, IncreasingIsIdentity
<1>7. \A n \in 1 .. z : Sorted(fs)[n] = fs[n]
  BY <1>3, <1>6
<1> DEFINE s == Sorted(fs)
<1> HIDE DEF s
<1>8. s \in Seq(T) /\ Len(s) = z /\ \A n \in 1 .. z : s[n] = fs[n]
  BY <1>4, <1>7 DEF s
<1>9. Len(fs) = z
  OBVIOUS
<1>10. s = fs
  BY <1>8, <1>9
<1> QED
  BY <1>10 DEF s

----------------------------------------------------------------------------
(* A program's packets are blocks of its functions *)

\* st cuts a program's functions into the packets of their layers: the n-th has
\* those from st[n] up to the one before st[n + 1].
Blocks(st, fs, ids, z) ==
  /\ z \in Nat /\ st[z + 1] = Len(fs) + 1 /\ (z > 0 => st[1] = 1)
  /\ \A n \in 1 .. z + 1 : st[n] \in 1 .. Len(fs) + 1
  /\ \A n \in 1 .. z : st[n] < st[n + 1]
  /\ \A n \in 1 .. z : \A i \in 1 .. Len(fs) :
       /\ fs[i].layer = ids[n] <=> st[n] <= i /\ i < st[n + 1]
       /\ fs[i].layer < ids[n] <=> i < st[n]
ByLayer(fs) == \A m, n \in DOMAIN fs : m < n => fs[m].layer <= fs[n].layer

\* Between two places all entries are alike if neighbours are.
LEMMA AlikeBetween ==
  ASSUME NEW a \in Int, NEW b \in Int, NEW g, \A i \in a + 1 .. b : g[i] = g[i - 1]
  PROVE  \A i \in a .. b : g[i] = g[a]
<1> SUFFICES ASSUME NEW i \in a .. b PROVE g[i] = g[a]
  OBVIOUS
<1> DEFINE T == {k \in 0 .. i - a : g[a + k] = g[a]}
           w == i - a
<1>1. w \in Nat
  OBVIOUS
<1>2. 0 \in T
  OBVIOUS
<1>3. ASSUME NEW k \in 0 .. w - 1, k \in T PROVE k + 1 \in T
  <2>1. a + (k + 1) \in a + 1 .. b /\ (a + (k + 1)) - 1 = a + k /\ k + 1 \in 0 .. i - a
    OBVIOUS
  <2>2. g[a + (k + 1)] = g[a + k]
    BY <2>1
  <2> QED
    BY <1>3, <2>1, <2>2
<1>4. w \in T
  <2> HIDE DEF T, w
  <2> QED
    BY <1>1, <1>2, <1>3, TermByTerm
<1>5. a + w = i
  OBVIOUS
<1> QED
  BY <1>4, <1>5

\* The packets of a program in order are blocks of its functions, one block to a layer.
LEMMA PacketBlocks ==
  ASSUME NEW T, NEW fs \in Seq(T), \A f \in T : f.layer \in Int, ByLayer(fs),
         NEW ids, ids = PacketLayers(fs), NEW z, z = Len(ids)
  PROVE  /\ z \in Nat /\ DOMAIN ids = 1 .. z /\ (fs # <<>> => z > 0)
         /\ \E st : Blocks(st, fs, ids, z)
<1> DEFINE F == {i \in DOMAIN fs : i = 1 \/ fs[i - 1].layer # fs[i].layer}
           firsts == Selected(fs, F)
           y == Cardinality(F)
           e == Len(fs)
<1>1. e \in Nat /\ DOMAIN fs = 1 .. e /\ \A i \in 1 .. e : fs[i].layer \in Int
  OBVIOUS
<1>2. F \subseteq 1 .. e /\ \A i \in 1 .. e : i \in F <=> i = 1 \/ fs[i - 1].layer # fs[i].layer
  BY <1>1
<1>3. ids = [n \in DOMAIN firsts |-> firsts[n].layer]
  BY DEF PacketLayers
<1>30. F \subseteq DOMAIN fs
  BY <1>1, <1>2
<1>31. y = Cardinality(F) /\ firsts = Selected(fs, F)
  OBVIOUS
<1> HIDE DEF F, y, firsts
<1>32. /\ y \in Nat /\ Selected(fs, F) \in Seq(T) /\ Len(Selected(fs, F)) = y
       /\ \E at : Picks(at, F, y) /\ \A n \in 1 .. y : Selected(fs, F)[n] = fs[at[n]]
  BY <1>30, <1>31, SelectedIs
<1>4. /\ y \in Nat /\ firsts \in Seq(T) /\ Len(firsts) = y
      /\ \E at : Picks(at, F, y) /\ \A n \in 1 .. y : firsts[n] = fs[at[n]]
  BY <1>31, <1>32
<1>5. PICK at : Picks(at, F, y) /\ \A n \in 1 .. y : firsts[n] = fs[at[n]]
  BY <1>4
<1> HIDE DEF e
<1>6. DOMAIN ids = 1 .. y /\ z = y /\ \A n \in 1 .. z : ids[n] = fs[at[n]].layer
  <2>1. DOMAIN firsts = 1 .. y
    BY <1>4
  <2>2. ids = [n \in 1 .. y |-> firsts[n].layer]
    BY <1>3, <2>1
  <2>3. DOMAIN ids = 1 .. y /\ Len(ids) = y
    BY <1>4, <2>2
  <2> QED
    BY <1>5, <2>2, <2>3
<1> DEFINE st == [n \in 1 .. z + 1 |-> IF n = z + 1 THEN e + 1 ELSE at[n]]
<1>7. z \in Nat
  BY <1>4, <1>6
<1>8. \A n \in 1 .. z : at[n] \in F /\ at[n] \in 1 .. e
  BY <1>2, <1>5, <1>6 DEF Picks
<1>9. st[z + 1] = e + 1 /\ \A n \in 1 .. z : st[n] = at[n]
  BY <1>7
<1> HIDE DEF st
<1>10. \A n \in 1 .. z + 1 : st[n] \in 1 .. e + 1
  <2> SUFFICES ASSUME NEW n \in 1 .. z + 1 PROVE st[n] \in 1 .. e + 1
    OBVIOUS
  <2>1. CASE n = z + 1
    BY <1>1, <1>9, <2>1
  <2>2. CASE n # z + 1
    <3>1. n \in 1 .. z
      BY <1>7, <2>2
    <3> QED
      BY <1>1, <1>8, <1>9, <3>1
  <2> QED
    BY <2>1, <2>2
<1>11. \A m, n \in 1 .. z + 1 : m < n => st[m] < st[n]
  <2> SUFFICES ASSUME NEW m \in 1 .. z + 1, NEW n \in 1 .. z + 1, m < n PROVE st[m] < st[n]
    OBVIOUS
  <2>1. m \in 1 .. z
    BY <1>7
  <2>2. CASE n = z + 1
    <3>1. st[m] \in 1 .. e
      BY <1>8, <1>9, <2>1
    <3> QED
      BY <1>1, <1>9, <2>2, <3>1
  <2>3. CASE n # z + 1
    <3>1. n \in 1 .. z
      BY <1>7, <2>3
    <3> QED
      BY <1>5, <1>6, <1>9, <2>1, <3>1 DEF Picks
  <2> QED
    BY <2>2, <2>3
<1>12. e > 0 => z > 0 /\ st[1] = 1
  <2> SUFFICES ASSUME e > 0 PROVE z > 0 /\ st[1] = 1
    OBVIOUS
  <2>1. 1 \in F
    BY <1>1, <1>2
  <2>2. PICK n \in 1 .. z : at[n] = 1
    BY <1>5, <1>6, <2>1 DEF Picks
  <2>3. n = 1
    <3>1. CASE 1 < n
      <4>1. st[1] < st[n] /\ st[n] = 1 /\ st[1] \in 1 .. e + 1
        BY <1>7, <1>9, <1>10, <1>11, <2>2, <3>1
      <4> QED
        BY <4>1
    <3> QED
      BY <3>1
  <2> QED
    BY <1>9, <2>2, <2>3
<1>13. \A m, n \in 1 .. e : m <= n => fs[m].layer <= fs[n].layer
  <2> SUFFICES ASSUME NEW m \in 1 .. e, NEW n \in 1 .. e, m <= n
               PROVE  fs[m].layer <= fs[n].layer
    OBVIOUS
  <2>1. CASE m = n
    BY <1>1, <2>1
  <2>2. CASE m < n
    BY <1>1, <2>2 DEF ByLayer
  <2> QED
    BY <1>1, <2>1, <2>2
<1>14. ASSUME NEW n \in 1 .. z, NEW i \in 1 .. e, st[n] <= i, i < st[n + 1]
       PROVE  fs[i].layer = ids[n]
  <2> DEFINE a == st[n]
             b == st[n + 1] - 1
             g == [j \in 1 .. e |-> fs[j].layer]
  <2>1. a \in 1 .. e /\ st[n + 1] \in 1 .. e + 1 /\ b \in Int /\ b <= e
    <3>1. n + 1 \in 1 .. z + 1
      BY <1>7
    <3>2. st[n] \in 1 .. e /\ st[n + 1] \in 1 .. e + 1
      BY <1>8, <1>9, <1>10, <3>1
    <3> DEFINE c == st[n + 1]
    <3>3. c \in 1 .. e + 1
      BY <3>2
    <3> HIDE DEF c
    <3>4. c - 1 \in Int /\ c - 1 <= e
      BY <1>1, <3>3
    <3> QED
      BY <3>2, <3>4 DEF c
  <2> HIDE DEF a, b
  <2>2. ASSUME NEW j \in a + 1 .. b PROVE g[j] = g[j - 1]
    <3>1. j \in 1 .. e /\ j - 1 \in 1 .. e /\ j # 1
      BY <1>1, <2>1
    <3>5. a < j /\ j < b + 1
      BY <1>1, <2>1
    <3>6. a = st[n] /\ b + 1 = st[n + 1] /\ st[n] \in Int /\ st[n + 1] \in Int
      <4> DEFINE c == st[n + 1]
      <4>1. c \in Int
        BY <1>1, <2>1
      <4> HIDE DEF c
      <4>2. c - 1 + 1 = c
        BY <4>1
      <4> QED
        BY <2>1, <4>1, <4>2 DEF a, b, c
    <3>2. j \notin F
      <4> SUFFICES ASSUME j \in F PROVE FALSE
        OBVIOUS
      <4>1. PICK m \in 1 .. z : at[m] = j
        BY <1>5, <1>6 DEF Picks
      <4>2. st[m] = j /\ st[n] < j /\ j < st[n + 1] /\ m \in 1 .. z + 1 /\ n \in 1 .. z + 1
            /\ n + 1 \in 1 .. z + 1
        BY <1>7, <1>9, <3>5, <3>6, <4>1
      <4>3. CASE m <= n
        <5>1. st[m] <= st[n]
          <6>1. CASE m = n
            BY <3>1, <4>2, <6>1
          <6>2. CASE m # n
            <7>1. m < n
              BY <4>3, <6>2
            <7>2. st[m] < st[n]
              BY <1>11, <4>2, <7>1
            <7> QED
              BY <3>1, <3>6, <4>2, <7>2
          <6> QED
            BY <6>1, <6>2
        <5> QED
          BY <3>1, <3>6, <4>2, <5>1
      <4>4. CASE n + 1 <= m
        <5>1. st[n + 1] <= st[m]
          <6>1. CASE n + 1 = m
            BY <3>1, <4>2, <6>1
          <6>2. CASE n + 1 # m
            <7>1. n + 1 < m
              BY <4>4, <6>2
            <7>2. st[n + 1] < st[m]
              BY <1>11, <4>2, <7>1
            <7> QED
              BY <3>1, <3>6, <4>2, <7>2
          <6> QED
            BY <6>1, <6>2
        <5> QED
          BY <3>1, <3>6, <4>2, <5>1
      <4>5. m <= n \/ n + 1 <= m
        OBVIOUS
      <4> QED
        BY <4>3, <4>4, <4>5
    <3>7. fs[j - 1].layer = fs[j].layer
      BY <1>2, <3>1, <3>2
    <3> QED
      BY <3>1, <3>7 DEF g
  <2>3. a \in Int /\ i \in a .. b
    <3> DEFINE c == st[n + 1]
    <3>1. c \in Int /\ i < c /\ a <= i
      BY <1>1, <1>14, <2>1 DEF a
    <3> HIDE DEF c
    <3>2. i <= c - 1
      BY <3>1
    <3>3. b = c - 1
      BY DEF b, c
    <3> QED
      BY <2>1, <3>1, <3>2, <3>3
  <2>4. fs[a].layer = ids[n]
    BY <1>6, <1>9 DEF a
  <2>5. g[a] = fs[a].layer /\ g[i] = fs[i].layer
    BY <2>1 DEF g
  <2> HIDE DEF g
  <2>6. g[i] = g[a]
    BY <2>1, <2>2, <2>3, AlikeBetween
  <2> QED
    BY <2>4, <2>5, <2>6
<1>15. \A n \in 1 .. z : ids[n] = fs[st[n]].layer /\ ids[n] \in Int /\ st[n] \in 1 .. e /\ st[n] \in F
  BY <1>1, <1>6, <1>8, <1>9
\* A packet starts a new layer.
<1>16. ASSUME NEW n \in 1 .. z, st[n] # 1
       PROVE  fs[st[n] - 1].layer < ids[n] /\ st[n] - 1 \in 1 .. e
  <2> DEFINE s == st[n]
  <2>1. s \in 1 .. e /\ s \in F /\ s # 1 /\ ids[n] = fs[s].layer
    BY <1>15, <1>16
  <2> HIDE DEF s
  <2>2. s - 1 \in 1 .. e /\ s - 1 <= s
    BY <1>1, <2>1
  <2>3. fs[s - 1].layer # fs[s].layer
    BY <1>2, <2>1
  <2>4. fs[s - 1].layer <= fs[s].layer
    BY <1>13, <2>1, <2>2
  <2>5. fs[s - 1].layer \in Int /\ fs[s].layer \in Int
    BY <1>1, <2>1, <2>2
  <2>6. fs[s - 1].layer < ids[n]
    BY <2>1, <2>3, <2>4, <2>5
  <2> QED
    BY <2>2, <2>6 DEF s
<1>17. ASSUME NEW n \in 1 .. z, NEW i \in 1 .. e, i < st[n]
       PROVE  fs[i].layer < ids[n]
  <2>1. st[n] # 1 /\ st[n] \in 1 .. e
    BY <1>15, <1>17
  <2> DEFINE s == st[n] - 1
  <2>2. fs[s].layer < ids[n] /\ s \in 1 .. e
    BY <1>16, <2>1
  <2>3. i <= s
    BY <1>17, <2>1
  <2> HIDE DEF s
  <2>4. fs[i].layer <= fs[s].layer
    BY <1>13, <2>2, <2>3
  <2>5. fs[i].layer \in Int /\ fs[s].layer \in Int /\ ids[n] \in Int
    BY <1>1, <1>15, <2>2
  <2> QED
    BY <2>2, <2>4, <2>5
<1>18. ASSUME NEW n \in 1 .. z, NEW i \in 1 .. e, i >= st[n + 1]
       PROVE  fs[i].layer > ids[n]
  <2>1. n + 1 \in 1 .. z + 1 /\ n \in 1 .. z + 1 /\ n < n + 1
    BY <1>7
  <2>2. st[n + 1] \in 1 .. e + 1 /\ st[n] < st[n + 1] /\ st[n] \in 1 .. e
    BY <1>10, <1>11, <1>15, <2>1
  <2>3. n + 1 # z + 1
    BY <1>1, <1>9, <1>18, <2>2
  <2>4. n + 1 \in 1 .. z
    BY <1>7, <2>1, <2>3
  <2> DEFINE m == n + 1
             s == st[m] - 1
  <2>5. m \in 1 .. z /\ st[m] # 1
    BY <2>2, <2>4
  <2> HIDE DEF m
  <2>6. fs[s].layer < ids[m] /\ s \in 1 .. e
    BY <1>16, <2>5
  <2>7. s < st[m] /\ st[n] <= s
    BY <2>2, <2>6 DEF m
  <2>8. fs[s].layer = ids[n]
    BY <1>14, <2>6, <2>7 DEF m
  <2>9. ids[m] = fs[st[m]].layer /\ st[m] \in 1 .. e /\ st[m] <= i
    BY <1>15, <1>18, <2>5 DEF m
  <2> HIDE DEF s
  <2>10. fs[st[m]].layer <= fs[i].layer
    BY <1>13, <2>9
  <2>11. fs[i].layer \in Int /\ ids[m] \in Int /\ ids[n] \in Int
    BY <1>1, <1>15, <2>5
  <2> QED
    BY <2>6, <2>8, <2>9, <2>10, <2>11
<1>19. \A n \in 1 .. z : \A i \in 1 .. e :
         /\ fs[i].layer = ids[n] <=> st[n] <= i /\ i < st[n + 1]
         /\ fs[i].layer < ids[n] <=> i < st[n]
  <2> SUFFICES ASSUME NEW n \in 1 .. z, NEW i \in 1 .. e
               PROVE  /\ fs[i].layer = ids[n] <=> st[n] <= i /\ i < st[n + 1]
                      /\ fs[i].layer < ids[n] <=> i < st[n]
    OBVIOUS
  <2>1. n + 1 \in 1 .. z + 1 /\ n \in 1 .. z + 1 /\ n < n + 1
    BY <1>7
  <2>2. st[n] \in Int /\ st[n + 1] \in Int /\ st[n] < st[n + 1]
    BY <1>10, <1>11, <2>1
  <2>3. fs[i].layer \in Int /\ ids[n] \in Int
    BY <1>1, <1>15
  <2>4. CASE i < st[n]
    BY <1>17, <2>2, <2>3, <2>4
  <2>5. CASE st[n] <= i /\ i < st[n + 1]
    BY <1>14, <2>2, <2>3, <2>5
  <2>6. CASE i >= st[n + 1]
    BY <1>18, <2>2, <2>3, <2>6
  <2> QED
    BY <2>2, <2>4, <2>5, <2>6
<1>20. \A n \in 1 .. z : st[n] < st[n + 1]
  <2> SUFFICES ASSUME NEW n \in 1 .. z PROVE st[n] < st[n + 1]
    OBVIOUS
  <2>1. n + 1 \in 1 .. z + 1 /\ n \in 1 .. z + 1 /\ n < n + 1
    BY <1>7
  <2> QED
    BY <1>11, <2>1
<1>21. z > 0 => st[1] = 1
  <2>1. z > 0 => e > 0
    <3>1. z > 0 => 1 \in 1 .. z
      BY <1>7
    <3> QED
      BY <1>1, <1>8, <3>1
  <2> QED
    BY <1>12, <2>1
<1>22. Blocks(st, fs, ids, z)
  BY <1>7, <1>9, <1>10, <1>19, <1>20, <1>21 DEF Blocks, e
<1>23. fs # <<>> => e > 0
  BY <1>1 DEF e
<1> QED
  BY <1>6, <1>7, <1>12, <1>22, <1>23

\* A packet's functions are a block of the program's.
LEMMA BlockFunctions ==
  ASSUME NEW T, NEW fs \in Seq(T), NEW ids, NEW z, NEW st, Blocks(st, fs, ids, z),
         NEW n \in 1 .. z, NEW fn, fn = FunctionsOf(fs, ids[n]), NEW k, k = st[n + 1] - st[n]
  PROVE  /\ fn \in Seq(T) /\ Len(fn) = k /\ k \in Nat \ {0}
         /\ \A j \in 1 .. k : fn[j] = fs[st[n] - 1 + j] /\ st[n] - 1 + j \in DOMAIN fs
<1> DEFINE places == {i \in DOMAIN fs : fs[i].layer = ids[n]}
           a == st[n]
           b == st[n + 1] - 1
<1>1. a \in Int /\ b \in Int /\ 1 <= a /\ a <= b /\ b <= Len(fs) /\ Len(fs) \in Nat /\ k = b - a + 1
      /\ k \in Nat \ {0}
  <2>1. n + 1 \in 1 .. z + 1 /\ n \in 1 .. z + 1
    BY DEF Blocks
  <2>2. st[n] \in 1 .. Len(fs) + 1 /\ st[n + 1] \in 1 .. Len(fs) + 1 /\ st[n] < st[n + 1]
        /\ Len(fs) \in Nat
    BY <2>1 DEF Blocks
  <2> QED
    BY <2>2
<1>2. places = a .. b
  <2>1. \A i \in 1 .. Len(fs) : fs[i].layer = ids[n] <=> a <= i /\ i < st[n + 1]
    BY DEF Blocks
  <2>2. DOMAIN fs = 1 .. Len(fs)
    OBVIOUS
  <2>3. \A i \in 1 .. Len(fs) : i < st[n + 1] <=> i <= b
    <3> DEFINE c == st[n + 1]
    <3>1. n + 1 \in 1 .. z + 1
      BY DEF Blocks
    <3>2. c \in Int
      BY <3>1 DEF Blocks
    <3> HIDE DEF c
    <3>3. \A i \in 1 .. Len(fs) : i < c <=> i <= c - 1
      BY <1>1, <3>2
    <3> QED
      BY <3>3 DEF b, c
  <2> HIDE DEF a, b
  <2>4. \A i \in 1 .. Len(fs) : i \in places <=> i \in a .. b
    BY <1>1, <2>1, <2>2, <2>3
  <2>5. a .. b \subseteq 1 .. Len(fs) /\ places \subseteq 1 .. Len(fs)
    BY <1>1, <2>2
  <2> QED
    BY <2>4, <2>5
<1>3. Cardinality(a .. b) = k
  <2> HIDE DEF a, b
  <2>1. Cardinality(a .. b) = IF a > b THEN 0 ELSE b - a + 1
    BY <1>1, FS_Interval
  <2> QED
    BY <1>1, <2>1
<1>4. fn = Selected(fs, places)
  BY DEF FunctionsOf
<1>5. places \subseteq DOMAIN fs
  OBVIOUS
<1> HIDE DEF places, a, b
<1>11. k = Cardinality(places)
  BY <1>2, <1>3
<1>12. /\ k \in Nat /\ Selected(fs, places) \in Seq(T) /\ Len(Selected(fs, places)) = k
       /\ \E at : Picks(at, places, k) /\ \A j \in 1 .. k : Selected(fs, places)[j] = fs[at[j]]
  BY <1>5, <1>11, SelectedIs
<1>6. /\ fn \in Seq(T) /\ Len(fn) = k
      /\ \E at : Picks(at, a .. b, k) /\ \A j \in 1 .. k : fn[j] = fs[at[j]]
  BY <1>2, <1>4, <1>12
<1>7. PICK at : Picks(at, a .. b, k) /\ \A j \in 1 .. k : fn[j] = fs[at[j]]
  BY <1>6
<1>8. \A j \in 1 .. k : at[j] = a - 1 + j
  <2>1. k \in Nat /\ k = b - a + 1 /\ a \in Int /\ b \in Int /\ Picks(at, places, k)
        /\ places = a .. b
    BY <1>1, <1>2, <1>7
  <2>2. InARow(at, a, k)
    BY <2>1, PicksOfInterval
  <2> QED
    BY <2>2 DEF InARow
<1>9. \A j \in 1 .. k : a - 1 + j \in 1 .. Len(fs)
  BY <1>1
<1>10. DOMAIN fs = 1 .. Len(fs)
  OBVIOUS
<1> QED
  BY <1>1, <1>6, <1>7, <1>8, <1>9, <1>10 DEF a

\* How many functions stand before a packet.
LEMMA BlocksBefore ==
  ASSUME NEW T, NEW fs \in Seq(T), NEW ids, NEW z, NEW st, Blocks(st, fs, ids, z),
         NEW n \in 1 .. z + 1
  PROVE  Cardinality({f \in DOMAIN fs : n > z \/ fs[f].layer < ids[n]}) = st[n] - 1
<1> DEFINE places == {f \in DOMAIN fs : n > z \/ fs[f].layer < ids[n]}
           e == Len(fs)
<1>1. e \in Nat /\ DOMAIN fs = 1 .. e /\ st[n] \in 1 .. e + 1 /\ z \in Nat
  BY DEF Blocks
<1>2. places = 1 .. st[n] - 1
  <2>1. CASE n > z
    <3>1. n = z + 1 /\ st[n] - 1 = e
      BY <1>1, <2>1 DEF Blocks
    <3> QED
      BY <1>1, <2>1, <3>1
  <2>2. CASE ~(n > z)
    <3>1. n \in 1 .. z
      BY <1>1, <2>2
    <3>2. \A i \in 1 .. e : fs[i].layer < ids[n] <=> i < st[n]
      BY <3>1 DEF Blocks
    <3> HIDE DEF e
    <3>3. \A i \in 1 .. e : i \in places <=> i \in 1 .. st[n] - 1
      BY <1>1, <2>2, <3>2
    <3>4. 1 .. st[n] - 1 \subseteq 1 .. e /\ places \subseteq 1 .. e
      BY <1>1
    <3> QED
      BY <3>3, <3>4
  <2> QED
    BY <2>1, <2>2
<1>3. Cardinality(1 .. st[n] - 1) = st[n] - 1
  <2> DEFINE b == st[n] - 1
  <2>1. b \in Nat /\ 1 \in Int
    BY <1>1
  <2> HIDE DEF b
  <2>2. Cardinality(1 .. b) = IF 1 > b THEN 0 ELSE b - 1 + 1
    BY <2>1, FS_Interval
  <2>3. Cardinality(1 .. b) = b
    BY <2>1, <2>2
  <2> QED
    BY <2>3 DEF b
<1> QED
  BY <1>2, <1>3

\* c joins the sequences of ss: the m-th stands from st[m] to before st[m + 1].
Joined(c, ss, st, n) ==
  /\ Len(c) = st[n + 1] - 1
  /\ \A i \in 1 .. st[n + 1] - 1 :
       \E m \in 1 .. n : st[m] <= i /\ i < st[m + 1] /\ c[i] = ss[m][(i - st[m]) + 1]

\* One more sequence joined.
LEMMA JoinOne ==
  ASSUME NEW T, NEW c \in Seq(T), NEW s \in Seq(T), NEW ss, NEW st, NEW n \in Nat \ {0},
         Joined(c, ss, st, n), s = ss[n + 1], st[n + 1] \in Nat, st[n + 2] \in Nat,
         Len(s) = st[n + 2] - st[n + 1]
  PROVE  Joined(c \o s, ss, st, n + 1)
<1> DEFINE a == st[n + 1]
           b == st[n + 2]
           d == c \o s
<1>1. (n + 1) + 1 = n + 2 /\ a \in Nat /\ b \in Nat
  OBVIOUS
<1>2. Len(c) = a - 1 /\ Len(s) = b - a /\ Len(c) \in Nat /\ Len(s) \in Nat
  BY DEF Joined
<1>3. Len(d) = b - 1
  <2>1. Len(d) = Len(c) + Len(s)
    OBVIOUS
  <2> HIDE DEF a, b, d
  <2> QED
    BY <1>1, <1>2, <2>1
<1>4. ASSUME NEW i \in 1 .. b - 1
      PROVE  \E m \in 1 .. n + 1 : st[m] <= i /\ i < st[m + 1] /\ d[i] = ss[m][(i - st[m]) + 1]
  <2>1. CASE i < a
    <3>1. i \in 1 .. a - 1
      <4> HIDE DEF a, b
      <4> QED
        BY <1>1, <2>1
    <3>2. PICK m \in 1 .. n : st[m] <= i /\ i < st[m + 1] /\ c[i] = ss[m][(i - st[m]) + 1]
      BY <3>1 DEF Joined
    <3>3. d[i] = c[i]
      <4>1. i \in 1 .. Len(c)
        BY <1>2, <3>1
      <4> QED
        BY <4>1
    <3>4. m \in 1 .. n + 1
      OBVIOUS
    <3> HIDE DEF d
    <3> QED
      BY <3>2, <3>3, <3>4
  <2>2. CASE ~(i < a)
    <3> HIDE DEF a, b
    <3>1. i > Len(c) /\ i <= Len(c) + Len(s) /\ i - Len(c) = (i - a) + 1 /\ i \in Int /\ a <= i /\ i < b
      BY <1>1, <1>2, <2>2
    <3>2. d[i] = s[i - Len(c)]
      <4>1. i \in 1 .. Len(c) + Len(s) /\ ~(i <= Len(c))
        BY <1>2, <3>1
      <4>2. (c \o s)[i] = s[i - Len(c)]
        BY <4>1
      <4> QED
        BY <4>2
    <3>3. n + 1 \in 1 .. n + 1
      OBVIOUS
    <3> HIDE DEF d
    <3>4. d[i] = ss[n + 1][(i - a) + 1]
      BY <3>1, <3>2
    <3> QED
      BY <1>1, <3>1, <3>3, <3>4 DEF a, b
  <2> QED
    BY <2>1, <2>2
<1> HIDE DEF d
<1> QED
  BY <1>1, <1>3, <1>4 DEF Joined, d

\* Flattening joins the sequences: each stands where the sizes of those before it put it.
LEMMA FlattenJoins ==
  ASSUME NEW T, NEW ss, NEW z \in Nat, z # 0, \A n \in 1 .. z : ss[n] \in Seq(T),
         NEW st, st[1] = 1, \A n \in 1 .. z + 1 : st[n] \in Nat,
         \A n \in 1 .. z : Len(ss[n]) = st[n + 1] - st[n]
  PROVE  Joined(Concatenations(ss, z)[z], ss, st, z)
<1> DEFINE C == Concatenations(ss, z)
           P == {k \in 0 .. z - 1 : C[k + 1] \in Seq(T) /\ Joined(C[k + 1], ss, st, k + 1)}
<1>1. \A i \in 1 .. z : C[i] = IF i = 1 THEN ss[i] ELSE C[i - 1] \o ss[i]
  <2> DEFINE S == Seq(T)
  <2>1. \A x, y \in Seq(T) : x \o y \in Seq(T)
    OBVIOUS
  <2>2. Concatenates(S) /\ \A i \in 1 .. z : ss[i] \in S
    BY <2>1 DEF Concatenates
  <2> HIDE DEF S
  <2> QED
    BY <2>2, FlattenUnfolds
<1> HIDE DEF C
<1>2. 0 \in P
  <2>1. 0 \in 0 .. z - 1 /\ 1 \in 1 .. z /\ 2 \in 1 .. z + 1
    OBVIOUS
  <2>2. C[1] = ss[1] /\ ss[1] \in Seq(T) /\ Len(ss[1]) = st[2] - 1 /\ st[2] \in Nat
    BY <1>1, <2>1
  <2>3. ASSUME NEW i \in 1 .. st[2] - 1 PROVE st[1] <= i /\ i < st[2] /\ (i - st[1]) + 1 = i
    <3> DEFINE b == st[2]
    <3>1. b \in Nat /\ i \in 1 .. b - 1
      BY <2>2
    <3> HIDE DEF b
    <3>2. 1 <= i /\ i < b /\ (i - 1) + 1 = i
      BY <3>1
    <3> QED
      BY <3>2 DEF b
  <2>4. 1 \in 1 .. 1 /\ 1 + 1 = 2 /\ 0 + 1 = 1
    OBVIOUS
  <2>5. Joined(C[1], ss, st, 1)
    BY <2>2, <2>3, <2>4 DEF Joined
  <2> QED
    BY <2>1, <2>2, <2>4, <2>5
<1>3. ASSUME NEW k \in 0 .. z - 1 - 1, k \in P PROVE k + 1 \in P
  <2> DEFINE n == k + 1
  <2>1. n \in Nat \ {0} /\ n + 1 \in 1 .. z /\ n + 1 # 1 /\ (n + 1) - 1 = n /\ n + 1 \in 1 .. z + 1
        /\ n + 2 \in 1 .. z + 1 /\ (n + 1) + 1 = n + 2 /\ n \in 0 .. z - 1
    OBVIOUS
  <2>2. C[n] \in Seq(T) /\ Joined(C[n], ss, st, n)
    BY <1>3
  <2> HIDE DEF n, P
  <2>3. C[n + 1] = C[n] \o ss[n + 1]
    BY <1>1, <2>1
  <2>4. ss[n + 1] \in Seq(T) /\ st[n + 1] \in Nat /\ st[n + 2] \in Nat
        /\ Len(ss[n + 1]) = st[n + 2] - st[n + 1]
    BY <2>1
  <2>5. Joined(C[n] \o ss[n + 1], ss, st, n + 1)
    BY <2>1, <2>2, <2>4, JoinOne
  <2>6. C[n + 1] \in Seq(T)
    BY <2>2, <2>3, <2>4
  <2> QED
    BY <2>1, <2>3, <2>5, <2>6 DEF P, n
<1>4. z - 1 \in P
  <2> HIDE DEF P
  <2>1. z - 1 \in Nat
    OBVIOUS
  <2> QED
    BY <1>2, <1>3, <2>1, TermByTerm
<1>5. (z - 1) + 1 = z
  OBVIOUS
<1> QED
  BY <1>4, <1>5 DEF C

\* Sums from the first on.
PrefixTotals(P, b, z) ==
  /\ P[0] = 0 /\ \A k \in 0 .. z : P[k] \in Nat
  /\ \A k \in 1 .. z : P[k] = P[k - 1] + b[k]

LEMMA PrefixSums ==
  ASSUME NEW z \in Nat, NEW b, \A m \in 1 .. z : b[m] \in Nat, NEW P,
         \A k \in 0 .. z : P[k] = SumFunctionOnSet(b, 1 .. k)
  PROVE  PrefixTotals(P, b, z)
<1>1. P[0] = 0
  <2>1. 1 .. 0 = {} /\ 0 \in 0 .. z
    OBVIOUS
  <2> QED
    BY <2>1, SumEmpty
<1>2. ASSUME NEW k \in 0 .. z PROVE P[k] \in Nat
  <2>1. IsFiniteSet(1 .. k) /\ \A m \in 1 .. k : b[m] \in Nat
    BY FS_Interval
  <2> QED
    BY <2>1, SumNat
<1>3. ASSUME NEW k \in 1 .. z PROVE P[k] = P[k - 1] + b[k]
  <2>1. IsFiniteSet(1 .. k) /\ (\A m \in 1 .. k : b[m] \in Int) /\ k \in 1 .. k
        /\ k \in 0 .. z /\ k - 1 \in 0 .. z
    BY FS_Interval
  <2>2. (1 .. k) \ {k} = 1 .. k - 1
    OBVIOUS
  <2>3. SumFunctionOnSet(b, 1 .. k) = b[k] + SumFunctionOnSet(b, (1 .. k) \ {k})
    BY <2>1, SumTakes
  <2>4. P[k] = b[k] + P[k - 1]
    BY <2>1, <2>2, <2>3
  <2>5. P[k - 1] \in Nat /\ b[k] \in Nat
    BY <1>2, <2>1
  <2> QED
    BY <2>4, <2>5
<1> QED
  BY <1>1, <1>2, <1>3 DEF PrefixTotals

LEMMA PrefixesGrow ==
  ASSUME NEW z \in Nat, NEW P, \A k \in 0 .. z : P[k] \in Nat, \A k \in 1 .. z : P[k - 1] <= P[k],
         NEW a \in 0 .. z
  PROVE  P[a] <= P[z]
<1> DEFINE w == z - a
           T == {d \in 0 .. w : P[a] <= P[a + d]}
<1>1. w \in Nat /\ a + w = z /\ a + 0 = a
  OBVIOUS
<1>2. 0 \in T
  BY <1>1
<1>3. ASSUME NEW d \in 0 .. w - 1, d \in T PROVE d + 1 \in T
  <2>1. a + (d + 1) \in 1 .. z /\ (a + (d + 1)) - 1 = a + d /\ d + 1 \in 0 .. w
        /\ a + d \in 0 .. z /\ a + (d + 1) \in 0 .. z
    OBVIOUS
  <2>2. P[a + d] <= P[a + (d + 1)] /\ P[a] <= P[a + d]
    BY <1>3, <2>1
  <2>3. P[a + d] \in Nat /\ P[a] \in Nat /\ P[a + (d + 1)] \in Nat
    BY <2>1
  <2>4. P[a] <= P[a + (d + 1)]
    BY <2>2, <2>3
  <2> QED
    BY <2>1, <2>4
<1> HIDE DEF T, w
<1>4. w \in T
  BY <1>1, <1>2, <1>3, TermByTerm
<1> QED
  BY <1>1, <1>4 DEF T

----------------------------------------------------------------------------
(* An image as it is laid out *)

\* Where the n-th packet begins, before any weights.
Begins(st, fmap, n) ==
  HeaderBytes + fmap + PacketHeaderBytes * (n - 1) + DescriptorBytes * (st[n] - 1)
PacketLaidOut(p, fs, st, ids, n, fmap, bytes, at) ==
  /\ p.at = Begins(st, fmap, n) /\ p.layer = ids[n] /\ p.num = st[n + 1] - st[n]
  /\ p.size = PacketHeaderBytes + DescriptorBytes * (st[n + 1] - st[n])
  /\ p.functions = FunctionsOf(fs, ids[n])
  /\ p.blobSize = bytes /\ p.blobAt = IF bytes > 0 THEN at ELSE 0
\* An image of fs, its packets cut at st; b: bytes of weights by packet.
LaidOut(img, fs, st, ids, z, b, fmap, P) ==
  /\ img.numLayers = z /\ img.fmapSize = fmap /\ img.fmapAt = (IF fmap > 0 THEN HeaderBytes ELSE 0)
  /\ img.weightsAt = (IF \E n \in 1 .. z : b[n] > 0 THEN Begins(st, fmap, z + 1) ELSE 0)
  /\ img.total = Begins(st, fmap, z + 1) + P[z]
  /\ \A n \in 1 .. z : PacketLaidOut(img.packets[n], fs, st, ids, n, fmap, b[n],
                                     Begins(st, fmap, z + 1) + P[n - 1])

\* The image of fs as it is laid out, with weights where some are attached.
IsLaidOut(img, fs, blobs, fmap) ==
  \E z, ids, st, b, P : /\ Blocks(st, fs, ids, z) /\ z > 0
                        /\ (\A n \in 1 .. z : b[n] \in Nat) /\ PrefixTotals(P, b, z)
                        /\ LaidOut(img, fs, st, ids, z, b, fmap, P)
                        /\ (DOMAIN blobs = {} => \A n \in 1 .. z : b[n] = 0)

\* BuildImage lays a program in order out so.
LEMMA LaidOutIs ==
  ASSUME NEW T, NEW fs \in Seq(T), \A f \in T : f.layer \in Int /\ f.fid \in Int, InOrder(fs),
         fs # <<>>, NEW blobs, \A x \in DOMAIN blobs : blobs[x] \in Nat, NEW fmap \in Nat,
         NEW img, img = BuildImage(fs, blobs, fmap)
  PROVE  IsLaidOut(img, fs, blobs, fmap)
<1> DEFINE ids == PacketLayers(fs)
           z == Len(ids)
<1>1. Sorted(fs) = fs
  BY SortedStays
<1>2. ByLayer(fs)
  <2>1. DOMAIN fs = 1 .. Len(fs) /\ \A i \in DOMAIN fs : fs[i].layer \in Int
    OBVIOUS
  <2> QED
    BY <2>1 DEF InOrder, SortsBefore, ByLayer
<1>3. z \in Nat /\ DOMAIN ids = 1 .. z /\ z > 0 /\ \E st : Blocks(st, fs, ids, z)
  <2>1. ids = PacketLayers(fs) /\ z = Len(ids)
    OBVIOUS
  <2> HIDE DEF ids, z
  <2>2. /\ z \in Nat /\ DOMAIN ids = 1 .. z /\ (fs # <<>> => z > 0)
        /\ \E st : Blocks(st, fs, ids, z)
    BY <1>2, <2>1, PacketBlocks
  <2> QED
    BY <2>2
<1>4. PICK st : Blocks(st, fs, ids, z)
  BY <1>3
<1> DEFINE b == [n \in 1 .. z |-> BlobBytes(blobs, ids[n])]
           P == [k \in 0 .. z |-> SumFunctionOnSet(b, 1 .. k)]
           At(n) == HeaderBytes + fmap + PacketHeaderBytes * (n - 1)
                    + DescriptorBytes * Cardinality({f \in DOMAIN fs : n > z \/ fs[f].layer < ids[n]})
           S(n) == SumFunction([m \in 1 .. n - 1 |-> BlobBytes(blobs, ids[m])])
           Num(n) == Len(FunctionsOf(fs, ids[n]))
           packet(n) ==
             [at |-> At(n), layer |-> ids[n], num |-> Num(n),
              size |-> PacketHeaderBytes + DescriptorBytes * Num(n),
              functions |-> FunctionsOf(fs, ids[n]),
              blobAt |-> IF BlobBytes(blobs, ids[n]) > 0 THEN At(z + 1) + S(n) ELSE 0,
              blobSize |-> BlobBytes(blobs, ids[n])]
           built == [numLayers |-> z, total |-> At(z + 1) + S(z + 1),
                     fmapAt |-> IF fmap > 0 THEN HeaderBytes ELSE 0, fmapSize |-> fmap,
                     weightsAt |-> IF \E i \in DOMAIN ids : BlobBytes(blobs, ids[i]) > 0 THEN At(z + 1) ELSE 0,
                     packets |-> [i \in DOMAIN ids |-> packet(i)]]
<1>5. img = built
  BY <1>1 DEF BuildImage
<1> HIDE DEF ids, z
<1>6. \A n \in 1 .. z : b[n] \in Nat
  BY DEF BlobBytes
<1>17. DOMAIN blobs = {} => \A n \in 1 .. z : b[n] = 0
  BY DEF BlobBytes
<1>7. \A k \in 0 .. z : P[k] = SumFunctionOnSet(b, 1 .. k)
  OBVIOUS
<1>8. PrefixTotals(P, b, z)
  <2> HIDE DEF b, P
  <2>1. z \in Nat /\ \A n \in 1 .. z : b[n] \in Nat
    BY <1>3, <1>6
  <2> QED
    BY <1>7, <2>1, PrefixSums
<1>9. ASSUME NEW n \in 1 .. z + 1 PROVE S(n) = P[n - 1]
  <2> DEFINE c == [m \in 1 .. n - 1 |-> BlobBytes(blobs, ids[m])]
  <2>1. n - 1 \in 0 .. z /\ IsFiniteSet(1 .. n - 1) /\ \A m \in 1 .. n - 1 : m \in 1 .. z
    BY <1>3, FS_Interval
  <2>2. \A m \in 1 .. n - 1 : c[m] = b[m] /\ c[m] \in Int
    BY <2>1 DEF BlobBytes
  <2>3. DOMAIN c = 1 .. n - 1
    OBVIOUS
  <2>4. S(n) = SumFunctionOnSet(c, DOMAIN c)
    BY DEF SumFunction
  <2> HIDE DEF b, c, P, S
  <2>5. SumFunctionOnSet(c, 1 .. n - 1) = SumFunctionOnSet(b, 1 .. n - 1)
    BY <2>1, <2>2, SumSame
  <2> QED
    BY <1>7, <2>1, <2>3, <2>4, <2>5
<1>10. ASSUME NEW n \in 1 .. z + 1 PROVE At(n) = Begins(st, fmap, n)
  <2> DEFINE c == Cardinality({f \in DOMAIN fs : n > z \/ fs[f].layer < ids[n]})
  <2>1. c = st[n] - 1
    BY <1>4, BlocksBefore
  <2>2. At(n) = HeaderBytes + fmap + PacketHeaderBytes * (n - 1) + DescriptorBytes * c
    OBVIOUS
  <2> HIDE DEF c, At
  <2> QED
    BY <2>1, <2>2 DEF Begins
<1>11. ASSUME NEW n \in 1 .. z PROVE Num(n) = st[n + 1] - st[n]
  <2> DEFINE fn == FunctionsOf(fs, ids[n])
             k == st[n + 1] - st[n]
  <2>1. fn = FunctionsOf(fs, ids[n]) /\ k = st[n + 1] - st[n] /\ Num(n) = Len(fn)
    OBVIOUS
  <2> HIDE DEF fn, k, Num
  <2>2. Len(fn) = k
    BY <1>4, <2>1, BlockFunctions
  <2> QED
    BY <2>1, <2>2
<1> HIDE DEF At, S, Num, P, b
<1>12. z + 1 \in 1 .. z + 1 /\ (z + 1) - 1 = z
  BY <1>3
<1>13. /\ img.numLayers = z /\ img.fmapSize = fmap
       /\ img.fmapAt = (IF fmap > 0 THEN HeaderBytes ELSE 0)
       /\ img.total = Begins(st, fmap, z + 1) + P[z]
  BY <1>5, <1>9, <1>10, <1>12
<1>14. img.weightsAt = (IF \E n \in 1 .. z : b[n] > 0 THEN Begins(st, fmap, z + 1) ELSE 0)
  <2>1. img.weightsAt = IF \E i \in DOMAIN ids : BlobBytes(blobs, ids[i]) > 0 THEN At(z + 1) ELSE 0
    BY <1>5
  <2>2. \A n \in 1 .. z : b[n] = BlobBytes(blobs, ids[n])
    BY DEF b
  <2> HIDE DEF built
  <2> QED
    BY <1>3, <1>10, <1>12, <2>1, <2>2
<1>15. ASSUME NEW n \in 1 .. z
       PROVE  PacketLaidOut(img.packets[n], fs, st, ids, n, fmap, b[n],
                            Begins(st, fmap, z + 1) + P[n - 1])
  <2>1. img.packets[n] = packet(n)
    BY <1>3, <1>5
  <2>2. n \in 1 .. z + 1
    BY <1>3
  <2>3. b[n] = BlobBytes(blobs, ids[n])
    BY DEF b
  <2>4. At(n) = Begins(st, fmap, n) /\ At(z + 1) = Begins(st, fmap, z + 1) /\ S(n) = P[n - 1]
        /\ Num(n) = st[n + 1] - st[n]
    BY <1>9, <1>10, <1>11, <1>12, <2>2
  <2> HIDE DEF built
  <2> QED
    BY <2>1, <2>3, <2>4 DEF PacketLaidOut
<1>16. LaidOut(img, fs, st, ids, z, b, fmap, P)
  BY <1>13, <1>14, <1>15 DEF LaidOut
<1> HIDE DEF built
<1> QED
  BY <1>3, <1>4, <1>6, <1>8, <1>16, <1>17 DEF IsLaidOut

\* Sizes and places in such an image are numbers, and the packets follow on each other.
LEMMA LaidOutNumbers ==
  ASSUME NEW fs, Len(fs) \in Nat, NEW z, NEW ids, NEW st, NEW b, NEW P, Blocks(st, fs, ids, z), z > 0,
         \A n \in 1 .. z : b[n] \in Nat, PrefixTotals(P, b, z), NEW fmap \in Nat
  PROVE  /\ z \in Nat /\ \A n \in 1 .. z : P[n - 1] \in Nat /\ P[n - 1] + b[n] <= P[z]
         /\ P[z] \in Nat
         /\ \A n \in 1 .. z + 1 : /\ Begins(st, fmap, n) \in Nat
                                  /\ Begins(st, fmap, n) >= HeaderBytes + fmap
         /\ \A n \in 1 .. z : /\ st[n + 1] - st[n] \in Nat
                              /\ Begins(st, fmap, n + 1) =
                                   Begins(st, fmap, n) + (PacketHeaderBytes + DescriptorBytes * (st[n + 1] - st[n]))
<1>1. z \in Nat /\ \A n \in 1 .. z + 1 : st[n] \in Nat \ {0}
  BY DEF Blocks
<1>2. \A n \in 1 .. z : st[n] < st[n + 1]
  BY DEF Blocks
<1>3. (\A k \in 0 .. z : P[k] \in Nat) /\ \A k \in 1 .. z : P[k] = P[k - 1] + b[k]
  BY DEF PrefixTotals
<1>4. ASSUME NEW n \in 1 .. z PROVE P[n - 1] \in Nat /\ P[n - 1] + b[n] <= P[z]
  <2>1. n - 1 \in 0 .. z /\ n \in 0 .. z
    BY <1>1
  <2>2. \A k \in 1 .. z : P[k - 1] <= P[k]
    <3> SUFFICES ASSUME NEW k \in 1 .. z PROVE P[k - 1] <= P[k]
      OBVIOUS
    <3>1. k - 1 \in 0 .. z
      BY <1>1
    <3>2. P[k - 1] \in Nat /\ b[k] \in Nat /\ P[k] = P[k - 1] + b[k]
      BY <1>3, <3>1
    <3> QED
      BY <3>2
  <2>3. P[n] <= P[z]
    BY <1>1, <1>3, <2>1, <2>2, PrefixesGrow
  <2>4. P[n] = P[n - 1] + b[n] /\ P[n - 1] \in Nat
    BY <1>3, <2>1
  <2> QED
    BY <2>3, <2>4
<1>5. ASSUME NEW n \in 1 .. z + 1
      PROVE  Begins(st, fmap, n) \in Nat /\ Begins(st, fmap, n) >= HeaderBytes + fmap
  <2>1. PICK s \in Nat \ {0} : s = st[n]
    BY <1>1
  <2>2. PICK d \in Nat : d = s - 1
    BY <2>1
  <2>3. PICK m \in Nat : m = n - 1
    BY <1>1
  <2>4. 32 + fmap + 24 * m + 200 * d \in Nat /\ 32 + fmap + 24 * m + 200 * d >= 32 + fmap
    OBVIOUS
  <2>5. Begins(st, fmap, n) = 32 + fmap + 24 * m + 200 * d
    BY <2>1, <2>2, <2>3 DEF Begins, HeaderBytes, PacketHeaderBytes, DescriptorBytes
  <2> QED
    BY <2>4, <2>5 DEF HeaderBytes
<1>6. ASSUME NEW n \in 1 .. z
      PROVE  /\ st[n + 1] - st[n] \in Nat
             /\ Begins(st, fmap, n + 1) =
                  Begins(st, fmap, n) + (PacketHeaderBytes + DescriptorBytes * (st[n + 1] - st[n]))
  <2>1. n \in 1 .. z + 1 /\ n + 1 \in 1 .. z + 1 /\ st[n] < st[n + 1]
    BY <1>1, <1>2
  <2>2. PICK s \in Nat \ {0} : s = st[n]
    BY <1>1, <2>1
  <2>3. PICK t \in Nat \ {0} : t = st[n + 1]
    BY <1>1, <2>1
  <2>4. s < t /\ t - s \in Nat
    BY <2>1, <2>2, <2>3
  <2>5. 32 + fmap + 24 * (n + 1 - 1) + 200 * (t - 1)
          = (32 + fmap + 24 * (n - 1) + 200 * (s - 1)) + (24 + 200 * (t - s))
    BY <1>1
  <2> QED
    BY <2>2, <2>3, <2>4, <2>5 DEF Begins, HeaderBytes, PacketHeaderBytes, DescriptorBytes
<1>7. P[z] \in Nat
  BY <1>1, <1>3
<1> QED
  BY <1>1, <1>4, <1>5, <1>6, <1>7

\* The walk over the packets finds each where it is.
Walks(img, z, B, size) ==
  /\ img.numLayers = z /\ B[1] = HeaderBytes + img.fmapSize
  /\ \A n \in 1 .. z : img.packets[n].size = size[n] /\ B[n + 1] = B[n] + size[n]
\* Stepping by the stored sizes, the parser meets each packet at its place.
LEMMA WalkFinds ==
  ASSUME NEW img, NEW z \in Nat, NEW B, NEW size, Walks(img, z, B, size), NEW n \in 1 .. z
  PROVE  PacketAt(img)[n] = B[n]
<1>12. /\ img.numLayers = z /\ B[1] = HeaderBytes + img.fmapSize
       /\ \A m \in 1 .. z : img.packets[m].size = size[m] /\ B[m + 1] = B[m] + size[m]
  BY DEF Walks
<1> DEFINE Body(f) == [m \in 1 .. z |-> IF m = 1 THEN HeaderBytes + img.fmapSize
                                                 ELSE f[m - 1] + img.packets[m - 1].size]
           at == CHOOSE f : f = Body(f)
           w == [m \in 1 .. z |-> B[m]]
<1>1. PacketAt(img) = at
  BY <1>12 DEF PacketAt
<1>2. \A m \in 1 .. z : w[m] = IF m = 1 THEN HeaderBytes + img.fmapSize
                               ELSE w[m - 1] + img.packets[m - 1].size
  <2> SUFFICES ASSUME NEW m \in 1 .. z
               PROVE  w[m] = IF m = 1 THEN HeaderBytes + img.fmapSize
                             ELSE w[m - 1] + img.packets[m - 1].size
    OBVIOUS
  <2>1. CASE m = 1
    BY <1>12, <2>1
  <2>2. CASE m # 1
    <3>1. m - 1 \in 1 .. z /\ (m - 1) + 1 = m
      BY <2>2
    <3>2. B[m] = B[m - 1] + size[m - 1] /\ img.packets[m - 1].size = size[m - 1]
      BY <1>12, <3>1
    <3> QED
      BY <2>2, <3>1, <3>2
  <2> QED
    BY <2>1, <2>2
<1> HIDE DEF w
<1>3. w = Body(w)
  <2>1. w = [m \in 1 .. z |-> w[m]]
    BY DEF w
  <2> QED
    BY <1>2, <2>1
<1> HIDE DEF Body
<1>4. at = Body(at)
  BY <1>3
<1> HIDE DEF at
<1>5. \A m \in 1 .. z : at[m] = IF m = 1 THEN HeaderBytes + img.fmapSize
                               ELSE at[m - 1] + img.packets[m - 1].size
  BY <1>4 DEF Body
<1> DEFINE P == {k \in 0 .. z - 1 : at[k + 1] = B[k + 1]}
<1>6. z - 1 \in Nat /\ z > 0
  OBVIOUS
<1>7. 0 \in P
  BY <1>5, <1>6, <1>12
<1>8. ASSUME NEW k \in 0 .. z - 1 - 1, k \in P PROVE k + 1 \in P
  <2>1. (k + 1) + 1 \in 1 .. z /\ (k + 1) + 1 # 1 /\ ((k + 1) + 1) - 1 = k + 1 /\ k + 1 \in 1 .. z
        /\ k + 1 \in 0 .. z - 1
    OBVIOUS
  <2>2. at[(k + 1) + 1] = at[k + 1] + img.packets[k + 1].size
    BY <1>5, <2>1
  <2>3. at[k + 1] = B[k + 1] /\ img.packets[k + 1].size = size[k + 1]
        /\ B[(k + 1) + 1] = B[k + 1] + size[k + 1]
    BY <1>8, <1>12, <2>1
  <2> QED
    BY <2>1, <2>2, <2>3
<1>9. \A k \in 0 .. z - 1 : k \in P
  <2> SUFFICES ASSUME NEW k \in 0 .. z - 1 PROVE k \in P
    OBVIOUS
  <2>1. \A m \in 0 .. k - 1 : m \in 0 .. z - 1 - 1
    BY <1>6
  <2> HIDE DEF P
  <2>2. k \in Nat /\ \A m \in 0 .. k - 1 : m \in P => m + 1 \in P
    BY <1>8, <2>1
  <2> QED
    BY <1>7, <2>2, TermByTerm
<1>10. n - 1 \in 0 .. z - 1 /\ (n - 1) + 1 = n
  OBVIOUS
<1>11. n - 1 \in P
  BY <1>9, <1>10
<1> QED
  BY <1>1, <1>10, <1>11

\* If no weights are found, there are none.
LEMMA NoBlobs ==
  ASSUME NEW fs, Len(fs) \in Nat, NEW z, NEW ids, NEW st, NEW b, NEW P, Blocks(st, fs, ids, z), z > 0,
         \A n \in 1 .. z : b[n] \in Nat, PrefixTotals(P, b, z), NEW fmap \in Nat,
         NEW img, LaidOut(img, fs, st, ids, z, b, fmap, P), Range(LoadedBlobs(img)) = {0}
  PROVE  (\A n \in 1 .. z : b[n] = 0) /\ P[z] = 0
<1>1. /\ z \in Nat /\ \A n \in 1 .. z : P[n - 1] \in Nat /\ P[n - 1] + b[n] <= P[z]
      /\ P[z] \in Nat
      /\ \A n \in 1 .. z + 1 : /\ Begins(st, fmap, n) \in Nat
                               /\ Begins(st, fmap, n) >= HeaderBytes + fmap
  BY LaidOutNumbers
<1> DEFINE w == Begins(st, fmap, z + 1)
<1>2. w \in Nat
  BY <1>1
<1>3. img.numLayers = z /\ img.total = w + P[z]
      /\ img.weightsAt = (IF \E n \in 1 .. z : b[n] > 0 THEN w ELSE 0)
  BY DEF LaidOut
<1>4. ASSUME NEW n \in 1 .. z, b[n] # 0 PROVE FALSE
  <2> DEFINE p == img.packets[n]
             found == IF /\ p.blobSize > 0 /\ p.blobAt >= img.weightsAt
                         /\ p.blobAt + p.blobSize <= img.total
                      THEN p.blobSize ELSE 0
  <2>1. b[n] \in Nat /\ b[n] > 0
    BY <1>4
  <2>2. p.blobSize = b[n] /\ p.blobAt = IF b[n] > 0 THEN w + P[n - 1] ELSE 0
    BY DEF LaidOut, PacketLaidOut
  <2>3. p.blobAt = w + P[n - 1] /\ img.weightsAt = w
    BY <1>3, <2>1, <2>2
  <2> HIDE DEF w
  <2>4. p.blobSize > 0 /\ p.blobAt >= img.weightsAt /\ p.blobAt + p.blobSize <= img.total
    <3>1. P[n - 1] \in Nat /\ P[n - 1] + b[n] <= P[z] /\ P[z] \in Nat
      BY <1>1
    <3>2. img.total = w + P[z]
      BY <1>3
    <3> DEFINE q == P[n - 1]
               r == P[z]
               x == b[n]
    <3>3. q \in Nat /\ r \in Nat /\ q + x <= r /\ x \in Nat
      BY <2>1, <3>1
    <3>4. p.blobSize = x /\ p.blobAt = w + q /\ img.total = w + r /\ img.weightsAt = w /\ x > 0
      BY <2>1, <2>2, <2>3, <3>2
    <3> HIDE DEF p, q, r, x
    <3>5. w + q >= w /\ (w + q) + x <= w + r
      BY <1>2, <3>3
    <3> QED
      BY <3>4, <3>5
  <2>5. found = b[n]
    BY <2>2, <2>4
  <2>6. LoadedBlobs(img)[n] = found /\ n \in DOMAIN LoadedBlobs(img)
    BY <1>3 DEF LoadedBlobs
  <2> HIDE DEF found, p
  <2>7. b[n] \in Range(LoadedBlobs(img))
    BY <2>5, <2>6 DEF Range
  <2> QED
    BY <1>4, <2>7
<1>5. \A n \in 1 .. z : b[n] = 0
  BY <1>4
<1>6. P[z] = 0
  <2> DEFINE T == {k \in 0 .. z : P[k] = 0}
  <2>1. 0 \in T
    BY <1>1 DEF PrefixTotals
  <2>2. ASSUME NEW k \in 0 .. z - 1, k \in T PROVE k + 1 \in T
    <3>1. k + 1 \in 1 .. z /\ (k + 1) - 1 = k /\ k + 1 \in 0 .. z
      BY <1>1
    <3>2. P[k + 1] = P[k] + b[k + 1]
      BY <3>1 DEF PrefixTotals
    <3> QED
      BY <1>5, <2>2, <3>1, <3>2
  <2> HIDE DEF T
  <2>3. z \in T
    BY <1>1, <2>1, <2>2, TermByTerm
  <2> QED
    BY <2>3 DEF T
<1> QED
  BY <1>5, <1>6

\* Such an image is read whole or not at all.
LEMMA ParsedWhole ==
  ASSUME NEW fs, Len(fs) \in Nat, NEW z, NEW ids, NEW st, NEW b, NEW P, Blocks(st, fs, ids, z), z > 0,
         \A n \in 1 .. z : b[n] \in Nat, PrefixTotals(P, b, z), NEW fmap \in Nat,
         NEW img, LaidOut(img, fs, st, ids, z, b, fmap, P), Range(LoadedBlobs(img)) = {0},
         NEW length \in Int, NEW parsed, parsed = ParseImage(img, length)
  PROVE  /\ parsed.ok = (length >= img.total)
         /\ parsed.ok => parsed.layers = FlattenSeq([n \in 1 .. z |-> PacketLoaded(img.packets[n], n - 1)])
         /\ ~parsed.ok => DOMAIN parsed.layers = {}
<1>1. (\A n \in 1 .. z : b[n] = 0) /\ P[z] = 0
  BY NoBlobs
<1>2. /\ z \in Nat
      /\ \A n \in 1 .. z + 1 : /\ Begins(st, fmap, n) \in Nat
                               /\ Begins(st, fmap, n) >= HeaderBytes + fmap
      /\ \A n \in 1 .. z : /\ st[n + 1] - st[n] \in Nat
                           /\ Begins(st, fmap, n + 1) =
                                Begins(st, fmap, n) + (PacketHeaderBytes + DescriptorBytes * (st[n + 1] - st[n]))
  BY LaidOutNumbers
<1>20. \A n \in 1 .. z : st[n + 1] - st[n] \in Nat
  BY <1>2
<1>21. \A n \in 1 .. z : Begins(st, fmap, n + 1) =
          Begins(st, fmap, n) + (PacketHeaderBytes + DescriptorBytes * (st[n + 1] - st[n]))
  BY <1>2
<1> DEFINE B == [n \in 1 .. z + 1 |-> Begins(st, fmap, n)]
           size == [n \in 1 .. z |-> PacketHeaderBytes + DescriptorBytes * (st[n + 1] - st[n])]
<1>3. /\ \A n \in 1 .. z + 1 : B[n] \in Nat /\ B[n] >= HeaderBytes + fmap
      /\ \A n \in 1 .. z : B[n + 1] = B[n] + size[n] /\ size[n] \in Nat
      /\ \A n \in 1 .. z : size[n] = PacketHeaderBytes + DescriptorBytes * (st[n + 1] - st[n])
  <2>1. \A n \in 1 .. z + 1 : B[n] = Begins(st, fmap, n)
    OBVIOUS
  <2>2. \A n \in 1 .. z : size[n] = PacketHeaderBytes + DescriptorBytes * (st[n + 1] - st[n])
    OBVIOUS
  <2>3. \A n \in 1 .. z : n \in 1 .. z + 1 /\ n + 1 \in 1 .. z + 1
    BY <1>2
  <2> HIDE DEF B, size
  <2>4. \A n \in 1 .. z : size[n] \in Nat
    <3>1. \A d \in Nat : PacketHeaderBytes + DescriptorBytes * d \in Nat
      BY DEF PacketHeaderBytes, DescriptorBytes
    <3> QED
      BY <1>20, <2>2, <3>1
  <2>5. \A n \in 1 .. z + 1 : B[n] \in Nat /\ B[n] >= HeaderBytes + fmap
    BY <1>2, <2>1
  <2>6. \A n \in 1 .. z : B[n + 1] = B[n] + size[n]
    BY <1>21, <2>1, <2>2, <2>3
  <2> QED
    BY <2>2, <2>4, <2>5, <2>6
<1>4. B[1] = HeaderBytes + img.fmapSize
  <2>1. st[1] = 1 /\ img.fmapSize = fmap /\ 1 \in 1 .. z + 1
    BY <1>2 DEF Blocks, LaidOut
  <2>2. B[1] = HeaderBytes + fmap + PacketHeaderBytes * (1 - 1) + DescriptorBytes * (1 - 1)
    BY <2>1 DEF Begins
  <2> QED
    BY <2>1, <2>2 DEF HeaderBytes, PacketHeaderBytes, DescriptorBytes
<1>5. img.total = B[z + 1]
  <2>1. z + 1 \in 1 .. z + 1 /\ B[z + 1] \in Nat
    BY <1>2, <1>3
  <2>2. img.total = Begins(st, fmap, z + 1) + P[z] /\ B[z + 1] = Begins(st, fmap, z + 1)
    BY <2>1 DEF LaidOut
  <2> QED
    BY <1>1, <2>1, <2>2
<1>6. ASSUME NEW n \in 1 .. z
      PROVE  LET p == img.packets[n]
             IN  /\ p.at = B[n] /\ p.size = size[n] /\ p.blobSize = 0 /\ p.num = st[n + 1] - st[n]
  <2>1. PacketLaidOut(img.packets[n], fs, st, ids, n, fmap, b[n], Begins(st, fmap, z + 1) + P[n - 1])
    BY DEF LaidOut
  <2>2. n \in 1 .. z + 1
    BY <1>2
  <2>3. B[n] = Begins(st, fmap, n) /\ size[n] = PacketHeaderBytes + DescriptorBytes * (st[n + 1] - st[n])
    BY <2>2
  <2> QED
    BY <1>1, <2>1, <2>3 DEF PacketLaidOut
<1> HIDE DEF B, size
<1>7. img.numLayers = z /\ img.fmapSize = fmap /\ img.fmapAt = IF fmap > 0 THEN HeaderBytes ELSE 0
  BY DEF LaidOut
<1>8. \A n \in 1 .. z : B[n] + size[n] <= img.total
  <2>1. \A k \in 0 .. z : B[k + 1] \in Nat
    BY <1>2, <1>3
  <2>2. \A k \in 1 .. z : B[(k - 1) + 1] <= B[k + 1]
    <3> SUFFICES ASSUME NEW k \in 1 .. z PROVE B[(k - 1) + 1] <= B[k + 1]
      OBVIOUS
    <3>1. (k - 1) + 1 = k /\ k \in 1 .. z + 1
      BY <1>2
    <3>2. B[k + 1] = B[k] + size[k] /\ size[k] \in Nat /\ B[k] \in Nat
      BY <1>3, <3>1
    <3> QED
      BY <3>1, <3>2
  <2> DEFINE G == [k \in 0 .. z |-> B[k + 1]]
  <2>3. \A k \in 0 .. z : G[k] \in Nat
    BY <2>1
  <2>4. \A k \in 1 .. z : G[k - 1] <= G[k]
    <3>1. \A k \in 1 .. z : k \in 0 .. z /\ k - 1 \in 0 .. z
      BY <1>2
    <3> QED
      BY <2>2, <3>1
  <2>5. \A k \in 0 .. z : G[k] = B[k + 1]
    OBVIOUS
  <2> HIDE DEF G
  <2>6. ASSUME NEW n \in 1 .. z PROVE B[n] + size[n] <= img.total
    <3>1. n \in 0 .. z /\ z \in 0 .. z
      BY <1>2
    <3>2. G[n] <= G[z]
      BY <1>2, <2>3, <2>4, <3>1, PrefixesGrow
    <3>3. B[n + 1] = B[n] + size[n]
      BY <1>3
    <3> QED
      BY <1>5, <2>5, <3>1, <3>2, <3>3
  <2> QED
    BY <2>6
<1>9. ASSUME NEW n \in 1 .. z PROVE ~PacketRefused(img, n)
  <2> DEFINE p == img.packets[n]
             k == st[n + 1] - st[n]
  <2>1. PacketAt(img)[n] = B[n]
    <3>1. \A m \in 1 .. z : img.packets[m].size = size[m]
      BY <1>6
    <3>2. \A m \in 1 .. z : B[m + 1] = B[m] + size[m]
      BY <1>3
    <3>3. Walks(img, z, B, size)
      BY <1>4, <1>7, <3>1, <3>2 DEF Walks
    <3> QED
      BY <1>2, <3>3, WalkFinds
  <2>2. p.at = B[n] /\ p.size = size[n] /\ p.blobSize = 0 /\ p.num = k
    BY <1>6
  <2>3. n \in 1 .. z + 1
    BY <1>2
  <2>4. size[n] = 24 + 200 * k /\ k \in Nat /\ B[n] \in Nat
    BY <1>3, <1>20, <2>3 DEF PacketHeaderBytes, DescriptorBytes
  <2>9. img.total \in Int
    BY <1>2, <1>3, <1>5
  <2>10. B[n] + size[n] <= img.total
    BY <1>8
  <2> HIDE DEF p, k
  <2>5. /\ p.size - PacketHeaderBytes - p.blobSize = 200 * k /\ p.size >= PacketHeaderBytes
        /\ p.at + p.size <= img.total /\ p.blobSize <= p.size /\ ~(p.blobSize > 0)
        /\ PacketAt(img)[n] = p.at /\ p.at + PacketHeaderBytes <= img.total
    <3>1. p.size = 24 + 200 * k /\ p.blobSize = 0 /\ p.at \in Nat
      BY <2>2, <2>4
    <3>2. p.size - PacketHeaderBytes - p.blobSize = 200 * k
      BY <2>4, <3>1 DEF PacketHeaderBytes
    <3>3. p.size >= PacketHeaderBytes /\ p.blobSize <= p.size /\ ~(p.blobSize > 0)
      BY <2>4, <3>1 DEF PacketHeaderBytes
    <3>4. p.at + p.size <= img.total
      BY <2>2, <2>10
    <3>5. p.at + PacketHeaderBytes <= img.total
      BY <2>4, <2>9, <3>1, <3>4 DEF PacketHeaderBytes
    <3> QED
      BY <2>1, <2>2, <3>2, <3>3, <3>4, <3>5
  <2>6. /\ (200 * k + (IF 200 * k < 0 THEN 96 ELSE 0)) % DescriptorBytes = 0
        /\ 200 * k >= 0 => (200 * k) \div DescriptorBytes >= k
    <3>1. ~(200 * k < 0) /\ 200 * k + 0 = 200 * k
      BY <2>4
    <3>2. (200 * k) % 200 = 0 /\ (200 * k) \div 200 = k
      BY <2>4
    <3>3. (200 * k) \div 200 >= k
      BY <2>4, <3>2
    <3> QED
      BY <3>1, <3>2, <3>3 DEF DescriptorBytes
  <2>7. PacketFits(p, img)
    BY <2>2, <2>5, <2>6 DEF PacketFits
  <2>8. ~(p.at + PacketHeaderBytes > img.total)
    BY <2>2, <2>4, <2>5, <2>9 DEF PacketHeaderBytes
  <2> QED
    BY <2>5, <2>7, <2>8 DEF PacketRefused, p
<1> DEFINE readable == /\ length >= HeaderBytes /\ img.total <= length
                       /\ img.fmapSize > 0 => /\ img.fmapAt = HeaderBytes
                                              /\ HeaderBytes + img.fmapSize <= img.total
           refused == {n \in 1 .. img.numLayers : PacketRefused(img, n)}
           read    == IF ~readable THEN 0
                      ELSE IF refused = {} THEN img.numLayers ELSE Min(refused) - 1
<1>10. refused = {}
  BY <1>7, <1>9
<1>11. /\ parsed.ok = (readable /\ refused = {})
       /\ parsed.layers = FlattenSeq([n \in 1 .. read |-> PacketLoaded(img.packets[n], n - 1)])
  BY DEF ParseImage
<1>12. readable <=> length >= img.total
  <2>1. img.total \in Nat /\ img.total >= HeaderBytes + fmap
    <3>1. z + 1 \in 1 .. z + 1
      BY <1>2
    <3> QED
      BY <1>3, <1>5, <3>1
  <2>2. HeaderBytes = 32 /\ img.fmapSize = fmap
    BY <1>7 DEF HeaderBytes
  <2>3. length >= img.total => length >= HeaderBytes /\ img.total <= length
    BY <2>1, <2>2
  <2> QED
    BY <1>7, <2>1, <2>2, <2>3
<1> HIDE DEF readable, refused
<1>13. parsed.ok = (length >= img.total)
  BY <1>10, <1>11, <1>12
<1>14. parsed.ok => read = z
  BY <1>7, <1>10, <1>11
<1>15. ~parsed.ok => read = 0
  BY <1>10, <1>11
<1> HIDE DEF read
<1>16. ASSUME ~parsed.ok PROVE DOMAIN parsed.layers = {}
  <2> DEFINE ss == [n \in 1 .. 0 |-> PacketLoaded(img.packets[n], n - 1)]
  <2>1. Len(ss) = 0 /\ DOMAIN ss = {}
    OBVIOUS
  <2>2. parsed.layers = FlattenSeq(ss)
    BY <1>11, <1>15, <1>16
  <2> HIDE DEF ss
  <2> QED
    BY <2>1, <2>2 DEF FlattenSeq
<1> QED
  BY <1>11, <1>13, <1>14, <1>16

----------------------------------------------------------------------------
(* What the loader reads of each packet *)

\* A packet's functions are those of its layer.
LEMMA PacketRange ==
  ASSUME NEW T, NEW fs \in Seq(T), NEW layer
  PROVE  \A g : g \in Range(FunctionsOf(fs, layer)) <=>
                 \E j \in {x \in DOMAIN fs : fs[x].layer = layer} : g = fs[j]
<1> DEFINE S == {x \in DOMAIN fs : fs[x].layer = layer}
<1> DEFINE fn == Selected(fs, S)
           z == Cardinality(S)
<1>1. fn = FunctionsOf(fs, layer) /\ S \subseteq DOMAIN fs /\ z = Cardinality(S)
  BY DEF FunctionsOf
<1> HIDE DEF z, S
<1>2. /\ z \in Nat /\ Selected(fs, S) \in Seq(T) /\ Len(Selected(fs, S)) = z
      /\ \E at : Picks(at, S, z) /\ \A n \in 1 .. z : Selected(fs, S)[n] = fs[at[n]]
  <2>1. S \subseteq DOMAIN fs
    BY <1>1
  <2>2. z = Cardinality(S)
    BY <1>1
  <2> QED
    BY <2>1, <2>2, SelectedIs
<1>3. PICK at : Picks(at, S, z) /\ \A n \in 1 .. z : fn[n] = fs[at[n]]
  BY <1>2
<1>4. DOMAIN fn = 1 .. z
  BY <1>2
<1> HIDE DEF fn
<1>5. \A g : g \in Range(fn) <=> \E n \in 1 .. z : g = fn[n]
  BY <1>4 DEF Range
<1>6. \A g : (\E n \in 1 .. z : g = fs[at[n]]) <=> \E j \in S : g = fs[j]
  BY <1>3 DEF Picks
<1>7. \A g : (\E n \in 1 .. z : g = fn[n]) <=> \E n \in 1 .. z : g = fs[at[n]]
  BY <1>3
<1>8. \A g : g \in Range(fn) <=> \E j \in S : g = fs[j]
  <2> SUFFICES ASSUME NEW g PROVE g \in Range(fn) <=> \E j \in S : g = fs[j]
    OBVIOUS
  <2>1. g \in Range(fn) <=> \E n \in 1 .. z : g = fn[n]
    BY <1>5
  <2>2. (\E n \in 1 .. z : g = fs[at[n]]) <=> \E j \in S : g = fs[j]
    BY <1>6
  <2>3. (\E n \in 1 .. z : g = fn[n]) <=> \E n \in 1 .. z : g = fs[at[n]]
    BY <1>7
  <2> QED
    BY <2>1, <2>2, <2>3
<1> QED
  BY <1>1, <1>8 DEF S

\* The i-th layer read comes from the packet of its function.
FromPacket(l, i, img, fs, st, z) ==
  \E n \in 1 .. z : st[n] <= i /\ i < st[n + 1] /\ l = LoadedLayer(img.packets[n], n - 1, fs[i])
FromPackets(L, img, fs, st, z) ==
  /\ DOMAIN L = 1 .. Len(fs) /\ Len(L) = Len(fs)
  /\ \A i \in 1 .. Len(fs) : FromPacket(L[i], i, img, fs, st, z)

\* What is read of such an image: a layer of each function, in their order.
LEMMA LayersRead ==
  ASSUME NEW T, NEW fs \in Seq(T), NEW z, NEW ids, NEW st, NEW b, NEW P, Blocks(st, fs, ids, z), z > 0,
         NEW fmap, NEW img, LaidOut(img, fs, st, ids, z, b, fmap, P),
         NEW L, L = FlattenSeq([n \in 1 .. z |-> PacketLoaded(img.packets[n], n - 1)])
  PROVE  FromPackets(L, img, fs, st, z)
<1> DEFINE ss == [n \in 1 .. z |-> PacketLoaded(img.packets[n], n - 1)]
           A == {LoadedLayer(img.packets[n], n - 1, f) : n \in 1 .. z, f \in T}
<1>1. /\ z \in Nat /\ z # 0 /\ st[1] = 1 /\ st[z + 1] = Len(fs) + 1 /\ Len(fs) \in Nat
      /\ \A n \in 1 .. z + 1 : st[n] \in Nat
  BY DEF Blocks
<1>2. ASSUME NEW n \in 1 .. z
      PROVE  /\ ss[n] \in Seq(A) /\ Len(ss[n]) = st[n + 1] - st[n]
             /\ \A j \in 1 .. st[n + 1] - st[n] :
                  ss[n][j] = LoadedLayer(img.packets[n], n - 1, fs[st[n] - 1 + j])
  <2> DEFINE p == img.packets[n]
             fn == FunctionsOf(fs, ids[n])
             k == st[n + 1] - st[n]
  <2>1. p.functions = fn
    BY DEF LaidOut, PacketLaidOut
  <2>2. fn = FunctionsOf(fs, ids[n]) /\ k = st[n + 1] - st[n]
    OBVIOUS
  <2>3. ss[n] = [j \in DOMAIN fn |-> LoadedLayer(p, n - 1, fn[j])]
    BY <2>1 DEF PacketLoaded
  <2> HIDE DEF fn, k, ss
  <2>4. /\ fn \in Seq(T) /\ Len(fn) = k /\ k \in Nat \ {0}
        /\ \A j \in 1 .. k : fn[j] = fs[st[n] - 1 + j] /\ st[n] - 1 + j \in DOMAIN fs
    BY <2>2, BlockFunctions
  <2>5. DOMAIN fn = 1 .. k /\ \A j \in 1 .. k : fn[j] \in T
    BY <2>4
  <2>6. \A j \in 1 .. k : LoadedLayer(p, n - 1, fn[j]) \in A
    BY <2>5
  <2>7. ss[n] = [j \in 1 .. k |-> LoadedLayer(p, n - 1, fn[j])]
    BY <2>3, <2>5
  <2> HIDE DEF p, A
  <2>8. ss[n] \in Seq(A) /\ Len(ss[n]) = k
    BY <2>4, <2>6, <2>7
  <2>9. \A j \in 1 .. k : ss[n][j] = LoadedLayer(p, n - 1, fs[st[n] - 1 + j])
    BY <2>4, <2>7
  <2> QED
    BY <2>2, <2>8, <2>9 DEF p
<1>3. ss \in Seq(Seq(A)) /\ Len(ss) = z
  <2> DEFINE S == Seq(A)
  <2>1. \A n \in 1 .. z : ss[n] \in S
    BY <1>2
  <2>2. ss = [n \in 1 .. z |-> ss[n]]
    OBVIOUS
  <2> HIDE DEF S, ss
  <2>3. ss \in Seq(S) /\ Len(ss) = z
    BY <1>1, <2>1, <2>2
  <2> QED
    BY <2>3 DEF S
<1>4. L = FlattenSeq(ss)
  OBVIOUS
<1> HIDE DEF ss, A
<1>5. L \in Seq(A)
  BY <1>3, <1>4, FlattenedIn
<1>6. L = Concatenations(ss, z)[z]
  BY <1>1, <1>3, <1>4 DEF FlattenSeq, Concatenations
<1>7. Joined(L, ss, st, z)
  <2>1. \A n \in 1 .. z : ss[n] \in Seq(A)
    BY <1>2
  <2>2. \A n \in 1 .. z : Len(ss[n]) = st[n + 1] - st[n]
    BY <1>2
  <2> QED
    BY <1>1, <1>6, <2>1, <2>2, FlattenJoins
<1>8. Len(L) = Len(fs) /\ DOMAIN L = 1 .. Len(fs)
  <2>1. Len(L) = st[z + 1] - 1
    BY <1>7 DEF Joined
  <2> QED
    BY <1>1, <1>5, <2>1
<1>9. ASSUME NEW i \in 1 .. Len(fs) PROVE FromPacket(L[i], i, img, fs, st, z)
  <2>1. i \in 1 .. st[z + 1] - 1
    BY <1>1
  <2>2. PICK n \in 1 .. z : st[n] <= i /\ i < st[n + 1] /\ L[i] = ss[n][(i - st[n]) + 1]
    BY <1>7, <2>1 DEF Joined
  <2> DEFINE s == st[n]
             t == st[n + 1]
             j == (i - s) + 1
  <2>3. s \in Nat /\ t \in Nat
    <3>1. n \in 1 .. z + 1 /\ n + 1 \in 1 .. z + 1
      BY <1>1
    <3> QED
      BY <1>1, <3>1
  <2>4. s <= i /\ i < t
    BY <2>2
  <2>5. \A k \in 1 .. t - s : ss[n][k] = LoadedLayer(img.packets[n], n - 1, fs[s - 1 + k])
    BY <1>2
  <2>6. L[i] = ss[n][j]
    BY <2>2
  <2>7. j \in 1 .. t - s /\ s - 1 + j = i
    <3> HIDE DEF s, t
    <3>1. i \in Int /\ s \in Int /\ t \in Int
      BY <2>3
    <3> QED
      BY <2>4, <3>1
  <2> HIDE DEF s, t, j
  <2>8. L[i] = LoadedLayer(img.packets[n], n - 1, fs[i])
    BY <2>5, <2>6, <2>7
  <2> QED
    BY <2>4, <2>8 DEF FromPacket, s, t
<1> QED
  BY <1>8, <1>9 DEF FromPackets

\* What the loader makes of a program, function by function.
ReadsBack(Q, L) ==
  /\ \A i \in DOMAIN L :
       /\ <<L[i].layer, L[i].fid, L[i].ftype>> = <<Q[i].layer, Q[i].fid, Q[i].type>>
       /\ <<L[i].input, L[i].weight, L[i].output>> = <<Q[i].input, Q[i].weight, Q[i].output>>
       /\ <<L[i].tile, L[i].flags>> = <<Q[i].tile, Q[i].flags>>
       /\ L[i].i1FromPacket = (\E j \in {x \in DOMAIN Q : Q[x].layer = Q[i].layer} : Q[j].fid = L[i].i1)
       /\ L[i].consumed = (\E j \in {x \in DOMAIN Q : Q[x].layer = Q[i].layer} :
                             Q[i].fid \in {L[j].i1, L[j].i2})
  /\ \A i, j \in DOMAIN L : i < j =>
       \/ L[i].layer < L[j].layer
       \/ L[i].layer = L[j].layer /\ L[i].fid <= L[j].fid

\* Each with its operand.
ReadsOperands(Q, L) == \A i \in DOMAIN L : L[i].i1 = Q[i].src1

ReadsAll(Q, L) ==
  Len(L) = Len(Q) /\ DOMAIN L = DOMAIN Q /\ ReadsBack(Q, L) /\ ReadsOperands(Q, L)

\* The empty program reads back as nothing.
LEMMA NothingReadBack ==
  ASSUME NEW Q, NEW L, DOMAIN L = {}
  PROVE  ReadsBack(Q, L) /\ ReadsOperands(Q, L)
BY DEF ReadsBack, ReadsOperands

\* A layer of each function is what ReadsBack asks for.
LEMMA AllReadBack ==
  ASSUME NEW T, NEW fs \in Seq(T), \A f \in T : f.layer \in Int /\ f.fid \in Int, InOrder(fs),
         NEW z, NEW ids, NEW st, NEW b, NEW P, Blocks(st, fs, ids, z), z > 0,
         NEW fmap, NEW img, LaidOut(img, fs, st, ids, z, b, fmap, P),
         NEW L, L = FlattenSeq([n \in 1 .. z |-> PacketLoaded(img.packets[n], n - 1)])
  PROVE  ReadsAll(fs, L)
<1>1. /\ DOMAIN L = 1 .. Len(fs) /\ Len(L) = Len(fs)
      /\ \A i \in 1 .. Len(fs) : FromPacket(L[i], i, img, fs, st, z)
  <2>1. FromPackets(L, img, fs, st, z)
    BY LayersRead
  <2> QED
    BY <2>1 DEF FromPackets
<1>2. DOMAIN fs = 1 .. Len(fs) /\ Len(fs) \in Nat
  OBVIOUS
<1>3. ASSUME NEW i \in 1 .. Len(fs)
      PROVE  \E p, packet : /\ L[i] = LoadedLayer(p, packet, fs[i]) /\ p.layer = fs[i].layer
                            /\ p.functions = FunctionsOf(fs, fs[i].layer)
  <2>1. PICK n \in 1 .. z : st[n] <= i /\ i < st[n + 1] /\ L[i] = LoadedLayer(img.packets[n], n - 1, fs[i])
    BY <1>1 DEF FromPacket
  <2>2. fs[i].layer = ids[n]
    BY <2>1 DEF Blocks
  <2>3. img.packets[n].layer = ids[n] /\ img.packets[n].functions = FunctionsOf(fs, ids[n])
    BY DEF LaidOut, PacketLaidOut
  <2> QED
    BY <2>1, <2>2, <2>3
<1>4. ASSUME NEW i \in 1 .. Len(fs)
      PROVE  /\ L[i].layer = fs[i].layer /\ L[i].fid = fs[i].fid /\ L[i].ftype = fs[i].type
             /\ L[i].input = fs[i].input /\ L[i].weight = fs[i].weight /\ L[i].output = fs[i].output
             /\ L[i].tile = fs[i].tile /\ L[i].flags = fs[i].flags
             /\ L[i].i1 = fs[i].src1 /\ L[i].i2 = fs[i].src2
             /\ L[i].i1FromPacket = (fs[i].src1 \in {g.fid : g \in Range(FunctionsOf(fs, fs[i].layer))})
             /\ L[i].consumed = (\E g \in Range(FunctionsOf(fs, fs[i].layer)) :
                                   fs[i].fid \in {g.src1, g.src2})
  <2>1. PICK p, packet : /\ L[i] = LoadedLayer(p, packet, fs[i]) /\ p.layer = fs[i].layer
                         /\ p.functions = FunctionsOf(fs, fs[i].layer)
    BY <1>3
  <2>2. /\ L[i].layer = fs[i].layer /\ L[i].fid = fs[i].fid /\ L[i].ftype = fs[i].type
        /\ L[i].input = fs[i].input /\ L[i].weight = fs[i].weight /\ L[i].output = fs[i].output
        /\ L[i].tile = fs[i].tile /\ L[i].flags = fs[i].flags
        /\ L[i].i1 = fs[i].src1 /\ L[i].i2 = fs[i].src2
    BY <2>1 DEF LoadedLayer
  <2>3. L[i].i1FromPacket = (fs[i].src1 \in {g.fid : g \in Range(p.functions)})
    BY <2>1 DEF LoadedLayer
  <2>4. L[i].consumed = (\E g \in Range(p.functions) : fs[i].fid \in {g.src1, g.src2})
    <3> DEFINE f == fs[i]
               c == \E g \in Range(p.functions) : f.fid \in {g.src1, g.src2}
               d == f.src1 \in {g.fid : g \in Range(p.functions)}
               d2 == f.src2 \in {g.fid : g \in Range(p.functions)}
               R(x, y, y2) ==
                 [layer |-> p.layer, packet |-> packet, fid |-> f.fid, ftype |-> f.type,
                  type |-> RunsAs(f.type), stride |-> f.stride, pad |-> f.pad,
                  input |-> f.input, weight |-> f.weight, output |-> f.output,
                  lat |-> LoadedLatency(f), tile |-> f.tile, flags |-> f.flags, skip |-> Skipped(f),
                  i1 |-> f.src1, i2 |-> f.src2, i1FromPacket |-> y, i2FromPacket |-> y2,
                  consumed |-> x]
    <3>1. L[i] = R(c, d, d2)
      BY <2>1, Zenon DEF LoadedLayer
    <3> HIDE DEF c, d, d2, f
    <3>2. L[i].consumed = c
      BY <3>1
    <3> QED
      BY <3>2 DEF c, f
  <2> QED
    BY <2>1, <2>2, <2>3, <2>4
<1>5. ASSUME NEW i \in 1 .. Len(fs)
      PROVE  /\ L[i].i1FromPacket = (\E j \in {x \in DOMAIN fs : fs[x].layer = fs[i].layer} : fs[j].fid = L[i].i1)
             /\ L[i].consumed = (\E j \in {x \in DOMAIN fs : fs[x].layer = fs[i].layer} :
                                   fs[i].fid \in {L[j].i1, L[j].i2})
  <2> DEFINE S == {x \in DOMAIN fs : fs[x].layer = fs[i].layer}
             layer == fs[i].layer
             R == Range(FunctionsOf(fs, layer))
  <2>1. S = {j \in DOMAIN fs : fs[j].layer = layer}
    OBVIOUS
  <2>2. S \subseteq 1 .. Len(fs)
    BY <1>2
  <2>3. \A g : g \in R <=> \E j \in S : g = fs[j]
    <3> HIDE DEF layer
    <3> QED
      BY <2>1, PacketRange
  <2>4. \A j \in S : L[j].i1 = fs[j].src1 /\ L[j].i2 = fs[j].src2
    BY <1>4, <2>2
  <2>5. L[i].i1FromPacket = (fs[i].src1 \in {g.fid : g \in R}) /\ L[i].i1 = fs[i].src1
        /\ L[i].consumed = (\E g \in R : fs[i].fid \in {g.src1, g.src2})
    BY <1>4
  <2> HIDE DEF S, R
  <2>6. (fs[i].src1 \in {g.fid : g \in R}) <=> \E j \in S : fs[j].fid = fs[i].src1
    BY <2>3
  <2>7. (\E g \in R : fs[i].fid \in {g.src1, g.src2}) <=> \E j \in S : fs[i].fid \in {fs[j].src1, fs[j].src2}
    BY <2>3
  <2>8. (\E j \in S : fs[i].fid \in {fs[j].src1, fs[j].src2}) <=> \E j \in S : fs[i].fid \in {L[j].i1, L[j].i2}
    BY <2>4
  <2>9. L[i].i1FromPacket = (\E j \in S : fs[j].fid = L[i].i1)
    <3> DEFINE s == fs[i].src1
    <3>1. L[i].i1FromPacket = (s \in {g.fid : g \in R}) /\ L[i].i1 = s
      BY <2>5
    <3> DEFINE X == {g.fid : g \in R}
    <3>2. s \in X <=> \E j \in S : fs[j].fid = s
      BY <2>6
    <3>3. L[i].i1FromPacket = (s \in X)
      BY <3>1
    <3>4. CASE s \in X
      <4>1. \E j \in S : fs[j].fid = L[i].i1
        <5> HIDE DEF s, X
        <5> QED
          BY <3>1, <3>2, <3>4
      <4>2. L[i].i1FromPacket = TRUE
        <5> HIDE DEF s, X
        <5> QED
          BY <3>3, <3>4
      <4> QED
        BY <4>1, <4>2
    <3>5. CASE ~(s \in X)
      <4>1. ~\E j \in S : fs[j].fid = L[i].i1
        <5> HIDE DEF s, X
        <5> QED
          BY <3>1, <3>2, <3>5
      <4>2. L[i].i1FromPacket = FALSE
        <5> HIDE DEF s, X
        <5>1. (s \in X) = FALSE
          BY <3>5
        <5> QED
          BY <3>3, <5>1
      <4> QED
        BY <4>1, <4>2
    <3> QED
      BY <3>4, <3>5
  <2>10. L[i].consumed = (\E j \in S : fs[i].fid \in {L[j].i1, L[j].i2})
    BY <2>5, <2>7, <2>8
  <2> QED
    BY <2>9, <2>10 DEF S
<1>6. ASSUME NEW i \in 1 .. Len(fs), NEW j \in 1 .. Len(fs), i < j
      PROVE  \/ L[i].layer < L[j].layer
             \/ L[i].layer = L[j].layer /\ L[i].fid <= L[j].fid
  <2>1. SortsBefore(fs, i, j)
    BY <1>2, <1>6 DEF InOrder
  <2>2. fs[i].fid \in Int /\ fs[j].fid \in Int
    BY <1>2
  <2>3. \/ fs[i].layer < fs[j].layer
        \/ fs[i].layer = fs[j].layer /\ fs[i].fid <= fs[j].fid
    BY <2>1, <2>2 DEF SortsBefore
  <2>4. /\ L[i].layer = fs[i].layer /\ L[j].layer = fs[j].layer
        /\ L[i].fid = fs[i].fid /\ L[j].fid = fs[j].fid
    BY <1>4
  <2> QED
    BY <2>3, <2>4
<1>7. \A i \in DOMAIN L :
       /\ <<L[i].layer, L[i].fid, L[i].ftype>> = <<fs[i].layer, fs[i].fid, fs[i].type>>
       /\ <<L[i].input, L[i].weight, L[i].output>> = <<fs[i].input, fs[i].weight, fs[i].output>>
       /\ <<L[i].tile, L[i].flags>> = <<fs[i].tile, fs[i].flags>>
  BY <1>1, <1>4
<1>8. ReadsBack(fs, L)
  BY <1>1, <1>5, <1>6, <1>7 DEF ReadsBack
<1>9. ReadsOperands(fs, L)
  BY <1>1, <1>4 DEF ReadsOperands
<1> QED
  BY <1>1, <1>2, <1>8, <1>9 DEF ReadsAll

\* An image without weights is accepted when all of it is there, and reads back as the program.
ReadAs(parsed, img, length, fs) ==
  /\ parsed.ok = (length >= img.total)
  /\ parsed.ok => Len(parsed.layers) = Len(fs) /\ DOMAIN parsed.layers = DOMAIN fs
  /\ ReadsBack(fs, parsed.layers) /\ ReadsOperands(fs, parsed.layers)

\* BuildImage and ParseImage, one after the other.
LEMMA BuiltAndRead ==
  ASSUME NEW T, NEW fs \in Seq(T), \A f \in T : f.layer \in Int /\ f.fid \in Int, InOrder(fs),
         fs # <<>>, NEW blobs, \A x \in DOMAIN blobs : blobs[x] \in Nat, NEW fmap \in Nat,
         NEW img, img = BuildImage(fs, blobs, fmap), Range(LoadedBlobs(img)) = {0},
         NEW length \in Int, NEW parsed, parsed = ParseImage(img, length)
  PROVE  ReadAs(parsed, img, length, fs)
<1>6. IsLaidOut(img, fs, blobs, fmap)
  BY LaidOutIs
<1>1. PICK z, ids, st, b, P : /\ Blocks(st, fs, ids, z) /\ z > 0
                              /\ (\A n \in 1 .. z : b[n] \in Nat) /\ PrefixTotals(P, b, z)
                              /\ LaidOut(img, fs, st, ids, z, b, fmap, P)
  BY <1>6 DEF IsLaidOut
<1>2. Len(fs) \in Nat
  OBVIOUS
<1>3. /\ parsed.ok = (length >= img.total)
      /\ parsed.ok => parsed.layers = FlattenSeq([n \in 1 .. z |-> PacketLoaded(img.packets[n], n - 1)])
      /\ ~parsed.ok => DOMAIN parsed.layers = {}
  BY <1>1, <1>2, ParsedWhole, SMTT(60)
<1>4. CASE parsed.ok
  <2> DEFINE L == parsed.layers
  <2>1. L = FlattenSeq([n \in 1 .. z |-> PacketLoaded(img.packets[n], n - 1)])
    BY <1>3, <1>4
  <2> HIDE DEF L
  <2>2. ReadsAll(fs, L)
    BY <1>1, <2>1, AllReadBack, SMTT(60)
  <2> QED
    BY <1>3, <2>2 DEF L, ReadAs, ReadsAll
<1>5. CASE ~parsed.ok
  BY <1>3, <1>5, NothingReadBack DEF ReadAs
<1> QED
  BY <1>3, <1>4, <1>5 DEF ReadAs

\* Where nothing is attached, no weights are found.
LEMMA NoneAttached ==
  ASSUME NEW T, NEW fs \in Seq(T), \A f \in T : f.layer \in Int /\ f.fid \in Int, InOrder(fs),
         fs # <<>>, NEW blobs, DOMAIN blobs = {}, NEW fmap \in Nat,
         NEW img, img = BuildImage(fs, blobs, fmap)
  PROVE  Range(LoadedBlobs(img)) = {0}
<1>1. \A x \in DOMAIN blobs : blobs[x] \in Nat
  OBVIOUS
<1>6. IsLaidOut(img, fs, blobs, fmap)
  BY <1>1, LaidOutIs
<1>2. PICK z, ids, st, b, P : /\ Blocks(st, fs, ids, z) /\ z > 0
                              /\ (\A n \in 1 .. z : b[n] \in Nat) /\ PrefixTotals(P, b, z)
                              /\ LaidOut(img, fs, st, ids, z, b, fmap, P)
                              /\ (DOMAIN blobs = {} => \A n \in 1 .. z : b[n] = 0)
  BY <1>6 DEF IsLaidOut
<1>3. z \in Nat /\ 1 \in 1 .. z
  BY <1>2 DEF Blocks
<1>4. img.numLayers = z /\ \A n \in 1 .. z : img.packets[n].blobSize = 0
  BY <1>2 DEF LaidOut, PacketLaidOut
<1>5. DOMAIN LoadedBlobs(img) = 1 .. z /\ \A n \in 1 .. z : LoadedBlobs(img)[n] = 0
  BY <1>4 DEF LoadedBlobs
<1> QED
  BY <1>3, <1>5 DEF Range

----------------------------------------------------------------------------
(* The linker puts the rows in order *)

\* By layer, within a layer by id.
ByLayerAndId(d) ==
  \A k, m \in DOMAIN d : k < m =>
    d[k].layer < d[m].layer \/ (d[k].layer = d[m].layer /\ d[k].fid <= d[m].fid)
\* Each entry comes after those before it.
AllPrecede(es) == \A k, m \in DOMAIN es : k < m => Precedes(es[k], es[m])

\* An entry with its id: what the row said of it stands.
Retains(a, e) ==
  /\ a.layer = e.layer /\ a.row = e.row /\ a.in = e.in /\ a.wt = e.wt /\ a.out = e.out
  /\ e.fid # Absent => a.fid = e.fid
\* The first n entries have their ids.
Assigned(acc, es, n) ==
  /\ Len(acc.done) = n /\ (n > 0 => acc.layer = es[n].layer)
  /\ \A m \in 1 .. n : Retains(acc.done[m], es[m])
  /\ \A m \in 1 .. n : es[m].layer = es[n].layer => acc.done[m].fid < acc.next
  /\ ByLayerAndId(acc.done)

LEMMA PrecedingLayers ==
  ASSUME NEW a, NEW b, a.layer \in Int, b.layer \in Int, a.fid \in OrAbsent, b.fid \in OrAbsent,
         Precedes(a, b)
  PROVE  /\ a.layer <= b.layer
         /\ a.layer = b.layer /\ b.fid # Absent => a.fid # Absent /\ a.fid <= b.fid
<1>1. a.layer <= b.layer
  BY DEF Precedes
<1>2. ASSUME a.layer = b.layer, b.fid # Absent PROVE a.fid # Absent /\ a.fid <= b.fid
  <2>1. ~(a.layer < b.layer)
    BY <1>2
  <2>2. \/ a.fid # Absent /\ a.fid < b.fid
        \/ a.fid = b.fid
    BY <1>2, <2>1, Zenon DEF Precedes
  <2>3. a.fid \in Int /\ b.fid \in Int
    BY DEF OrAbsent, Absent
  <2> QED
    BY <1>2, <2>2, <2>3
<1> QED
  BY <1>1, <1>2

\* One more id assigned.
LEMMA AssignNext ==
  ASSUME NEW places, NEW es \in Seq(CsvEntries(OrAbsent, places)), AllPrecede(es),
         NEW n \in 0 .. Len(es) - 1, NEW acc \in Assigning(places), Assigned(acc, es, n),
         NEW res, res = AssignId(acc, es[n + 1])
  PROVE  Assigned(res, es, n + 1)
<1> DEFINE e == es[n + 1]
           first == e.layer # acc.layer
           following == IF first THEN 0 ELSE acc.next
           prev  == IF first THEN NoOperand ELSE acc.prev
           fid   == IF e.fid = Absent THEN following ELSE e.fid
           x     == [e EXCEPT !.fid = fid, !.i1 = IF @ = Absent THEN prev ELSE @,
                              !.i2 = IF @ = Absent THEN NoOperand ELSE @]
           E == CsvEntries(Nat, places)
           d == acc.done
<1>1. /\ Len(es) \in Nat /\ DOMAIN es = 1 .. Len(es) /\ n + 1 \in 1 .. Len(es)
      /\ \A m \in 1 .. n + 1 : m \in DOMAIN es /\ es[m] \in CsvEntries(OrAbsent, places)
  OBVIOUS
<1>2. \A m \in 1 .. n + 1 : es[m].layer \in Nat /\ es[m].fid \in OrAbsent
  BY <1>1 DEF CsvEntries
<1>3. acc.next \in Nat /\ d \in Seq(E) /\ acc.layer \in Int
  BY DEF Assigning
<1>4. n \in Nat /\ Len(d) = n /\ DOMAIN d = 1 .. n
  <2>1. Len(d) = n
    BY DEF Assigned
  <2> HIDE DEF d, E
  <2> QED
    BY <1>3, <2>1
<1>5. \A m \in 1 .. n : d[m].fid \in Nat /\ d[m].layer = es[m].layer
  <2>1. \A m \in 1 .. n : d[m] \in E
    BY <1>3, <1>4
  <2>2. \A m \in 1 .. n : d[m].layer = es[m].layer
    BY DEF Assigned, Retains
  <2> QED
    BY <2>1, <2>2 DEF CsvEntries
<1>6. /\ res.layer = e.layer /\ res.next = Most(following, fid + 1)
      /\ res.done = Append(d, x)
  BY DEF AssignId
<1>7. x \in CsvEntries(Nat, places) /\ x.layer = e.layer /\ x.fid = fid /\ Retains(x, e) /\ fid \in Nat
  <2>1. e \in CsvEntries(OrAbsent, places)
    BY <1>1
  <2>2. following \in Nat
    BY <1>3
  <2>3. e.fid \in OrAbsent
    BY <2>1 DEF CsvEntries
  <2>4. fid \in Nat
    BY <2>2, <2>3 DEF OrAbsent
  <2>5. prev \in Int /\ e.i1 \in Int /\ e.i2 \in Int
    <3>1. acc.prev \in Int
      BY DEF Assigning
    <3>2. NoOperand \in Int
      BY DEF NoOperand
    <3>3. e.i1 \in Int /\ e.i2 \in Int
      BY <2>1 DEF CsvEntries
    <3> QED
      BY <3>1, <3>2, <3>3
  <2> DEFINE i1 == IF e.i1 = Absent THEN prev ELSE e.i1
             i2 == IF e.i2 = Absent THEN NoOperand ELSE e.i2
  <2>6. i1 \in Int /\ i2 \in Int
    BY <2>5 DEF NoOperand
  <2>7. x = [e EXCEPT !.fid = fid, !.i1 = i1, !.i2 = i2]
    OBVIOUS
  <2>10. e.fid # Absent => fid = e.fid
    OBVIOUS
  <2> HIDE DEF x, fid, i1, i2, e
  <2>8. x \in CsvEntries(Nat, places)
    BY <2>1, <2>4, <2>6, <2>7 DEF CsvEntries
  <2>9. /\ x.layer = e.layer /\ x.fid = fid /\ x.row = e.row /\ x.in = e.in /\ x.wt = e.wt
        /\ x.out = e.out
    BY <2>1, <2>7 DEF CsvEntries
  <2> QED
    BY <2>4, <2>8, <2>9, <2>10 DEF Retains
<1>8. /\ Len(Append(d, x)) = n + 1 /\ DOMAIN Append(d, x) = 1 .. n + 1
      /\ Append(d, x)[n + 1] = x /\ \A m \in 1 .. n : Append(d, x)[m] = d[m]
  <2>1. x \in E /\ d \in Seq(E)
    BY <1>3, <1>7
  <2> HIDE DEF x, d, E
  <2> QED
    BY <1>4, <2>1
\* Those of the same layer follow on each other.
<1>9. ASSUME NEW m \in 1 .. n, es[m].layer = e.layer
      PROVE  /\ ~first /\ es[m].layer = es[n].layer
             /\ e.fid # Absent => es[m].fid # Absent /\ es[m].fid <= e.fid
  <2>1. Precedes(es[m], e) /\ es[m].layer \in Nat /\ e.layer \in Nat /\ es[m].fid \in OrAbsent
        /\ e.fid \in OrAbsent
    BY <1>1, <1>2 DEF AllPrecede
  <2>2. e.fid # Absent => es[m].fid # Absent /\ es[m].fid <= e.fid
    <3> HIDE DEF e
    <3> QED
      BY <1>9, <2>1, PrecedingLayers
  <2>3. es[m].layer <= es[n].layer /\ es[n].layer <= e.layer /\ es[n].layer \in Nat
    <3>1. n \in 1 .. n + 1 /\ m \in 1 .. n + 1 /\ n + 1 \in 1 .. n + 1 /\ n < n + 1
      BY <1>4
    <3>2. Precedes(es[n], e) /\ es[n].layer \in Nat /\ es[n].fid \in OrAbsent
      BY <1>1, <1>2, <3>1 DEF AllPrecede
    <3>3. es[n].layer <= e.layer
      <4> HIDE DEF e
      <4> QED
        BY <2>1, <3>2, PrecedingLayers
    <3>4. CASE m = n
      BY <2>1, <3>2, <3>3, <3>4
    <3>5. CASE m # n
      <4>1. m < n
        BY <3>5
      <4>2. Precedes(es[m], es[n])
        BY <1>1, <3>1, <4>1 DEF AllPrecede
      <4>3. es[m].layer <= es[n].layer
        BY <2>1, <3>2, <4>2, PrecedingLayers
      <4> QED
        BY <3>2, <3>3, <4>3
    <3> QED
      BY <3>4, <3>5
  <2>4. es[m].layer = es[n].layer /\ es[n].layer = e.layer
    BY <1>9, <2>1, <2>3
  <2>5. acc.layer = es[n].layer
    BY <1>4 DEF Assigned
  <2> QED
    BY <2>2, <2>4, <2>5
<1>10. ASSUME NEW m \in 1 .. n, es[m].layer = e.layer
       PROVE  d[m].fid <= fid /\ d[m].fid < following
  <2>1. /\ ~first /\ es[m].layer = es[n].layer
        /\ e.fid # Absent => es[m].fid # Absent /\ es[m].fid <= e.fid
    BY <1>9, <1>10
  <2>2. d[m].fid < acc.next
    BY <2>1 DEF Assigned
  <2>3. following = acc.next /\ d[m].fid \in Nat
    BY <1>5, <2>1
  <2>4. CASE e.fid = Absent
    <3>1. fid = acc.next
      BY <2>3, <2>4
    <3> QED
      BY <1>3, <2>2, <2>3, <3>1
  <2>5. CASE e.fid # Absent
    <3>1. d[m].fid = es[m].fid
      BY <2>1, <2>5 DEF Assigned, Retains
    <3>2. fid = e.fid
      BY <2>5
    <3> QED
      BY <2>1, <2>2, <2>3, <2>5, <3>1, <3>2
  <2> QED
    BY <2>4, <2>5
<1>11. following \in Nat
  BY <1>3
<1>18. \A m \in 1 .. n : es[m].layer < e.layer \/ es[m].layer = e.layer
  <2> SUFFICES ASSUME NEW m \in 1 .. n PROVE es[m].layer < e.layer \/ es[m].layer = e.layer
    OBVIOUS
  <2>1. m \in 1 .. n + 1 /\ n + 1 \in 1 .. n + 1 /\ m < n + 1
    BY <1>4
  <2>2. Precedes(es[m], e) /\ es[m].layer \in Nat /\ e.layer \in Nat /\ es[m].fid \in OrAbsent
        /\ e.fid \in OrAbsent
    BY <1>1, <1>2, <2>1 DEF AllPrecede
  <2> HIDE DEF e
  <2>3. es[m].layer <= e.layer
    BY <2>2, PrecedingLayers
  <2> QED
    BY <2>2, <2>3
<1> HIDE DEF x, first, following, prev, d
<1>12. \A m \in 1 .. n + 1 : m \in 1 .. n \/ m = n + 1
  BY <1>4
<1>13. Len(res.done) = n + 1 /\ n + 1 > 0 /\ res.layer = es[n + 1].layer
  BY <1>4, <1>6, <1>8
<1>14. \A m \in 1 .. n + 1 : Retains(res.done[m], es[m])
  <2>1. \A m \in 1 .. n : Retains(d[m], es[m])
    BY DEF Assigned, d
  <2> QED
    BY <1>6, <1>7, <1>8, <1>12, <2>1
<1>15. ASSUME NEW m \in 1 .. n + 1, es[m].layer = es[n + 1].layer PROVE res.done[m].fid < res.next
  <2>1. CASE m \in 1 .. n
    <3>1. d[m].fid < following /\ d[m].fid \in Nat
      BY <1>5, <1>10, <1>15, <2>1
    <3>2. res.done[m] = d[m]
      BY <1>6, <1>8, <2>1
    <3> HIDE DEF fid
    <3>3. following <= res.next /\ res.next \in Int
      BY <1>6, <1>7, <1>11 DEF Most
    <3> QED
      BY <1>11, <3>1, <3>2, <3>3
  <2>2. CASE m = n + 1
    <3>1. res.done[m] = x /\ x.fid = fid /\ fid \in Nat
      BY <1>6, <1>7, <1>8, <2>2
    <3> HIDE DEF fid
    <3>2. fid < res.next
      BY <1>6, <1>7, <1>11 DEF Most
    <3> QED
      BY <3>1, <3>2
  <2> QED
    BY <1>12, <2>1, <2>2
<1>16. ASSUME NEW k \in 1 .. n + 1, NEW m \in 1 .. n + 1, k < m
       PROVE  \/ res.done[k].layer < res.done[m].layer
              \/ res.done[k].layer = res.done[m].layer /\ res.done[k].fid <= res.done[m].fid
  <2>1. k \in 1 .. n
    BY <1>4, <1>16
  <2>2. res.done[k] = d[k]
    BY <1>6, <1>8, <2>1
  <2>3. CASE m \in 1 .. n
    <3>1. res.done[m] = d[m]
      BY <1>6, <1>8, <2>3
    <3>2. ByLayerAndId(d)
      BY DEF Assigned, d
    <3> QED
      BY <1>4, <1>16, <2>1, <2>2, <2>3, <3>1, <3>2 DEF ByLayerAndId
  <2>4. CASE m = n + 1
    <3>1. res.done[m] = x /\ x.layer = e.layer /\ x.fid = fid
      BY <1>6, <1>7, <1>8, <2>4
    <3>2. d[k].layer = es[k].layer
      BY <1>5, <2>1
    <3>3. es[k].layer = e.layer => d[k].fid <= fid
      BY <1>10, <2>1
    <3>4. es[k].layer < e.layer \/ es[k].layer = e.layer
      BY <1>18, <2>1
    <3> HIDE DEF e, fid
    <3> QED
      BY <2>2, <3>1, <3>2, <3>3, <3>4
  <2> QED
    BY <1>12, <2>3, <2>4
<1>17. ByLayerAndId(res.done)
  BY <1>6, <1>8, <1>16 DEF ByLayerAndId
<1> QED
  BY <1>13, <1>14, <1>15, <1>17 DEF Assigned

\* AssignIds keeps the rows in order, and the ids of a layer ascend.
LEMMA IdsInOrder ==
  ASSUME NEW places, NEW es \in Seq(CsvEntries(OrAbsent, places)), AllPrecede(es),
         NEW z, z = Len(es), NEW as, as = AssignIds(es)
  PROVE  /\ Len(as) = z /\ ByLayerAndId(as)
         /\ \A m \in 1 .. z : Retains(as[m], es[m])
<1>1. z \in Nat /\ \E after : AssignsAlong(after, es, places, z) /\ AssignIds(es) = after[z].done
  BY AssignedIs
<1>2. PICK after : AssignsAlong(after, es, places, z) /\ AssignIds(es) = after[z].done
  BY <1>1
<1> DEFINE T == {n \in 0 .. z : Assigned(after[n], es, n)}
<1>3. 0 \in T
  <2>1. after[0].done = <<>>
    BY <1>2 DEF AssignsAlong, Unassigned
  <2>2. Len(<<>>) = 0 /\ DOMAIN <<>> = {} /\ 1 .. 0 = {} /\ 0 \in 0 .. z /\ ~(0 > 0)
    BY <1>1
  <2>3. Assigned(after[0], es, 0)
    BY <2>1, <2>2 DEF Assigned, ByLayerAndId
  <2> QED
    BY <2>2, <2>3
<1>4. ASSUME NEW n \in 0 .. z - 1, n \in T PROVE n + 1 \in T
  <2>1. n + 1 \in 1 .. z /\ (n + 1) - 1 = n /\ n \in 0 .. z /\ n + 1 \in 0 .. z
    BY <1>1
  <2>2. after[n + 1] = AssignId(after[n], es[n + 1]) /\ after[n] \in Assigning(places)
    BY <1>2, <2>1 DEF AssignsAlong
  <2>3. Assigned(after[n], es, n) /\ n \in 0 .. Len(es) - 1
    BY <1>4
  <2> DEFINE acc == after[n]
             res == after[n + 1]
  <2>4. res = AssignId(acc, es[n + 1]) /\ acc \in Assigning(places) /\ Assigned(acc, es, n)
    BY <2>2, <2>3
  <2> HIDE DEF acc, res
  <2>5. Assigned(res, es, n + 1)
    BY <2>3, <2>4, AssignNext
  <2> QED
    BY <2>1, <2>5 DEF res
<1> HIDE DEF T
<1>5. z \in T
  BY <1>1, <1>3, <1>4, TermByTerm
<1>6. Assigned(after[z], es, z)
  BY <1>5 DEF T
<1> QED
  BY <1>2, <1>6 DEF Assigned

----------------------------------------------------------------------------
(* The linker places the rows in order *)

\* An entry once placed: all but its addresses stands.
Stands(d, a) ==
  d.layer = a.layer /\ d.fid = a.fid /\ d.row = a.row /\ d.i1 = a.i1 /\ d.i2 = a.i2
\* Entry p of layer l is the last with its id up to place n.
Latest(gs, p, n, l) ==
  gs[p].layer = l /\ \A k \in p + 1 .. n : gs[k].layer = l => gs[k].fid # gs[p].fid
\* The outputs known are those of the layer's last entries.
OutsKnown(acc, gs, n) ==
  \A p \in 1 .. n : Latest(gs, p, n, acc.layer) =>
    gs[p].fid \in DOMAIN acc.outs /\ acc.outs[gs[p].fid] = acc.done[p].out
\* What an entry without an address reads, where its producer wrote.
Follows(d, gs, m) ==
  gs[m].in = Absent =>
    /\ \A p \in 1 .. m - 1 :
         Latest(gs, p, m - 1, gs[m].layer) /\ gs[p].fid = gs[m].i1 => d[m].in = d[p].out
    /\ m > 1 /\ gs[m - 1].layer # gs[m].layer => d[m].in = d[m - 1].out
Placed(acc, gs, n) ==
  /\ Len(acc.done) = n
  /\ n > 0 => acc.layer = gs[n].layer /\ acc.lastOut = acc.done[n].out
  /\ \A m \in 1 .. n : Stands(acc.done[m], gs[m]) /\ Follows(acc.done, gs, m)
  /\ OutsKnown(acc, gs, n)

\* Entries of one layer follow on each other.
LEMMA LayerGoesOn ==
  ASSUME NEW places, NEW gs \in Seq(CsvEntries(Nat, places)), ByLayerAndId(gs),
         NEW n \in Nat, n + 1 \in DOMAIN gs, NEW p \in 1 .. n, gs[p].layer = gs[n + 1].layer
  PROVE  gs[n].layer = gs[n + 1].layer
<1> DEFINE E == CsvEntries(Nat, places)
           z == Len(gs)
<1>5. z \in Nat /\ DOMAIN gs = 1 .. z /\ \A m \in 1 .. z : gs[m] \in E
  <2>1. gs \in Seq(E)
    OBVIOUS
  <2> HIDE DEF E
  <2> QED
    BY <2>1
<1>2. \A m \in DOMAIN gs : gs[m].layer \in Nat
  BY <1>5 DEF CsvEntries
<1> HIDE DEF z
<1>1. p \in DOMAIN gs /\ n \in DOMAIN gs /\ n < n + 1 /\ n \in Int /\ p \in Int /\ n + 1 \in Int
  <2>1. n + 1 \in 1 .. z
    BY <1>5
  <2>2. n >= 1 /\ n <= z /\ p <= z /\ p >= 1 /\ p \in Int
    BY <1>5, <2>1
  <2> QED
    BY <1>5, <2>2
<1>3. gs[n].layer <= gs[n + 1].layer
  BY <1>1, <1>2 DEF ByLayerAndId
<1>4. gs[p].layer <= gs[n].layer
  <2>1. CASE p = n
    BY <1>1, <1>2, <2>1
  <2>2. CASE p # n
    <3>1. p < n
      BY <2>2
    <3> QED
      BY <1>1, <1>2, <3>1 DEF ByLayerAndId
  <2> QED
    BY <2>1, <2>2
<1> QED
  BY <1>1, <1>2, <1>3, <1>4

\* The input the linker gives an entry.
InputFor(acc, e, outs, prevOut) ==
  CASE e.in # Absent                           -> e.in
    [] e.in = Absent /\ e.i1 \in DOMAIN outs   -> outs[e.i1]
    [] e.in = Absent /\ outs = <<>> /\ prevOut # Absent -> prevOut
    [] OTHER                                   -> Wrap(acc.cursor)

\* One entry placed: its outputs are known, it stands, and it reads as it should.
PlacedAs(acc, e, res, n, outs, prevOut, x) ==
  /\ n \in Nat /\ Len(res.done) = n + 1 /\ \A m \in 1 .. n : res.done[m] = acc.done[m]
  /\ res.layer = e.layer /\ res.lastOut = x.out /\ Stands(x, e)
  /\ res.outs = With(outs, e.fid, x.out) /\ x.in = InputFor(acc, e, outs, prevOut)
LEMMA PlacedEntry ==
  ASSUME NEW acc \in Placing, NEW e \in CsvEntries(Nat, OrAbsent),
         NEW res, res = PlaceEntry(acc, e), NEW n, n = Len(acc.done),
         NEW outs, outs = IF e.layer # acc.layer THEN <<>> ELSE acc.outs,
         NEW prevOut, prevOut = IF e.layer # acc.layer THEN acc.lastOut ELSE acc.prevOut,
         NEW x, x = res.done[n + 1]
  PROVE  PlacedAs(acc, e, res, n, outs, prevOut, x)
<1> DEFINE in == InputFor(acc, e, outs, prevOut)
           afterIn == Most(acc.cursor, in + Volume(InputShape(e.spec)))
           wt      == IF e.wt # Absent THEN e.wt ELSE Wrap(afterIn)
           afterWt == Most(afterIn, wt + KernelWords(e.spec))
           out     == IF e.out # Absent THEN e.out ELSE Wrap(afterWt)
           cursor  == Most(afterWt, out + Volume(OutputShape(e.spec)))
           y       == [e EXCEPT !.in = in, !.wt = wt, !.out = out]
           E == CsvEntries(Nat, Nat)
<1>1. res = [layer |-> e.layer, outs |-> With(outs, e.fid, out), prevOut |-> prevOut,
             lastOut |-> out, cursor |-> cursor, done |-> Append(acc.done, y)]
  BY DEF PlaceEntry, InputFor
<1>2. res \in Placing
  BY PlaceEntryIs
<1> HIDE DEF in, wt, out, cursor, afterIn, afterWt
<1>3. /\ y.in = in /\ y.out = out /\ y.layer = e.layer /\ y.fid = e.fid /\ y.row = e.row
      /\ y.i1 = e.i1 /\ y.i2 = e.i2
  BY DEF CsvEntries
<1> HIDE DEF y
<1>4. acc.done \in Seq(E) /\ Append(acc.done, y) \in Seq(E) /\ n \in Nat
  <2>1. acc.done \in Seq(E) /\ res.done \in Seq(E)
    BY <1>2 DEF Placing
  <2>2. res.done = Append(acc.done, y)
    BY <1>1
  <2> HIDE DEF E
  <2> QED
    BY <2>1, <2>2
<1> DEFINE d == acc.done
<1>5. Len(Append(d, y)) = n + 1 /\ Append(d, y)[n + 1] = y /\ \A m \in 1 .. n : Append(d, y)[m] = d[m]
  <2>1. d \in Seq(E \cup {y}) /\ y \in E \cup {y} /\ n = Len(d)
    BY <1>4
  <2> HIDE DEF E, d
  <2> QED
    BY <1>4, <2>1
<1>6. res.done = Append(d, y) /\ res.layer = e.layer /\ res.lastOut = out
      /\ res.outs = With(outs, e.fid, out)
  BY <1>1
<1>7. x = y
  BY <1>5, <1>6
<1> HIDE DEF d
<1>8. Stands(x, e)
  BY <1>3, <1>7 DEF Stands
<1> QED
  BY <1>3, <1>4, <1>5, <1>6, <1>7, <1>8 DEF in, d, PlacedAs

\* One more entry placed.
LEMMA PlaceNext ==
  ASSUME NEW gs \in Seq(CsvEntries(Nat, OrAbsent)), ByLayerAndId(gs),
         NEW n \in 0 .. Len(gs) - 1, NEW acc \in Placing, Placed(acc, gs, n),
         NEW res, res = PlaceEntry(acc, gs[n + 1])
  PROVE  Placed(res, gs, n + 1)
<1> DEFINE e == gs[n + 1]
           first == e.layer # acc.layer
           outs == IF first THEN <<>> ELSE acc.outs
           prevOut == IF first THEN acc.lastOut ELSE acc.prevOut
           x == res.done[n + 1]
<1>1. /\ Len(gs) \in Nat /\ DOMAIN gs = 1 .. Len(gs) /\ n + 1 \in DOMAIN gs /\ n \in Nat
      /\ \A m \in 1 .. n + 1 : m \in DOMAIN gs /\ gs[m] \in CsvEntries(Nat, OrAbsent)
  <2> DEFINE E == CsvEntries(Nat, OrAbsent)
             y == Len(gs)
  <2>1. y \in Nat /\ DOMAIN gs = 1 .. y /\ \A m \in 1 .. y : gs[m] \in E
    <3>1. gs \in Seq(E)
      OBVIOUS
    <3> HIDE DEF E
    <3> QED
      BY <3>1
  <2> HIDE DEF E
  <2>2. n \in 0 .. y - 1
    OBVIOUS
  <2> HIDE DEF y
  <2>3. n \in Nat /\ n + 1 \in 1 .. y /\ \A m \in 1 .. n + 1 : m \in 1 .. y
    BY <2>1, <2>2
  <2> QED
    BY <2>1, <2>3 DEF E, y
<1>2. e \in CsvEntries(Nat, OrAbsent) /\ n = Len(acc.done)
  <2>1. n = Len(acc.done)
    BY DEF Placed
  <2>2. n + 1 \in 1 .. n + 1
    BY <1>1
  <2> QED
    BY <1>1, <2>1, <2>2
<1>20. res = PlaceEntry(acc, e)
  BY DEF e
<1> HIDE DEF e
<1>21. /\ outs = IF e.layer # acc.layer THEN <<>> ELSE acc.outs
       /\ prevOut = IF e.layer # acc.layer THEN acc.lastOut ELSE acc.prevOut
       /\ x = res.done[n + 1]
  OBVIOUS
<1> HIDE DEF first, outs, prevOut, x
<1>3. /\ n \in Nat /\ Len(res.done) = n + 1 /\ \A m \in 1 .. n : res.done[m] = acc.done[m]
      /\ res.layer = e.layer /\ res.lastOut = x.out /\ Stands(x, e)
      /\ res.outs = With(outs, e.fid, x.out) /\ x.in = InputFor(acc, e, outs, prevOut)
  <2>1. PlacedAs(acc, e, res, n, outs, prevOut, x)
    BY <1>2, <1>20, <1>21, PlacedEntry
  <2> QED
    BY <2>1 DEF PlacedAs
<1> USE DEF first, outs, prevOut
<1>4. \A m \in 1 .. n + 1 : m \in 1 .. n \/ m = n + 1
  BY <1>1
<1>5. \A p \in 1 .. n : gs[p].layer = e.layer => gs[n].layer = e.layer /\ ~first
  <2> SUFFICES ASSUME NEW p \in 1 .. n, gs[p].layer = e.layer PROVE gs[n].layer = e.layer /\ ~first
    OBVIOUS
  <2>1. gs[n].layer = gs[n + 1].layer
    BY <1>1, LayerGoesOn DEF e
  <2>2. n > 0
    BY <1>1
  <2>3. acc.layer = gs[n].layer
    BY <2>2 DEF Placed
  <2> QED
    BY <2>1, <2>3 DEF e
<1>6. n > 0 => acc.layer = gs[n].layer /\ acc.lastOut = acc.done[n].out
  BY DEF Placed
<1>7. \A m \in 1 .. n + 1 : Stands(res.done[m], gs[m])
  <2>1. \A m \in 1 .. n : Stands(acc.done[m], gs[m])
    BY DEF Placed
  <2> QED
    BY <1>3, <1>4, <2>1 DEF e, x
<1>8. Follows(res.done, gs, n + 1)
  <2> SUFFICES ASSUME e.in = Absent
               PROVE  /\ \A p \in 1 .. n : Latest(gs, p, n, e.layer) /\ gs[p].fid = e.i1 =>
                           x.in = res.done[p].out
                      /\ n + 1 > 1 /\ gs[n].layer # e.layer => x.in = res.done[n].out
    <3>1. (n + 1) - 1 = n
      BY <1>1
    <3> QED
      BY <3>1 DEF Follows, e, x
  <2>1. ASSUME NEW p \in 1 .. n, Latest(gs, p, n, e.layer), gs[p].fid = e.i1
        PROVE  x.in = res.done[p].out
    <3>1. gs[p].layer = e.layer
      BY <2>1 DEF Latest
    <3>2. ~first /\ acc.layer = e.layer
      BY <1>5, <3>1
    <3>3. e.i1 \in DOMAIN acc.outs /\ acc.outs[e.i1] = acc.done[p].out
      BY <2>1, <3>2 DEF Placed, OutsKnown
    <3>4. outs = acc.outs
      BY <3>2
    <3> HIDE DEF outs, prevOut
    <3>5. InputFor(acc, e, outs, prevOut) = outs[e.i1]
      <4>1. e.in = Absent /\ e.i1 \in DOMAIN outs /\ outs # <<>>
        BY <3>3, <3>4
      <4> QED
        BY <4>1 DEF InputFor
    <3> QED
      BY <1>3, <3>3, <3>4, <3>5
  <2>2. ASSUME n + 1 > 1, gs[n].layer # e.layer PROVE x.in = res.done[n].out
    <3>1. n > 0 /\ n \in 1 .. n
      BY <1>1, <2>2
    <3>2. acc.lastOut = acc.done[n].out /\ first
      BY <1>6, <2>2, <3>1
    <3>3. outs = <<>> /\ prevOut = acc.done[n].out
      BY <3>2
    <3>4. acc.done[n].out \in Nat
      <4>1. acc.done \in Seq(CsvEntries(Nat, Nat))
        BY DEF Placing
      <4>2. acc.done[n] \in CsvEntries(Nat, Nat)
        <5> DEFINE E == CsvEntries(Nat, Nat)
                   d == acc.done
        <5>1. d \in Seq(E) /\ n = Len(d)
          BY <1>2, <4>1
        <5> HIDE DEF E, d
        <5>2. d[n] \in E
          BY <3>1, <5>1
        <5> QED
          BY <5>2 DEF E, d
      <4> QED
        BY <4>2 DEF CsvEntries
    <3>5. prevOut # Absent
      BY <3>3, <3>4 DEF Absent
    <3> HIDE DEF outs, prevOut
    <3>6. DOMAIN outs = {}
      BY <3>3
    <3>7. InputFor(acc, e, outs, prevOut) = prevOut
      BY <3>3, <3>5, <3>6 DEF InputFor
    <3> QED
      BY <1>3, <3>1, <3>3, <3>7
  <2> QED
    BY <2>1, <2>2
<1>9. \A m \in 1 .. n : Follows(res.done, gs, m)
  <2> SUFFICES ASSUME NEW m \in 1 .. n PROVE Follows(res.done, gs, m)
    OBVIOUS
  <2>1. Follows(acc.done, gs, m)
    BY DEF Placed
  <2>2. \A p \in 1 .. m - 1 : p \in 1 .. n
    BY <1>1
  <2>3. m > 1 => m - 1 \in 1 .. n
    BY <1>1
  <2>4. res.done[m] = acc.done[m] /\ \A p \in 1 .. m - 1 : res.done[p] = acc.done[p]
    BY <1>3, <2>2
  <2>5. m > 1 => res.done[m - 1] = acc.done[m - 1]
    BY <1>3, <2>3
  <2> QED
    BY <2>1, <2>4, <2>5 DEF Follows
<1>10. OutsKnown(res, gs, n + 1)
  <2> SUFFICES ASSUME NEW p \in 1 .. n + 1, Latest(gs, p, n + 1, e.layer)
               PROVE  gs[p].fid \in DOMAIN res.outs /\ res.outs[gs[p].fid] = res.done[p].out
    BY <1>3 DEF OutsKnown
  <2>1. DOMAIN res.outs = DOMAIN outs \cup {e.fid}
    BY <1>3 DEF With
  <2>2. \A f \in DOMAIN res.outs : res.outs[f] = IF f = e.fid THEN x.out ELSE outs[f]
    BY <1>3 DEF With
  <2>3. CASE p = n + 1
    <3>1. gs[p].fid = e.fid /\ res.done[p] = x
      BY <2>3 DEF e, x
    <3> QED
      BY <2>1, <2>2, <3>1
  <2>4. CASE p \in 1 .. n
    <3>1. n + 1 \in p + 1 .. n + 1 /\ \A k \in p + 1 .. n : k \in p + 1 .. n + 1
      BY <1>1, <2>4
    <3>2. gs[p].layer = e.layer /\ e.fid # gs[p].fid
      BY <3>1 DEF Latest, e
    <3>3. ~first /\ acc.layer = e.layer
      BY <1>5, <2>4, <3>2
    <3>4. Latest(gs, p, n, acc.layer)
      BY <3>1, <3>3 DEF Latest
    <3>5. gs[p].fid \in DOMAIN acc.outs /\ acc.outs[gs[p].fid] = acc.done[p].out
      BY <2>4, <3>4 DEF Placed, OutsKnown
    <3>6. outs = acc.outs
      BY <3>3
    <3> HIDE DEF outs, e
    <3> QED
      BY <1>3, <2>1, <2>2, <2>4, <3>2, <3>5, <3>6
  <2> QED
    BY <1>4, <2>3, <2>4
<1>11. res.layer = gs[n + 1].layer /\ res.lastOut = res.done[n + 1].out
  BY <1>3 DEF e, x
<1>12. \A m \in 1 .. n + 1 : Stands(res.done[m], gs[m]) /\ Follows(res.done, gs, m)
  BY <1>4, <1>7, <1>8, <1>9
<1> QED
  BY <1>3, <1>10, <1>11, <1>12 DEF Placed

\* The linker's placement, of entries in order.
LEMMA PlacedInOrder ==
  ASSUME NEW gs \in Seq(CsvEntries(Nat, OrAbsent)), ByLayerAndId(gs), NEW z, z = Len(gs),
         NEW d, d = Place(gs).done
  PROVE  /\ z \in Nat /\ d \in Seq(CsvEntries(Nat, Nat)) /\ Len(d) = z
         /\ \A m \in 1 .. z : Stands(d[m], gs[m]) /\ Follows(d, gs, m)
<1>1. z \in Nat /\ \E after : PlacesAlong(after, gs, z) /\ Place(gs) = after[z]
  BY PlacedIs
<1>2. PICK after : PlacesAlong(after, gs, z) /\ Place(gs) = after[z]
  BY <1>1
<1>9. z \in Nat
  BY <1>1
<1> DEFINE T == {n \in 0 .. z : Placed(after[n], gs, n)}
<1>3. 0 \in T
  <2>1. after[0].done = <<>>
    BY <1>2 DEF PlacesAlong, Unplaced
  <2>2. Len(<<>>) = 0 /\ 1 .. 0 = {} /\ 0 \in 0 .. z /\ ~(0 > 0)
    BY <1>9
  <2>3. Placed(after[0], gs, 0)
    BY <2>1, <2>2 DEF Placed, OutsKnown
  <2> QED
    BY <2>2, <2>3
<1>4. ASSUME NEW n \in 0 .. z - 1, n \in T PROVE n + 1 \in T
  <2>1. n + 1 \in 1 .. z /\ (n + 1) - 1 = n /\ n \in 0 .. z /\ n + 1 \in 0 .. z
    BY <1>9
  <2>2. after[n + 1] = PlaceEntry(after[n], gs[n + 1])
    BY <1>2, <2>1 DEF PlacesAlong
  <2>5. after[n] \in Placing
    <3>1. after \in [0 .. z -> Placing]
      BY <1>2, Zenon DEF PlacesAlong
    <3> QED
      BY <2>1, <3>1
  <2>3. Placed(after[n], gs, n) /\ n \in 0 .. Len(gs) - 1
    BY <1>4
  <2> DEFINE acc == after[n]
             res == after[n + 1]
  <2>4. res = PlaceEntry(acc, gs[n + 1]) /\ acc \in Placing /\ Placed(acc, gs, n)
    BY <2>2, <2>3, <2>5
  <2> HIDE DEF acc, res
  <2>6. Placed(res, gs, n + 1)
    BY <2>3, <2>4, PlaceNext
  <2> QED
    BY <2>1, <2>6 DEF res
<1> HIDE DEF T
<1>5. z \in T
  BY <1>1, <1>3, <1>4, TermByTerm
<1>6. Placed(after[z], gs, z)
  BY <1>5 DEF T
<1>7. after[z] \in Placing
  <2>1. after \in [0 .. z -> Placing]
    BY <1>2, Zenon DEF PlacesAlong
  <2>2. z \in 0 .. z
    BY <1>9
  <2> QED
    BY <2>1, <2>2
<1>8. d \in Seq(CsvEntries(Nat, Nat))
  BY <1>2, <1>7 DEF Placing
<1> QED
  BY <1>1, <1>2, <1>6, <1>8 DEF Placed

\* An entry's addresses are what its row gives.
Addressed(e) ==
  e.in = e.row["input_addr"] /\ e.wt = e.row["kernel_addr"] /\ e.out = e.row["output_addr"]
AsGiven(es) == \A m \in DOMAIN es : Addressed(es[m])
\* What an entry without one reads: its producer's output, or that of the packet before.
ReadsProducers(d) ==
  \A m \in DOMAIN d : ~Given(d[m].row, "input_addr") =>
    /\ \A p \in 1 .. m - 1 :
         Latest(d, p, m - 1, d[m].layer) /\ d[p].fid = d[m].i1 => d[m].in = d[p].out
    /\ m > 1 /\ d[m - 1].layer # d[m].layer => d[m].in = d[m - 1].out

\* What the rows give is what their entries have, before and after the entries are sorted.
LEMMA EntriesAsGiven ==
  ASSUME NEW rs \in Seq(Rows), NEW base \in ProcessingElements, NEW es, es = Entries(rs, base)
  PROVE  AsGiven(es)
<1> DEFINE seq == [i \in DOMAIN rs |-> Entry(rs[i], i, base)]
           places == {i \in DOMAIN rs : RowAccepted(rs[i])}
           T == {Entry(rs[i], i, base) : i \in DOMAIN rs}
           z == Cardinality(places)
<1>1. DOMAIN rs = 1 .. Len(rs) /\ Len(rs) \in Nat
  OBVIOUS
<1>2. seq \in Seq(T) /\ places \subseteq DOMAIN seq
  <2>1. seq = [i \in 1 .. Len(rs) |-> Entry(rs[i], i, base)] /\ \A i \in 1 .. Len(rs) : Entry(rs[i], i, base) \in T
    BY <1>1
  <2>2. places \subseteq DOMAIN seq
    OBVIOUS
  <2> HIDE DEF T, seq, places
  <2> QED
    BY <1>1, <2>1, <2>2
<1>3. es = Selected(seq, places)
  BY DEF Entries
<1>4. \A t \in T : Addressed(t)
  BY DEF Entry, Addressed
<1> HIDE DEF seq, places, T
<1>5. es \in Seq(T) /\ Len(es) = z
  BY <1>2, <1>3, SelectedIs
<1>6. \A m \in DOMAIN es : es[m] \in T
  BY <1>5
<1> QED
  BY <1>4, <1>6 DEF AsGiven

LEMMA OrderedAsGiven ==
  ASSUME NEW places, NEW es \in Seq(CsvEntries(OrAbsent, places)), InLineOrder(es), AsGiven(es),
         NEW os, os = Ordered(es)
  PROVE  os \in Seq(CsvEntries(OrAbsent, places)) /\ AllPrecede(os) /\ AsGiven(os)
<1> DEFINE z == Len(es)
<1>1. DOMAIN es = 1 .. z /\ z \in Nat
  OBVIOUS
<1> HIDE DEF z
<1>2. /\ os \in Seq(CsvEntries(OrAbsent, places)) /\ Len(os) = z
      /\ \E order : Links(order, es, z) /\ \A n \in 1 .. z : os[n] = es[order[n]]
  BY OrderedIs DEF z
<1>3. PICK order : Links(order, es, z) /\ \A n \in 1 .. z : os[n] = es[order[n]]
  BY <1>2
<1>4. DOMAIN os = 1 .. z
  BY <1>1, <1>2
<1>7. /\ \A n \in 1 .. z : order[n] \in DOMAIN es /\ os[n] = es[order[n]]
      /\ \A m, n \in 1 .. z : m < n => Precedes(es[order[m]], es[order[n]])
  BY <1>1, <1>3, Zenon DEF Links
<1>5. AllPrecede(os)
  <2> SUFFICES ASSUME NEW k \in 1 .. z, NEW m \in 1 .. z, k < m PROVE Precedes(os[k], os[m])
    BY <1>4, Zenon DEF AllPrecede
  <2>1. os[k] = es[order[k]] /\ os[m] = es[order[m]]
    BY <1>7, Zenon
  <2>2. Precedes(es[order[k]], es[order[m]])
    BY <1>7, Zenon
  <2> QED
    BY <2>1, <2>2, Zenon
<1>6. AsGiven(os)
  <2> SUFFICES ASSUME NEW m \in 1 .. z PROVE Addressed(os[m])
    BY <1>4, Zenon DEF AsGiven
  <2>1. os[m] = es[order[m]] /\ order[m] \in DOMAIN es
    BY <1>7, Zenon
  <2>2. Addressed(es[order[m]])
    BY <2>1, Zenon DEF AsGiven
  <2> QED
    BY <2>1, <2>2, Zenon
<1> QED
  BY <1>2, <1>5, <1>6

LEMMA PlacesFollow ==
  ASSUME NEW gs \in Seq(CsvEntries(Nat, OrAbsent)), ByLayerAndId(gs), AsGiven(gs),
         NEW d, d = Place(gs).done
  PROVE  d \in Seq(CsvEntries(Nat, Nat)) /\ ByLayerAndId(d) /\ ReadsProducers(d)
<1> DEFINE z == Len(gs)
<1>1. DOMAIN gs = 1 .. z
  OBVIOUS
<1>2. /\ z \in Nat /\ d \in Seq(CsvEntries(Nat, Nat)) /\ Len(d) = z
      /\ \A m \in 1 .. z : Stands(d[m], gs[m]) /\ Follows(d, gs, m)
  BY PlacedInOrder
<1> HIDE DEF z
<1>3. DOMAIN d = 1 .. z
  BY <1>2
<1>4. ByLayerAndId(d)
  BY <1>1, <1>2, <1>3 DEF ByLayerAndId, Stands
<1>5. ReadsProducers(d)
  <2> SUFFICES ASSUME NEW m \in 1 .. z, ~Given(d[m].row, "input_addr")
               PROVE  /\ \A p \in 1 .. m - 1 :
                           Latest(d, p, m - 1, d[m].layer) /\ d[p].fid = d[m].i1 => d[m].in = d[p].out
                      /\ m > 1 /\ d[m - 1].layer # d[m].layer => d[m].in = d[m - 1].out
    BY <1>3 DEF ReadsProducers
  <2>1. Stands(d[m], gs[m]) /\ Follows(d, gs, m) /\ gs[m].in = Absent
    BY <1>1, <1>2 DEF AsGiven, Addressed, Given, Stands
  <2>2. \A k \in 1 .. m : k \in 1 .. z /\ d[k].layer = gs[k].layer /\ d[k].fid = gs[k].fid
                          /\ d[k].i1 = gs[k].i1
    BY <1>2 DEF Stands
  <2>3. m \in 1 .. m /\ m \in Nat
    BY <1>2
  <2>4. ASSUME NEW p \in 1 .. m - 1, Latest(d, p, m - 1, d[m].layer), d[p].fid = d[m].i1
        PROVE  d[m].in = d[p].out
    <3>1. p \in 1 .. m /\ \A k \in p + 1 .. m - 1 : k \in 1 .. m
      BY <2>3
    <3>2. Latest(gs, p, m - 1, gs[m].layer) /\ gs[p].fid = gs[m].i1
      BY <2>2, <2>3, <2>4, <3>1 DEF Latest
    <3> QED
      BY <2>1, <3>2 DEF Follows
  <2>5. m > 1 => m - 1 \in 1 .. m
    BY <2>3
  <2>6. m > 1 /\ d[m - 1].layer # d[m].layer => d[m].in = d[m - 1].out
    BY <2>1, <2>2, <2>3, <2>5 DEF Follows
  <2> QED
    BY <2>4, <2>6
<1> QED
  BY <1>2, <1>4, <1>5

\* What the linker makes of the rows.
LEMMA ReadyToPlace ==
  ASSUME NEW rs \in Seq(Rows), NEW base \in ProcessingElements,
         NEW gs, gs = AssignIds(Ordered(Entries(rs, base)))
  PROVE  gs \in Seq(CsvEntries(Nat, OrAbsent)) /\ ByLayerAndId(gs) /\ AsGiven(gs)
<1> DEFINE es == Entries(rs, base)
           os == Ordered(es)
<1>1. es \in Seq(CsvEntries(OrAbsent, OrAbsent)) /\ InLineOrder(es) /\ AsGiven(es)
  BY EntriesAre, EntriesAsGiven
<1>2. gs = AssignIds(os)
  OBVIOUS
<1> HIDE DEF es
<1>3. os \in Seq(CsvEntries(OrAbsent, OrAbsent)) /\ AllPrecede(os) /\ AsGiven(os)
  BY <1>1, OrderedAsGiven
<1> HIDE DEF os
<1>4. Len(gs) = Len(os) /\ ByLayerAndId(gs) /\ \A m \in 1 .. Len(os) : Retains(gs[m], os[m])
  BY <1>2, <1>3, IdsInOrder
<1>5. gs \in Seq(CsvEntries(Nat, OrAbsent))
  <2>1. PICK after : /\ Len(os) \in Nat /\ AssignsAlong(after, os, OrAbsent, Len(os))
                     /\ gs = after[Len(os)].done
    BY <1>2, <1>3, AssignedIs
  <2>2. after[Len(os)] \in Assigning(OrAbsent)
    BY <2>1 DEF AssignsAlong
  <2> QED
    BY <2>1, <2>2 DEF Assigning
<1>6. AsGiven(gs)
  <2>1. DOMAIN gs = 1 .. Len(os) /\ DOMAIN os = 1 .. Len(os)
    BY <1>3, <1>4, <1>5
  <2> QED
    BY <1>3, <1>4, <2>1 DEF AsGiven, Addressed, Retains
<1> QED
  BY <1>4, <1>5, <1>6

LEMMA LinkedInOrder ==
  ASSUME NEW rs \in Seq(Rows), NEW base \in ProcessingElements, NEW d, d = Link(rs, base).entries
  PROVE  d \in Seq(CsvEntries(Nat, Nat)) /\ ByLayerAndId(d) /\ ReadsProducers(d)
<1> DEFINE gs == AssignIds(Ordered(Entries(rs, base)))
<1>1. gs \in Seq(CsvEntries(Nat, OrAbsent)) /\ ByLayerAndId(gs) /\ AsGiven(gs)
  BY ReadyToPlace
<1>2. d = Place(gs).done
  BY DEF Link
<1> HIDE DEF gs
<1> QED
  BY <1>1, <1>2, PlacesFollow

\* The functions of a CSV program are in the order of the image.
LEMMA CsvInOrder ==
  ASSUME NEW es \in Seq(CsvEntries(Nat, Nat)), ByLayerAndId(es), NEW h, NEW fs, fs = CsvFunctions(es, h)
  PROVE  InOrder(fs)
<1>1. DOMAIN fs = DOMAIN es /\ \A i \in DOMAIN es : fs[i].layer = es[i].layer /\ fs[i].fid = es[i].fid
  BY Zenon DEF CsvFunctions, EntryFunction, Function
<1>2. \A i \in DOMAIN es : es[i].layer \in Nat /\ es[i].fid \in Nat /\ i \in Nat
  <2>1. \A i \in DOMAIN es : es[i] \in CsvEntries(Nat, Nat) /\ i \in Nat
    OBVIOUS
  <2> QED
    BY <2>1 DEF CsvEntries
<1> SUFFICES ASSUME NEW m \in DOMAIN es, NEW n \in DOMAIN es, m < n
             PROVE  SortsBefore(fs, m, n)
  BY <1>1 DEF InOrder
<1>3. es[m].layer < es[n].layer \/ (es[m].layer = es[n].layer /\ es[m].fid <= es[n].fid)
  BY DEF ByLayerAndId
<1> QED
  BY <1>1, <1>2, <1>3 DEF SortsBefore

\* Those of a program of layers are numbered in their order.
LEMMA LayersInOrder ==
  ASSUME NEW ls, AllDescribed(ls), NEW fs, fs = LayerFunctions(ls)
  PROVE  InOrder(fs)
<1>1. DOMAIN fs = DOMAIN ls /\ \A i \in DOMAIN ls : fs[i].layer = i - 1 /\ i \in Nat
  <2>1. \A i \in DOMAIN ls : i \in Nat
    BY DEF AllDescribed
  <2> QED
    BY <2>1 DEF LayerFunctions, LayerFunction, Function
<1> QED
  BY <1>1 DEF InOrder, SortsBefore

----------------------------------------------------------------------------
(* A loaded image reads back as the program *)

\* img is the image of the program P, in order, with these weights and this input.
Carries(img, P, blobs, fmap) ==
  /\ ProgramOK(P) /\ InOrder(P) /\ P # <<>>
  /\ \A x \in DOMAIN blobs : blobs[x] \in Nat
  /\ fmap \in Nat /\ img = BuildImage(P, blobs, fmap)
CarriesSome(img, P, t) == \E blobs, fmap : Carries(img, P, blobs, fmap) /\ (t = "csv" => blobs = <<>>)
\* parsed is what is read of it, of all of it when full.
ReadFrom(img, parsed, full) ==
  \E length \in Int : parsed = ParseImage(img, length) /\ full = (length >= img.total)
Faithful ==
  /\ stage \in {"built", "loaded"} => CarriesSome(image, Program, tool)
  /\ stage = "loaded" => ReadFrom(image, loaded, whole)

\* What each tool builds is the image of a program in order.
LEMMA CsvCarries ==
  ASSUME ImageKept, GenerateFromCsv, stage' = "built"
  PROVE  CarriesSome(image', Program', tool')
<1> DEFINE es == Link(rows, hw.pe).entries
           fs == CsvFunctions(es, hw)
<1>1. /\ tool = "csv" /\ UNCHANGED <<tool, hw, rows>> /\ es # <<>>
      /\ image' = BuildImage(fs, <<>>, 0)
  BY DEF GenerateFromCsv, Editing
<1>2. Program' = fs
  BY <1>1 DEF Program, Linked
<1>3. hw \in Hardware /\ rows \in Seq(Rows) /\ hw.pe \in ProcessingElements
  BY CompilerAssumption DEF ImageKept
<1>4. es \in Seq(CsvEntries(Nat, Nat)) /\ ByLayerAndId(es)
  BY <1>3, LinkedInOrder
<1> HIDE DEF es
<1>5. ProgramOK(fs) /\ DOMAIN fs = DOMAIN es
  BY <1>3, <1>4, CsvProgramOK
<1>6. InOrder(fs)
  BY <1>4, CsvInOrder
<1> HIDE DEF fs
<1>7. fs # <<>>
  <2>1. 1 \in DOMAIN es
    BY <1>1, <1>4, NonEmptyList
  <2> QED
    BY <1>5, <2>1
<1>8. \A x \in DOMAIN <<>> : <<>>[x] \in Nat
  OBVIOUS
<1>9. Carries(image', fs, <<>>, 0)
  BY <1>1, <1>5, <1>6, <1>7, <1>8 DEF Carries
<1> QED
  BY <1>2, <1>9, Zenon DEF CarriesSome

LEMMA CompilerCarries ==
  ASSUME ImageKept, CompilerKept, Compile, stage' = "built"
  PROVE  CarriesSome(image', Program', tool')
<1> DEFINE fs == LayerFunctions(compiler.layers)
           bs == compiler.blobs
           fm == compiler.fmap
<1>1. /\ tool = "api" /\ UNCHANGED <<tool, compiler>> /\ image' = BuildImage(fs, bs, fm)
      /\ image' # NoImage
  BY DEF Compile, Editing
<1>2. Program' = fs
  BY <1>1 DEF Program
<1>3. ProgramOK(fs) /\ InOrder(fs)
  BY LayerProgramOK, LayersInOrder DEF CompilerKept
<1>4. fm \in Nat /\ \A x \in DOMAIN bs : bs[x] \in Nat
  <2>1. BlobSizes \subseteq Nat
    BY CompilerAssumption
  <2>2. fm \in BlobSizes \cup {0} /\ Range(bs) \subseteq BlobSizes
    BY DEF CompilerKept
  <2> HIDE DEF fm, bs
  <2>3. \A x \in DOMAIN bs : bs[x] \in Range(bs)
    BY DEF Range
  <2>4. fm \in Nat
    BY <2>1, <2>2
  <2>5. Range(bs) \subseteq Nat
    BY <2>1, <2>2
  <2>6. \A x \in DOMAIN bs : bs[x] \in Nat
    BY <2>3, <2>5
  <2> QED
    BY <2>4, <2>6
<1> HIDE DEF fs, bs, fm
<1>5. fs # <<>>
  BY <1>1 DEF BuildImage
<1>6. Carries(image', fs, bs, fm)
  BY <1>1, <1>3, <1>4, <1>5 DEF Carries
<1>7. tool' # "csv"
  BY <1>1
<1> QED
  BY <1>2, <1>6, <1>7, Zenon DEF CarriesSome

LEMMA GeneratorCarries ==
  ASSUME NetOK(net, todo), GenerateDone
  PROVE  CarriesSome(image', Program', tool')
<1> DEFINE ls == GeneratedLayers(net.layers)
           fs == LayerFunctions(ls)
<1>1. /\ tool = "generator" /\ UNCHANGED <<tool, net>> /\ net.layers # <<>>
      /\ image' = BuildImage(fs, <<>>, 0)
  BY DEF GenerateDone, Editing
<1>8. Program' = fs
  BY <1>1 DEF Program
<1>2. net.layers \in Seq(Range(net.layers)) /\ \A l \in Range(net.layers) : Generated(l)
  BY DEF NetOK
<1>3. AllDescribed(ls) /\ DOMAIN ls = DOMAIN net.layers
  BY <1>2, GeneratedDescribed DEF Generated
<1> HIDE DEF ls
<1>4. ProgramOK(fs) /\ DOMAIN fs = DOMAIN ls /\ InOrder(fs)
  BY <1>3, LayerProgramOK, LayersInOrder
<1> HIDE DEF fs
<1>5. fs # <<>>
  <2> DEFINE ns == net.layers
  <2>1. 1 \in DOMAIN ns
    BY <1>1, <1>2, NonEmptyList
  <2> QED
    BY <1>3, <1>4, <2>1
<1>9. \A x \in DOMAIN <<>> : <<>>[x] \in Nat
  OBVIOUS
<1>6. Carries(image', fs, <<>>, 0)
  BY <1>1, <1>4, <1>5, <1>9 DEF Carries
<1> QED
  BY <1>6, <1>8, Zenon DEF CarriesSome

LEMMA ProgramLoaded ==
  ASSUME Faithful, stage = "built", stage' = "loaded",
         NEW length \in Int, loaded' = ParseImage(image, length), whole' = (length >= image.total),
         UNCHANGED <<tool, hw, rows, compiler, net, image>>
  PROVE  Faithful'
<1>1. CarriesSome(image, Program, tool)
  BY DEF Faithful
<1>2. Program' = Program /\ image' = image /\ tool' = tool
  BY DEF Program, Linked
<1>3. CarriesSome(image', Program', tool')
  BY <1>1, <1>2, Zenon
<1>4. ReadFrom(image', loaded', whole')
  BY <1>2 DEF ReadFrom
<1> QED
  BY <1>3, <1>4 DEF Faithful

\* Every call of a compiler, and the loader's, keeps it so.
LEMMA FaithfulSteps ==
  ASSUME Compiling, Faithful, [Next]_vars
  PROVE  Faithful'
<1>1. ASSUME stage' = "edit" \/ stage' = "rejected" PROVE Faithful'
  BY <1>1 DEF Faithful
<1>2. ASSUME UNCHANGED vars PROVE Faithful'
  BY <1>2 DEF Faithful, Program, Linked, vars
<1>3. ASSUME NEW r \in Rows, WriteRow(r) PROVE Faithful'
  BY <1>1, <1>3 DEF WriteRow, Editing
<1>4. CASE LoadImage
  <2>1. image.total \in Int /\ \A cut \in {0, 1, DescriptorBytes} : image.total - cut \in Int
    BY DEF Compiling, ImageKept, ImageOK, DescriptorBytes
  <2>2. /\ stage = "built" /\ stage' = "loaded"
        /\ UNCHANGED <<tool, hw, rows, compiler, net, image>>
        /\ \E length \in Int : loaded' = ParseImage(image, length) /\ whole' = (length >= image.total)
    BY <1>4, <2>1 DEF LoadImage, Load
  <2> QED
    BY <2>2, ProgramLoaded
<1>5. CASE \/ \E l \in PlainLayers : AddLayer(l)
           \/ \E l \in PlainLayers, t \in Tiles : AddLayerDirect(l, t)
           \/ \E l \in Geometries, m \in Mappings, t \in Tiles : AddLayerDerived(l, m, t)
           \/ \E id \in 0 .. MaxLayers - 1, n \in BlobSizes : AttachWeights(id, n)
           \/ \E n \in BlobSizes : SetFirstLayerInput(n)
           \/ Clear
  <2>1. stage' = "edit"
    BY <1>5 DEF AddLayer, AddLayerDirect, AddLayerDerived, AttachWeights,
       SetFirstLayerInput, Clear, ApiCall, Editing
  <2> QED
    BY <1>1, <2>1
<1>6. CASE \/ \E pe \in PeChoices, d \in {"WS", "IS", "OS"} : Configure(pe, d)
           \/ ResetConfig \/ ClearTypePe \/ ClearIndexPe
           \/ \E a \in BOOLEAN : SetPeGroupingMode(a)
           \/ \E o \in TypeOverrides : SetTypePe(o[1], o[2])
           \/ \E o \in IndexOverrides : SetIndexPe(o[1], o[2])
           \/ \E name \in Networks, cfg \in NetConfigs : Generate(name, cfg)
           \/ GenerateLayer
  <2>1. stage' = "edit"
    BY <1>6 DEF Configure, ResetConfig, ClearTypePe, ClearIndexPe, SetPeGroupingMode,
       SetTypePe, SetIndexPe, GeneratorCall, Generate, GenerateLayer, Editing
  <2> QED
    BY <1>1, <2>1
<1>7. CASE GenerateFromCsv
  <2>1. stage' = "rejected" \/ stage' = "built"
    BY <1>7 DEF GenerateFromCsv
  <2>2. ASSUME stage' = "built" PROVE Faithful'
    BY <1>7, <2>2, CsvCarries DEF Faithful, Compiling
  <2> QED
    BY <1>1, <2>1, <2>2
<1>8. CASE Compile
  <2>1. stage' = "rejected" \/ stage' = "built"
    BY <1>8 DEF Compile
  <2>2. ASSUME stage' = "built" PROVE Faithful'
    BY <1>8, <2>2, CompilerCarries DEF Faithful, Compiling
  <2> QED
    BY <1>1, <2>1, <2>2
<1>9. CASE GenerateDone
  <2>1. stage' = "built"
    BY <1>9 DEF GenerateDone
  <2> QED
    BY <1>9, <2>1, GeneratorCarries DEF Faithful, Compiling
<1> QED
  BY <1>2, <1>3, <1>4, <1>5, <1>6, <1>7, <1>8, <1>9 DEF Next, WriteCsv, UseCompiler, UseGenerator

LEMMA FaithfulKept == Spec => [](Compiling /\ Faithful)
<1>1. Init => Compiling /\ Faithful
  BY NothingCompiled DEF Init, Faithful
<1>2. Compiling /\ Faithful /\ [Next]_vars => (Compiling /\ Faithful)'
  BY CompilingSteps, FaithfulSteps
<1> QED
  BY <1>1, <1>2, PTL DEF Spec

\* What is read of the image of a program.
LEMMA CarriedAndRead ==
  ASSUME NEW img, NEW P, NEW blobs, NEW fmap, Carries(img, P, blobs, fmap),
         Range(LoadedBlobs(img)) = {0}, NEW parsed, NEW full, ReadFrom(img, parsed, full)
  PROVE  /\ parsed.ok = full
         /\ parsed.ok => Len(parsed.layers) = Len(P) /\ DOMAIN parsed.layers = DOMAIN P
         /\ ReadsBack(P, parsed.layers) /\ ReadsOperands(P, parsed.layers)
<1>1. PICK length \in Int : parsed = ParseImage(img, length) /\ full = (length >= img.total)
  BY DEF ReadFrom
<1> DEFINE T == Range(P)
<1>2. P \in Seq(T) /\ \A f \in T : f.layer \in Int /\ f.fid \in Int
  BY DEF Carries, ProgramOK, FunctionOK
<1> HIDE DEF T
<1>3. /\ InOrder(P) /\ P # <<>> /\ \A x \in DOMAIN blobs : blobs[x] \in Nat
      /\ fmap \in Nat /\ img = BuildImage(P, blobs, fmap)
  BY DEF Carries
<1>4. ReadAs(parsed, img, length, P)
  <2>1. length \in Int /\ parsed = ParseImage(img, length) /\ Range(LoadedBlobs(img)) = {0}
    BY <1>1
  <2> QED
    BY <1>2, <1>3, <2>1, BuiltAndRead
<1> QED
  BY <1>1, <1>4 DEF ReadAs

\* The properties this means.
LEMMA FaithfulLoads ==
  ASSUME Compiling, Faithful
  PROVE  LoadedIsTheProgram
<1> DEFINE P == Program
           L == loaded.layers
           SameLayer(i) == {j \in DOMAIN P : P[j].layer = P[i].layer}
<1> SUFFICES ASSUME stage = "loaded", Range(LoadedBlobs(image)) = {0}
             PROVE  /\ loaded.ok = whole
                    /\ loaded.ok => Len(L) = Len(P)
                    /\ ReadsBack(P, L)
  BY DEF LoadedIsTheProgram, ReadsBack
<1>1. CarriesSome(image, P, tool) /\ ReadFrom(image, loaded, whole)
  BY DEF Faithful
<1> HIDE DEF P
<1>2. PICK blobs, fmap : Carries(image, P, blobs, fmap)
  BY <1>1 DEF CarriesSome
<1> QED
  BY <1>1, <1>2, CarriedAndRead

\* LoadedIsTheProgram, for every CSV program, sequence of compiler calls and network: an
\* image without weights that build_dnn_image_packets makes is accepted by
\* parse_dnn_image_packets_to_layers exactly when all of it is there, and the layers it
\* reads are the program's functions, in order, with their headers and operands.
THEOREM LoadedAlwaysTheProgram == Spec => []LoadedIsTheProgram
BY FaithfulKept, FaithfulLoads, PTL

----------------------------------------------------------------------------
(* Consumers read their producers *)

\* Before an image is loaded there is nothing to run.
NotYetLoaded == stage # "loaded" => ~loaded.ok

\* Only the loader loads.
LEMMA NotYetLoadedSteps ==
  ASSUME NotYetLoaded, [Next]_vars
  PROVE  NotYetLoaded'
<1>1. ASSUME stage = "edit", UNCHANGED loaded PROVE NotYetLoaded'
  BY <1>1 DEF NotYetLoaded
<1>2. CASE UNCHANGED vars
  BY <1>2 DEF NotYetLoaded, vars
<1>3. CASE \E r \in Rows : WriteRow(r)
  BY <1>1, <1>3 DEF WriteRow, Editing
<1>4. CASE LoadImage
  BY <1>4 DEF LoadImage, Load, NotYetLoaded
<1>5. CASE \/ \E l \in PlainLayers : AddLayer(l)
           \/ \E l \in PlainLayers, t \in Tiles : AddLayerDirect(l, t)
           \/ \E l \in Geometries, m \in Mappings, t \in Tiles : AddLayerDerived(l, m, t)
           \/ \E id \in 0 .. MaxLayers - 1, n \in BlobSizes : AttachWeights(id, n)
           \/ \E n \in BlobSizes : SetFirstLayerInput(n)
           \/ Clear
  <2>1. stage = "edit" /\ UNCHANGED loaded
    BY <1>5 DEF AddLayer, AddLayerDirect, AddLayerDerived, AttachWeights,
       SetFirstLayerInput, Clear, ApiCall, Editing
  <2> QED
    BY <1>1, <2>1
<1>6. CASE \/ \E pe \in PeChoices, d \in {"WS", "IS", "OS"} : Configure(pe, d)
           \/ ResetConfig \/ ClearTypePe \/ ClearIndexPe
           \/ \E a \in BOOLEAN : SetPeGroupingMode(a)
           \/ \E o \in TypeOverrides : SetTypePe(o[1], o[2])
           \/ \E o \in IndexOverrides : SetIndexPe(o[1], o[2])
           \/ \E name \in Networks, cfg \in NetConfigs : Generate(name, cfg)
           \/ GenerateLayer
  <2>1. stage = "edit" /\ UNCHANGED loaded
    BY <1>6 DEF Configure, ResetConfig, ClearTypePe, ClearIndexPe, SetPeGroupingMode,
       SetTypePe, SetIndexPe, GeneratorCall, Generate, GenerateLayer, Editing
  <2> QED
    BY <1>1, <2>1
<1>7. CASE GenerateFromCsv \/ Compile \/ GenerateDone
  <2>1. stage = "edit" /\ UNCHANGED loaded
    BY <1>7 DEF GenerateFromCsv, Compile, GenerateDone, Editing
  <2> QED
    BY <1>1, <2>1
<1> QED
  BY <1>2, <1>3, <1>4, <1>5, <1>6, <1>7 DEF Next, WriteCsv, UseCompiler, UseGenerator

LEMMA ProgramsKept == Spec => [](Compiling /\ Faithful /\ NotYetLoaded)
<1>1. Init => NotYetLoaded
  BY DEF Init, NotYetLoaded, Unloaded
<1>2. NotYetLoaded /\ [Next]_vars => NotYetLoaded'
  BY NotYetLoadedSteps
<1>3. Spec => []NotYetLoaded
  BY <1>1, <1>2, PTL DEF Spec
<1> QED
  BY <1>3, FaithfulKept, PTL

\* A CSV program is read back, function by function.
LEMMA CsvReadBack ==
  ASSUME Compiling, Faithful, tool = "csv", stage = "loaded"
  PROVE  /\ Linked \in Seq(CsvEntries(Nat, Nat)) /\ ReadsProducers(Linked)
         /\ loaded.ok => /\ DOMAIN loaded.layers = DOMAIN Linked
                         /\ ReadsBack(CsvFunctions(Linked, hw), loaded.layers)
                         /\ ReadsOperands(CsvFunctions(Linked, hw), loaded.layers)
<1> DEFINE es == Link(rows, hw.pe).entries
           L == loaded.layers
           P == CsvFunctions(es, hw)
<1>1. hw \in Hardware /\ rows \in Seq(Rows) /\ hw.pe \in ProcessingElements
  BY CompilerAssumption DEF Compiling, ImageKept
<1>2. es \in Seq(CsvEntries(Nat, Nat)) /\ ReadsProducers(es)
  BY <1>1, LinkedInOrder
<1>3. Program = P /\ Linked = es
  BY DEF Program, Linked
<1>4. CarriesSome(image, P, tool) /\ ReadFrom(image, loaded, whole)
  BY <1>3 DEF Faithful
<1> HIDE DEF es
<1>5. DOMAIN P = DOMAIN es
  BY DEF CsvFunctions
<1> HIDE DEF P
<1>6. PICK blobs, fmap : Carries(image, P, blobs, fmap) /\ blobs = <<>>
  BY <1>4 DEF CarriesSome
<1>7. Range(LoadedBlobs(image)) = {0}
  <2> DEFINE T == Range(P)
  <2>1. P \in Seq(T) /\ \A f \in T : f.layer \in Int /\ f.fid \in Int
    BY <1>6 DEF Carries, ProgramOK, FunctionOK
  <2> HIDE DEF T
  <2>2. InOrder(P) /\ P # <<>> /\ fmap \in Nat /\ image = BuildImage(P, blobs, fmap)
    BY <1>6 DEF Carries
  <2>3. DOMAIN blobs = {}
    BY <1>6
  <2> QED
    BY <2>1, <2>2, <2>3, NoneAttached
<1>8. /\ loaded.ok = whole
      /\ loaded.ok => Len(L) = Len(P) /\ DOMAIN L = DOMAIN P
      /\ ReadsBack(P, L) /\ ReadsOperands(P, L)
  BY <1>4, <1>6, <1>7, CarriedAndRead
<1>9. loaded.ok => DOMAIN L = DOMAIN es
  BY <1>5, <1>8
<1> QED
  BY <1>2, <1>3, <1>8, <1>9 DEF P

\* A layer linked to a producer reads that producer's output.
LEMMA ConsumersFollow ==
  ASSUME Compiling, Faithful, NotYetLoaded
  PROVE  ConsumerReadsItsProducer
<1> DEFINE L == loaded.layers
           es == Linked
           P == CsvFunctions(Linked, hw)
           Producers(j) == {i \in 1 .. j - 1 : L[i].layer = L[j].layer /\ L[i].fid = L[j].i1}
           First(j)     == j > 1 /\ L[j - 1].layer # L[j].layer
<1> SUFFICES ASSUME tool = "csv", loaded.ok, NEW j \in DOMAIN L, ~Given(es[j].row, "input_addr")
             PROVE  /\ Producers(j) # {} => L[j].input.addr = L[Max(Producers(j))].output.addr
                    /\ First(j) => L[j].input.addr = L[j - 1].output.addr
  BY DEF ConsumerReadsItsProducer
<1>1. stage = "loaded"
  BY DEF NotYetLoaded
<1>2. /\ es \in Seq(CsvEntries(Nat, Nat)) /\ ReadsProducers(es) /\ DOMAIN L = DOMAIN es
      /\ ReadsBack(P, L) /\ ReadsOperands(P, L)
  BY <1>1, CsvReadBack
<1>3. \A k \in DOMAIN es : /\ P[k].layer = es[k].layer /\ P[k].fid = es[k].fid /\ P[k].src1 = es[k].i1
                           /\ P[k].input.addr = es[k].in /\ P[k].output.addr = es[k].out
  BY DEF CsvFunctions, EntryFunction, Function, Tensor
<1>4. \A k \in DOMAIN L : /\ L[k].layer = P[k].layer /\ L[k].fid = P[k].fid /\ L[k].i1 = P[k].src1
                          /\ L[k].input = P[k].input /\ L[k].output = P[k].output
  BY <1>2 DEF ReadsBack, ReadsOperands
<1> HIDE DEF es, L, P
<1>5. \A k \in DOMAIN es : /\ L[k].layer = es[k].layer /\ L[k].fid = es[k].fid /\ L[k].i1 = es[k].i1
                           /\ L[k].input.addr = es[k].in /\ L[k].output.addr = es[k].out
  BY <1>2, <1>3, <1>4
<1>6. DOMAIN es = 1 .. Len(es) /\ Len(es) \in Nat
  BY <1>2
<1>7. j \in DOMAIN es /\ j \in Nat /\ \A k \in 1 .. j : k \in DOMAIN es
  BY <1>2, <1>6
<1>8. /\ \A p \in 1 .. j - 1 :
           Latest(es, p, j - 1, es[j].layer) /\ es[p].fid = es[j].i1 => es[j].in = es[p].out
      /\ j > 1 /\ es[j - 1].layer # es[j].layer => es[j].in = es[j - 1].out
  BY <1>2, <1>7 DEF ReadsProducers
<1>9. ASSUME Producers(j) # {} PROVE L[j].input.addr = L[Max(Producers(j))].output.addr
  <2> DEFINE T == Producers(j)
             p == Max(T)
  <2>1. T \subseteq 1 .. j - 1 /\ T # {} /\ 1 \in Int /\ j - 1 \in Int
    BY <1>7, <1>9
  <2>2. \A k \in T : L[k].layer = L[j].layer /\ L[k].fid = L[j].i1
    OBVIOUS
  <2>3. \A k \in 1 .. j - 1 : L[k].layer = L[j].layer /\ L[k].fid = L[j].i1 => k \in T
    OBVIOUS
  <2> HIDE DEF T
  <2>4. p \in T /\ \A x \in T : x <= p
    BY <2>1, MaxIn
  <2> HIDE DEF p
  <2>5. p \in 1 .. j - 1 /\ p \in DOMAIN es /\ L[p].layer = L[j].layer /\ L[p].fid = L[j].i1
    BY <1>7, <2>1, <2>2, <2>4
  <2>6. es[p].layer = es[j].layer /\ es[p].fid = es[j].i1
    BY <1>5, <1>7, <2>5
  <2>7. ASSUME NEW k \in p + 1 .. j - 1, es[k].layer = es[j].layer, es[k].fid = es[p].fid
        PROVE  FALSE
    <3>1. k \in 1 .. j - 1 /\ k \in DOMAIN es /\ k > p /\ k \in Int
      BY <1>7, <2>5
    <3>2. L[k].layer = L[j].layer /\ L[k].fid = L[j].i1
      BY <1>5, <1>7, <2>6, <2>7, <3>1
    <3>3. k <= p
      BY <2>3, <2>4, <3>1, <3>2
    <3> QED
      BY <2>5, <3>1, <3>3
  <2>8. Latest(es, p, j - 1, es[j].layer)
    BY <2>6, <2>7 DEF Latest
  <2>9. es[j].in = es[p].out
    BY <1>8, <2>5, <2>6, <2>8
  <2> QED
    BY <1>5, <1>7, <2>5, <2>9 DEF p, T
<1>10. ASSUME First(j) PROVE L[j].input.addr = L[j - 1].output.addr
  <2>1. j - 1 \in 1 .. j
    BY <1>7, <1>10
  <2>2. j > 1 /\ es[j - 1].layer # es[j].layer
    BY <1>5, <1>7, <1>10, <2>1
  <2> QED
    BY <1>5, <1>7, <1>8, <2>1, <2>2
<1> QED
  BY <1>9, <1>10

\* ConsumerReadsItsProducer, for every CSV program: whatever order its rows are in and
\* whichever ids, connections and addresses they leave out, a layer that is linked to a
\* producer and given no address of its own reads, once loaded, where the linker of
\* load_layer_spec_csv had that producer write.
THEOREM ConsumersReadTheirProducers == Spec => []ConsumerReadsItsProducer
BY ProgramsKept, ConsumersFollow, PTL

----------------------------------------------------------------------------
(* Where a file's entries are placed, nothing is overwritten *)

\* Where an entry's tensors end, once placed.
InputEnd(e)  == e.in + Volume(InputShape(e.spec))
WeightEnd(e) == e.wt + KernelWords(e.spec)
OutputEnd(e) == e.out + Volume(OutputShape(e.spec))
Below(e, c)  == InputEnd(e) <= c /\ WeightEnd(e) <= c /\ OutputEnd(e) <= c
AllBelow(d, n, c) == \A j \in 1 .. n : Below(d[j], c)
\* The addresses the linker chose for entry m of d are behind all that is placed before.
Beyond(d, m, e) ==
  /\ e.wt = Absent => InputEnd(d[m]) <= d[m].wt /\ AllBelow(d, m - 1, d[m].wt)
  /\ e.out = Absent => /\ InputEnd(d[m]) <= d[m].out /\ WeightEnd(d[m]) <= d[m].out
                       /\ AllBelow(d, m - 1, d[m].out)
\* Of the first n entries, as long as no address has wrapped around.
Mounted(acc, gs, n) ==
  /\ Len(acc.done) = n /\ AllBelow(acc.done, n, acc.cursor)
  /\ \A m \in 1 .. n : acc.done[m].row = gs[m].row
  /\ acc.cursor < WordSpace => \A m \in 1 .. n : Beyond(acc.done, m, gs[m])

\* Below a cursor is below a later one.
LEMMA BelowLater ==
  ASSUME NEW e \in CsvEntries(Nat, Nat), NEW c \in Nat, NEW b \in Nat, c <= b, Below(e, c)
  PROVE  Below(e, b)
<1>1. e.spec \in LayerSpecs /\ KernelFits(e.spec) /\ e.in \in Nat /\ e.wt \in Nat /\ e.out \in Nat
  BY DEF CsvEntries, FittedSpecs, LayerFits
<1>2. Volume(InputShape(e.spec)) \in Nat /\ Volume(OutputShape(e.spec)) \in Nat
  BY <1>1, ShapesAre, ShapeVolume
<1>3. KernelWords(e.spec) \in Nat
  BY <1>1, KernelWordsIs
<1>4. InputEnd(e) \in Nat /\ WeightEnd(e) \in Nat /\ OutputEnd(e) \in Nat
  BY <1>1, <1>2, <1>3 DEF InputEnd, WeightEnd, OutputEnd
<1> QED
  BY <1>4 DEF Below

\* An address inside the memory keeps its place.
LEMMA WrapStays == ASSUME NEW c \in Nat, c < WordSpace PROVE Wrap(c) = c
<1>1. WordSpace \in Nat \ {0}
  BY WordSpacePositive
<1>2. \A w \in Nat \ {0} : c < w => c % w = c
  OBVIOUS
<1> QED
  BY <1>1, <1>2 DEF Wrap

\* One entry placed, at the cursor or where its row says.
LEMMA EntryMounted ==
  ASSUME NEW acc \in Placing, NEW e \in CsvEntries(Nat, OrAbsent),
         NEW res, res = PlaceEntry(acc, e), NEW n, n = Len(acc.done), NEW x, x = res.done[n + 1]
  PROVE  /\ n \in Nat /\ Len(res.done) = n + 1 /\ \A m \in 1 .. n : res.done[m] = acc.done[m]
         /\ res.cursor \in Nat /\ acc.cursor <= res.cursor /\ Below(x, res.cursor)
         /\ x.row = e.row
         /\ res.cursor < WordSpace =>
              /\ e.wt = Absent => InputEnd(x) <= x.wt /\ acc.cursor <= x.wt
              /\ e.out = Absent => InputEnd(x) <= x.out /\ WeightEnd(x) <= x.out /\ acc.cursor <= x.out
<1> DEFINE first   == e.layer # acc.layer
           outs    == IF first THEN <<>> ELSE acc.outs
           prevOut == IF first THEN acc.lastOut ELSE acc.prevOut
           in == InputFor(acc, e, outs, prevOut)
           afterIn == Most(acc.cursor, in + Volume(InputShape(e.spec)))
           wt      == IF e.wt # Absent THEN e.wt ELSE Wrap(afterIn)
           afterWt == Most(afterIn, wt + KernelWords(e.spec))
           out     == IF e.out # Absent THEN e.out ELSE Wrap(afterWt)
           cursor  == Most(afterWt, out + Volume(OutputShape(e.spec)))
           y       == [e EXCEPT !.in = in, !.wt = wt, !.out = out]
           E == CsvEntries(Nat, Nat)
<1>1. res = [layer |-> e.layer, outs |-> With(outs, e.fid, out), prevOut |-> prevOut,
             lastOut |-> out, cursor |-> cursor, done |-> Append(acc.done, y)]
  BY DEF PlaceEntry, InputFor
<1>2. res \in Placing
  BY PlaceEntryIs
<1>20. outs = (IF e.layer # acc.layer THEN <<>> ELSE acc.outs)
       /\ prevOut = (IF e.layer # acc.layer THEN acc.lastOut ELSE acc.prevOut)
  OBVIOUS
<1> HIDE DEF outs, prevOut
<1>3. /\ n \in Nat /\ Len(res.done) = n + 1 /\ \A m \in 1 .. n : res.done[m] = acc.done[m]
      /\ Stands(x, e)
  <2>1. PlacedAs(acc, e, res, n, outs, prevOut, x)
    BY <1>20, PlacedEntry
  <2> QED
    BY <2>1 DEF PlacedAs
<1> HIDE DEF in, wt, out, cursor, afterIn, afterWt
<1>4. /\ y.in = in /\ y.out = out /\ y.wt = wt /\ y.spec = e.spec
  BY DEF CsvEntries
<1> HIDE DEF y
<1>5. x = y
  <2>1. acc.done \in Seq(E) /\ res.done \in Seq(E) /\ res.done = Append(acc.done, y)
    BY <1>1, <1>2 DEF Placing
  <2> DEFINE d == acc.done
  <2>2. d \in Seq(E \cup {y}) /\ y \in E \cup {y} /\ n = Len(d)
    BY <2>1
  <2> HIDE DEF E, d
  <2>3. Append(d, y)[n + 1] = y
    BY <1>3, <2>2
  <2> QED
    BY <2>1, <2>3 DEF d
<1>6. x \in E
  <2>1. res.done \in Seq(E)
    BY <1>2 DEF Placing
  <2> HIDE DEF E
  <2> QED
    BY <1>3, <2>1
<1>7. x.in \in Nat /\ x.wt \in Nat /\ x.out \in Nat
  BY <1>6 DEF CsvEntries
<1>8. in \in Nat /\ wt \in Nat /\ out \in Nat
  BY <1>4, <1>5, <1>7
<1>9. e.spec \in LayerSpecs /\ KernelFits(e.spec) /\ e.wt \in OrAbsent /\ e.out \in OrAbsent
  BY DEF CsvEntries, FittedSpecs, LayerFits
<1> DEFINE vi == Volume(InputShape(e.spec))
           vw == KernelWords(e.spec)
           vo == Volume(OutputShape(e.spec))
           c  == acc.cursor
<1>10. vi \in Nat /\ vo \in Nat /\ vw \in Nat
  BY <1>9, ShapesAre, ShapeVolume, KernelWordsIs
<1>11. c \in Nat
  BY DEF Placing
<1>12. InputEnd(x) = in + vi /\ WeightEnd(x) = wt + vw /\ OutputEnd(x) = out + vo
  BY <1>4, <1>5 DEF InputEnd, WeightEnd, OutputEnd
<1>13. afterIn = Most(c, in + vi) /\ afterWt = Most(afterIn, wt + vw) /\ cursor = Most(afterWt, out + vo)
  BY DEF afterIn, afterWt, cursor
<1>14. (e.wt = Absent => wt = Wrap(afterIn)) /\ (e.out = Absent => out = Wrap(afterWt))
  BY DEF wt, out
<1> HIDE DEF vi, vw, vo, c
<1>15. afterIn \in Nat /\ c <= afterIn /\ in + vi <= afterIn
  BY <1>8, <1>10, <1>11, <1>13 DEF Most
<1>16. afterWt \in Nat /\ afterIn <= afterWt /\ wt + vw <= afterWt
  BY <1>8, <1>10, <1>13, <1>15 DEF Most
<1>17. cursor \in Nat /\ afterWt <= cursor /\ out + vo <= cursor
  BY <1>8, <1>10, <1>13, <1>16 DEF Most
<1>18. res.cursor = cursor
  BY <1>1
<1>19. Below(x, cursor)
  BY <1>8, <1>10, <1>12, <1>15, <1>16, <1>17 DEF Below
<1>21. ASSUME cursor < WordSpace
       PROVE  /\ e.wt = Absent => InputEnd(x) <= x.wt /\ c <= x.wt
              /\ e.out = Absent => InputEnd(x) <= x.out /\ WeightEnd(x) <= x.out /\ c <= x.out
  <2>1. afterIn < WordSpace /\ afterWt < WordSpace
    BY <1>15, <1>16, <1>17, <1>21, WordSpacePositive
  <2>2. Wrap(afterIn) = afterIn /\ Wrap(afterWt) = afterWt
    BY <1>15, <1>16, <2>1, WordSpacePositive, WrapStays
  <2>3. ASSUME e.wt = Absent PROVE InputEnd(x) <= x.wt /\ c <= x.wt
    BY <1>4, <1>5, <1>12, <1>14, <1>15, <2>2, <2>3
  <2>4. ASSUME e.out = Absent
        PROVE  InputEnd(x) <= x.out /\ WeightEnd(x) <= x.out /\ c <= x.out
    <3>1. x.out = afterWt
      BY <1>4, <1>5, <1>14, <2>2, <2>4
    <3> QED
      BY <1>8, <1>10, <1>11, <1>12, <1>15, <1>16, <3>1
  <2> QED
    BY <2>3, <2>4
<1>22. x.row = e.row
  BY <1>3 DEF Stands
<1> QED
  BY <1>3, <1>15, <1>16, <1>17, <1>18, <1>19, <1>21, <1>22, <1>11 DEF c

\* One more entry placed: the cursor is still the high-water mark.
LEMMA MountNext ==
  ASSUME NEW gs \in Seq(CsvEntries(Nat, OrAbsent)), NEW n \in 0 .. Len(gs) - 1,
         NEW acc \in Placing, Mounted(acc, gs, n), NEW res, res = PlaceEntry(acc, gs[n + 1])
  PROVE  Mounted(res, gs, n + 1)
<1> DEFINE E == CsvEntries(Nat, OrAbsent)
           D == CsvEntries(Nat, Nat)
           e == gs[n + 1]
           x == res.done[n + 1]
<1>1. n \in Nat /\ e \in E
  <2> DEFINE y == Len(gs)
  <2>1. y \in Nat /\ \A m \in 1 .. y : gs[m] \in E
    <3>1. gs \in Seq(E)
      OBVIOUS
    <3> HIDE DEF E
    <3> QED
      BY <3>1
  <2> HIDE DEF E
  <2>2. n \in 0 .. y - 1
    OBVIOUS
  <2> HIDE DEF y
  <2>3. n \in Nat /\ n + 1 \in 1 .. y
    BY <2>1, <2>2
  <2> QED
    BY <2>1, <2>3
<1>2. n = Len(acc.done)
  BY DEF Mounted
<1>3. res = PlaceEntry(acc, e) /\ x = res.done[n + 1]
  OBVIOUS
<1> HIDE DEF e, x
<1>4. /\ Len(res.done) = n + 1 /\ \A m \in 1 .. n : res.done[m] = acc.done[m]
      /\ res.cursor \in Nat /\ acc.cursor <= res.cursor /\ Below(x, res.cursor) /\ x.row = e.row
      /\ res.cursor < WordSpace =>
           /\ e.wt = Absent => InputEnd(x) <= x.wt /\ acc.cursor <= x.wt
           /\ e.out = Absent => InputEnd(x) <= x.out /\ WeightEnd(x) <= x.out /\ acc.cursor <= x.out
  BY <1>1, <1>2, <1>3, EntryMounted
<1>5. acc.cursor \in Nat
  BY DEF Placing
<1>6. \A m \in 1 .. n + 1 : m \in 1 .. n \/ m = n + 1
  BY <1>1
<1>7. res \in Placing
  BY <1>1, <1>3, PlaceEntryIs
<1>8. \A m \in 1 .. n + 1 : res.done[m] \in D
  <2>1. res.done \in Seq(D)
    BY <1>7 DEF Placing
  <2> HIDE DEF D
  <2> QED
    BY <1>4, <2>1
<1>9. x.wt \in Nat /\ x.out \in Nat
  <2>1. x \in D
    BY <1>1, <1>3, <1>8
  <2> QED
    BY <2>1 DEF CsvEntries
<1>10. ASSUME NEW c \in Nat, acc.cursor <= c PROVE AllBelow(res.done, n, c)
  <2> SUFFICES ASSUME NEW j \in 1 .. n PROVE Below(res.done[j], c)
    BY DEF AllBelow
  <2>1. res.done[j] = acc.done[j] /\ Below(acc.done[j], acc.cursor)
    BY <1>4 DEF Mounted, AllBelow
  <2>2. res.done[j] \in D
    BY <1>1, <1>8
  <2> QED
    BY <1>5, <1>10, <2>1, <2>2, BelowLater
<1>11. AllBelow(res.done, n + 1, res.cursor)
  <2>1. AllBelow(res.done, n, res.cursor)
    BY <1>4, <1>10
  <2> QED
    BY <1>3, <1>4, <1>6, <2>1 DEF AllBelow
<1>12. \A m \in 1 .. n + 1 : res.done[m].row = gs[m].row
  <2>1. ASSUME NEW m \in 1 .. n PROVE res.done[m].row = gs[m].row
    BY <1>4 DEF Mounted
  <2>2. res.done[n + 1].row = gs[n + 1].row
    BY <1>3, <1>4 DEF e
  <2> QED
    BY <1>6, <2>1, <2>2
<1>13. ASSUME res.cursor < WordSpace, NEW m \in 1 .. n + 1 PROVE Beyond(res.done, m, gs[m])
  <2>1. CASE m \in 1 .. n
    <3>1. acc.cursor < WordSpace
      BY <1>4, <1>5, <1>13, WordSpacePositive
    <3>2. Beyond(acc.done, m, gs[m])
      BY <2>1, <3>1 DEF Mounted
    <3>3. res.done[m] = acc.done[m] /\ \A j \in 1 .. m - 1 : res.done[j] = acc.done[j]
      <4>1. m \in 1 .. n /\ \A j \in 1 .. m - 1 : j \in 1 .. n
        BY <1>1, <2>1
      <4> QED
        BY <1>4, <4>1
    <3> QED
      BY <3>2, <3>3 DEF Beyond, AllBelow
  <2>2. CASE m = n + 1
    <3>1. m - 1 = n
      BY <1>1, <2>2
    <3>2. res.done[m] = x /\ gs[m] = e
      BY <1>3, <2>2 DEF e
    <3>3. e.wt = Absent => AllBelow(res.done, n, x.wt)
      BY <1>4, <1>9, <1>10, <1>13
    <3>4. e.out = Absent => AllBelow(res.done, n, x.out)
      BY <1>4, <1>9, <1>10, <1>13
    <3> QED
      BY <1>4, <1>13, <3>1, <3>2, <3>3, <3>4 DEF Beyond
  <2> QED
    BY <1>6, <2>1, <2>2
<1> QED
  BY <1>4, <1>11, <1>12, <1>13 DEF Mounted

\* The linker's placement of any entries.
LEMMA MountedAll ==
  ASSUME NEW gs \in Seq(CsvEntries(Nat, OrAbsent)), NEW z, z = Len(gs)
  PROVE  z \in Nat /\ Place(gs) \in Placing /\ Mounted(Place(gs), gs, z)
<1>1. z \in Nat /\ \E after : PlacesAlong(after, gs, z) /\ Place(gs) = after[z]
  BY PlacedIs
<1>2. PICK after : PlacesAlong(after, gs, z) /\ Place(gs) = after[z]
  BY <1>1
<1>9. z \in Nat
  BY <1>1
<1>10. after \in [0 .. z -> Placing]
  BY <1>2, Zenon DEF PlacesAlong
<1> DEFINE T == {n \in 0 .. z : Mounted(after[n], gs, n)}
<1>3. 0 \in T
  <2>1. after[0].done = <<>>
    BY <1>2 DEF PlacesAlong, Unplaced
  <2>2. Len(<<>>) = 0 /\ 1 .. 0 = {} /\ 0 \in 0 .. z
    BY <1>9
  <2>3. Mounted(after[0], gs, 0)
    BY <2>1, <2>2 DEF Mounted, AllBelow
  <2> QED
    BY <2>2, <2>3
<1>4. ASSUME NEW n \in 0 .. z - 1, n \in T PROVE n + 1 \in T
  <2>1. n + 1 \in 1 .. z /\ (n + 1) - 1 = n /\ n \in 0 .. z /\ n + 1 \in 0 .. z
    BY <1>9
  <2>2. after[n + 1] = PlaceEntry(after[n], gs[n + 1])
    BY <1>2, <2>1 DEF PlacesAlong
  <2>3. Mounted(after[n], gs, n) /\ n \in 0 .. Len(gs) - 1
    BY <1>4
  <2>4. after[n] \in Placing
    BY <1>10, <2>1
  <2> DEFINE acc == after[n]
             res == after[n + 1]
  <2>5. res = PlaceEntry(acc, gs[n + 1]) /\ acc \in Placing /\ Mounted(acc, gs, n)
    BY <2>2, <2>3, <2>4
  <2> HIDE DEF acc, res
  <2>6. Mounted(res, gs, n + 1)
    BY <2>3, <2>5, MountNext
  <2> QED
    BY <2>1, <2>6 DEF res
<1> HIDE DEF T
<1>5. z \in T
  BY <1>1, <1>3, <1>4, TermByTerm
<1>6. Mounted(after[z], gs, z)
  BY <1>5 DEF T
<1>7. after[z] \in Placing
  <2>1. z \in 0 .. z
    BY <1>9
  <2> QED
    BY <1>10, <2>1
<1> QED
  BY <1>2, <1>6, <1>7, <1>9

\* What the linker chooses for a file: everything ends at the footprint, and what it
\* places itself is behind all that stands before.
PlacedApart(d, footprint) ==
  /\ AllBelow(d, Len(d), footprint)
  /\ footprint < WordSpace =>
       \A m \in 1 .. Len(d) :
         /\ ~Given(d[m].row, "kernel_addr") =>
              InputEnd(d[m]) <= d[m].wt /\ AllBelow(d, m - 1, d[m].wt)
         /\ ~Given(d[m].row, "output_addr") =>
              /\ InputEnd(d[m]) <= d[m].out /\ WeightEnd(d[m]) <= d[m].out
              /\ AllBelow(d, m - 1, d[m].out)
LEMMA LinkedApart ==
  ASSUME NEW rs \in Seq(Rows), NEW base \in ProcessingElements, NEW l, l = Link(rs, base)
  PROVE  /\ l.entries \in Seq(CsvEntries(Nat, Nat)) /\ l.footprint \in Nat
         /\ PlacedApart(l.entries, l.footprint)
<1> DEFINE gs == AssignIds(Ordered(Entries(rs, base)))
           z == Len(gs)
           acc == Place(gs)
<1>1. gs \in Seq(CsvEntries(Nat, OrAbsent)) /\ AsGiven(gs)
  BY ReadyToPlace
<1>2. l.entries = acc.done /\ l.footprint = acc.cursor
  BY DEF Link
<1> HIDE DEF gs
<1>3. z = Len(gs) /\ DOMAIN gs = 1 .. z
  BY <1>1
<1>4. z \in Nat /\ acc \in Placing /\ Mounted(acc, gs, z)
  BY <1>1, <1>3, MountedAll
<1> HIDE DEF z, acc
<1> DEFINE d == l.entries
<1>5. Len(d) = z /\ AllBelow(d, z, l.footprint) /\ \A m \in 1 .. z : d[m].row = gs[m].row
  BY <1>2, <1>4 DEF Mounted
<1>6. l.footprint < WordSpace => \A m \in 1 .. z : Beyond(d, m, gs[m])
  BY <1>2, <1>4 DEF Mounted
<1>7. \A m \in 1 .. z : /\ ~Given(d[m].row, "kernel_addr") => gs[m].wt = Absent
                        /\ ~Given(d[m].row, "output_addr") => gs[m].out = Absent
  BY <1>1, <1>3, <1>5 DEF AsGiven, Addressed, Given
<1>8. d \in Seq(CsvEntries(Nat, Nat)) /\ l.footprint \in Nat
  BY <1>2, <1>4 DEF Placing
<1> HIDE DEF d
<1>9. PlacedApart(d, l.footprint)
  BY <1>5, <1>6, <1>7 DEF PlacedApart, Beyond
<1> QED
  BY <1>8, <1>9 DEF d

\* The regions of a function, those for weights only where some are placed.
Regions(f) == {f.input, f.output} \cup Weights(f)
\* Everything functions before the i-th occupy, and its own input, ends before a.
Behind(P, i, a) ==
  /\ P[i].input.addr + P[i].input.words <= a
  /\ \A j \in 1 .. i - 1 : \A t \in Regions(P[j]) : t.addr + t.words <= a
\* The address of a function's weights or output is the compiler's choice.
Chooses(i, column) == tool = "generator" \/ ~Given(Linked[i].row, column)
\* All of it ends by a limit, and what is chosen is behind what stands already.
RegionsBehind(P, limit) ==
  \A i \in DOMAIN P :
    /\ \A t \in Regions(P[i]) : t.addr + t.words <= limit
    /\ Chooses(i, "kernel_addr") => \A w \in Weights(P[i]) : Behind(P, i, w.addr)
    /\ Chooses(i, "output_addr") =>
         /\ Behind(P, i, P[i].output.addr)
         /\ \A w \in Weights(P[i]) : w.addr + w.words <= P[i].output.addr

\* Regions behind one another are apart.
LEMMA BehindIsApart ==
  ASSUME NEW limit, limit = IF tool = "csv" THEN DramWords ELSE WordSpace,
         RegionsBehind(Program, limit)
  PROVE  RegionsApart
<1> DEFINE P == Program
           Fits(t) == t.addr + t.words <= IF tool = "csv" THEN DramWords ELSE WordSpace
           Before(k) == UNION {{P[j].input, P[j].output} \cup Weights(P[j]) : j \in 1 .. k - 1}
<1> SUFFICES ASSUME NEW i \in DOMAIN P
             PROVE  /\ \A t \in {P[i].input, P[i].output} \cup Weights(P[i]) : Fits(t)
                    /\ Chooses(i, "kernel_addr") =>
                         \A w \in Weights(P[i]), t \in Before(i) \cup {P[i].input} : Apart(w, t)
                    /\ Chooses(i, "output_addr") =>
                         \A t \in Before(i) \cup {P[i].input} \cup Weights(P[i]) : Apart(P[i].output, t)
  BY Zenon DEF RegionsApart, Chooses
<1>6. RegionsBehind(P, limit)
  OBVIOUS
<1> HIDE DEF P
<1>1. /\ \A t \in Regions(P[i]) : t.addr + t.words <= limit
      /\ Chooses(i, "kernel_addr") => \A w \in Weights(P[i]) : Behind(P, i, w.addr)
      /\ Chooses(i, "output_addr") =>
           /\ Behind(P, i, P[i].output.addr)
           /\ \A w \in Weights(P[i]) : w.addr + w.words <= P[i].output.addr
  BY <1>6, Zenon DEF RegionsBehind
<1>2. \A t \in {P[i].input, P[i].output} \cup Weights(P[i]) : Fits(t)
  BY <1>1 DEF Regions
<1>3. ASSUME NEW a, Behind(P, i, a.addr), NEW t \in Before(i) \cup {P[i].input}
      PROVE  Apart(a, t)
  <2>1. CASE t = P[i].input
    BY <1>3, <2>1, Zenon DEF Behind, Apart
  <2>2. CASE t \in Before(i)
    <3>1. PICK j \in 1 .. i - 1 : t \in {P[j].input, P[j].output} \cup Weights(P[j])
      BY <2>2
    <3>2. t \in Regions(P[j])
      BY <3>1 DEF Regions
    <3>3. t.addr + t.words <= a.addr
      BY <1>3, <3>2, Zenon DEF Behind
    <3> QED
      BY <3>3, Zenon DEF Apart
  <2> QED
    BY <1>3, <2>1, <2>2
<1> HIDE DEF Before
<1>4. Chooses(i, "kernel_addr") =>
        \A w \in Weights(P[i]), t \in Before(i) \cup {P[i].input} : Apart(w, t)
  BY <1>1, <1>3, Zenon
<1>5. Chooses(i, "output_addr") =>
        \A t \in Before(i) \cup {P[i].input} \cup Weights(P[i]) : Apart(P[i].output, t)
  <2> SUFFICES ASSUME Chooses(i, "output_addr"), NEW t \in Before(i) \cup {P[i].input} \cup Weights(P[i])
               PROVE  Apart(P[i].output, t)
    OBVIOUS
  <2>1. CASE t \in Weights(P[i])
    BY <1>1, <2>1, Zenon DEF Apart
  <2>2. CASE t \in Before(i) \cup {P[i].input}
    BY <1>1, <1>3, <2>2, Zenon
  <2> QED
    BY <2>1, <2>2, Zenon
<1> QED
  BY <1>2, <1>4, <1>5

\* A CSV program whose footprint fits the memory.
LEMMA CsvApart ==
  ASSUME Compiling, tool = "csv", Link(rows, hw.pe).footprint <= DramWords, DramWords < WordSpace
  PROVE  RegionsApart
<1> DEFINE l == Link(rows, hw.pe)
           d == l.entries
           c == l.footprint
           P == Program
           z == Len(d)
<1>1. rows \in Seq(Rows) /\ hw.pe \in ProcessingElements
  BY CompilerAssumption DEF Compiling, ImageKept
<1>2. d \in Seq(CsvEntries(Nat, Nat)) /\ c \in Nat /\ PlacedApart(d, c)
  BY <1>1, LinkedApart
<1>3. P = CsvFunctions(d, hw) /\ Linked = d /\ c <= DramWords
  BY DEF Program, Linked
<1> HIDE DEF P, d, c, l
<1>4. c < WordSpace
  BY <1>2, <1>3, WordSpacePositive, CompilerAssumption
<1>5. z \in Nat /\ DOMAIN d = 1 .. z /\ \A j \in 1 .. z : d[j] \in CsvEntries(Nat, Nat)
  <2> DEFINE E == CsvEntries(Nat, Nat)
  <2>1. d \in Seq(E)
    BY <1>2
  <2> HIDE DEF E
  <2>2. Len(d) \in Nat /\ DOMAIN d = 1 .. Len(d) /\ \A j \in 1 .. Len(d) : d[j] \in E
    BY <2>1
  <2> QED
    BY <2>2 DEF E
<1> HIDE DEF z
<1>6. DOMAIN P = 1 .. z
  BY <1>3, <1>5 DEF CsvFunctions
<1>7. ASSUME NEW j \in 1 .. z
      PROVE  /\ P[j].input.addr + P[j].input.words = InputEnd(d[j])
             /\ P[j].weight.addr + P[j].weight.words = WeightEnd(d[j])
             /\ P[j].output.addr + P[j].output.words = OutputEnd(d[j])
             /\ P[j].weight.addr = d[j].wt /\ P[j].output.addr = d[j].out
  <2>1. P[j] = EntryFunction(d[j], hw)
    BY <1>3, <1>5 DEF CsvFunctions
  <2>2. /\ EntryFunction(d[j], hw).input = Tensor(InputShape(d[j].spec), d[j].in, Volume(InputShape(d[j].spec)))
        /\ EntryFunction(d[j], hw).weight = Tensor(Shape(d[j].spec.kh, d[j].spec.kw, d[j].spec.kc), d[j].wt, KernelWords(d[j].spec))
        /\ EntryFunction(d[j], hw).output = Tensor(OutputShape(d[j].spec), d[j].out, Volume(OutputShape(d[j].spec)))
    BY Zenon DEF EntryFunction, Function
  <2>3. \A o, a, n : Tensor(o, a, n).addr = a /\ Tensor(o, a, n).words = n
    BY DEF Tensor
  <2>4. /\ P[j].input.addr = d[j].in /\ P[j].input.words = Volume(InputShape(d[j].spec))
        /\ P[j].weight.addr = d[j].wt /\ P[j].weight.words = KernelWords(d[j].spec)
        /\ P[j].output.addr = d[j].out /\ P[j].output.words = Volume(OutputShape(d[j].spec))
    BY <2>1, <2>2, <2>3
  <2> QED
    BY <2>4 DEF InputEnd, WeightEnd, OutputEnd
<1>8. \A f : Weights(f) = {f.weight}
  BY DEF Weights
<1>9. ASSUME NEW j \in 1 .. z, NEW a \in Nat, Below(d[j], a), NEW t \in Regions(P[j])
      PROVE  t.addr + t.words <= a
  <2>1. t = P[j].input \/ t = P[j].output \/ t = P[j].weight
    BY <1>8 DEF Regions
  <2> QED
    BY <1>7, <1>9, <2>1 DEF Below
<1>10. ASSUME NEW i \in 1 .. z, NEW a \in Nat, AllBelow(d, i - 1, a), InputEnd(d[i]) <= a
       PROVE  Behind(P, i, a)
  <2>1. \A j \in 1 .. i - 1 : j \in 1 .. z
    BY <1>5
  <2>2. \A j \in 1 .. i - 1 : \A t \in Regions(P[j]) : t.addr + t.words <= a
    BY <1>9, <1>10, <2>1 DEF AllBelow
  <2> QED
    BY <1>7, <1>10, <2>2 DEF Behind
<1>11. DramWords \in Nat
  <2> DEFINE w == WordSpace
  <2>1. w \in Nat /\ DramWords \in 0 .. w
    BY WordSpacePositive, CompilerAssumption
  <2> HIDE DEF w
  <2> QED
    BY <2>1
<1>14. tool # "generator"
  BY SMT
<1>12. ASSUME NEW i \in DOMAIN P
       PROVE  /\ \A t \in Regions(P[i]) : t.addr + t.words <= DramWords
              /\ Chooses(i, "kernel_addr") => \A w \in Weights(P[i]) : Behind(P, i, w.addr)
              /\ Chooses(i, "output_addr") =>
                   /\ Behind(P, i, P[i].output.addr)
                   /\ \A w \in Weights(P[i]) : w.addr + w.words <= P[i].output.addr
  <2>1. i \in 1 .. z /\ d[i].wt \in Nat /\ d[i].out \in Nat /\ d[i] \in CsvEntries(Nat, Nat)
    BY <1>5, <1>6, <1>12 DEF CsvEntries
  <2>2. Below(d[i], c)
    BY <1>2, <1>5, <2>1 DEF PlacedApart, AllBelow, z
  <2>3. Below(d[i], DramWords)
    BY <1>2, <1>3, <1>11, <2>1, <2>2, BelowLater
  <2>4. \A t \in Regions(P[i]) : t.addr + t.words <= DramWords
    BY <1>9, <1>11, <2>1, <2>3
  <2>5. /\ ~Given(d[i].row, "kernel_addr") =>
             InputEnd(d[i]) <= d[i].wt /\ AllBelow(d, i - 1, d[i].wt)
        /\ ~Given(d[i].row, "output_addr") =>
             /\ InputEnd(d[i]) <= d[i].out /\ WeightEnd(d[i]) <= d[i].out
             /\ AllBelow(d, i - 1, d[i].out)
    BY <1>2, <1>4, <2>1 DEF PlacedApart, z
  <2>6. \A column : Chooses(i, column) <=> ~Given(d[i].row, column)
    BY <1>3, <1>14 DEF Chooses
  <2>7. Chooses(i, "kernel_addr") => \A w \in Weights(P[i]) : Behind(P, i, w.addr)
    BY <1>7, <1>8, <1>10, <2>1, <2>5, <2>6
  <2>8. Chooses(i, "output_addr") =>
          /\ Behind(P, i, P[i].output.addr)
          /\ \A w \in Weights(P[i]) : w.addr + w.words <= P[i].output.addr
    BY <1>7, <1>8, <1>10, <2>1, <2>5, <2>6
  <2> QED
    BY <2>4, <2>7, <2>8
<1>13. RegionsBehind(P, DramWords)
  BY <1>12 DEF RegionsBehind
<1> QED
  BY <1>13, BehindIsApart DEF P

----------------------------------------------------------------------------
(* Where a network's layers are placed, nothing is overwritten *)

\* Where a generated layer's tensors end; a pooling layer has no place for weights.
LayerInputEnd(l)  == l.in + Volume(InputShape(l.spec))
LayerWeightEnd(l) == l.wt + StepWeights(l.spec)
LayerOutputEnd(l) == l.out + Volume(CompilerOutputShape(l.spec))
Ending(l, a) ==
  /\ LayerInputEnd(l) <= a /\ LayerOutputEnd(l) <= a
  /\ l.spec.type # "Pooling" => LayerWeightEnd(l) <= a
Upon(ls, n, a) == \A j \in 1 .. n : Ending(ls[j], a)
\* A layer's weights and output, behind its own input and what stands below a.
OnTop(l, a) ==
  /\ a <= l.out /\ LayerInputEnd(l) <= l.out
  /\ l.spec.type # "Pooling" => /\ a <= l.wt /\ LayerInputEnd(l) <= l.wt
                                /\ LayerWeightEnd(l) <= l.out
\* The i-th layer's, behind its own input and the layers before.
Piled(ls, i) ==
  /\ Upon(ls, i - 1, ls[i].out) /\ LayerInputEnd(ls[i]) <= ls[i].out
  /\ ls[i].spec.type # "Pooling" => /\ Upon(ls, i - 1, ls[i].wt) /\ LayerInputEnd(ls[i]) <= ls[i].wt
                                    /\ LayerWeightEnd(ls[i]) <= ls[i].out
Stacked(ls, a) ==
  /\ Upon(ls, Len(ls), a)
  /\ \A i \in 1 .. Len(ls) : Piled(ls, i)

\* What a step places.
LEMMA StepWordsIs ==
  ASSUME NEW step, NEW at, LayerFits(StepSpec(step, at)), NEW spec, spec = StepSpec(step, at)
  PROVE  /\ Volume(at) \in Nat /\ Volume(InputShape(spec)) = Volume(at)
         /\ StepWeights(spec) \in Nat /\ Volume(CompilerOutputShape(spec)) \in Nat
         /\ StepWords(step, at) \in Nat
         /\ StepWords(step, at) = (IF step.chained THEN 0 ELSE Volume(at)) + StepWeights(spec)
                                    + Volume(CompilerOutputShape(spec))
<1>1. spec.ih = at.h /\ spec.iw = at.w /\ spec.ic = at.c
  BY DEF StepSpec
<1>2. spec \in LayerSpecs /\ KernelFits(spec)
  BY DEF LayerFits
<1>3. StepWords(step, at) = (IF step.chained THEN 0 ELSE Volume(at)) + StepWeights(spec)
                                    + Volume(CompilerOutputShape(spec))
  BY DEF StepWords
<1> HIDE DEF LayerFits
<1>4. Volume(InputShape(spec)) = Volume(at)
  BY <1>1 DEF Volume, InputShape, Shape
<1>5. Volume(InputShape(spec)) \in Nat /\ Volume(CompilerOutputShape(spec)) \in Nat
  BY <1>2, ShapesAre, ShapeVolume
<1>6. StepWeights(spec) \in Nat
  <2>1. spec.kh \in Nat /\ spec.kw \in Nat /\ spec.kc \in Nat /\ spec.kn \in Nat
    BY <1>2, SpecFields
  <2>2. spec.kh * spec.kw \in Nat
    BY <2>1
  <2>3. spec.kh * spec.kw * spec.kc \in Nat
    BY <2>1, <2>2
  <2>4. spec.kh * spec.kw * spec.kc * spec.kn \in Nat
    BY <2>1, <2>3
  <2> QED
    BY <2>4 DEF StepWeights
<1> DEFINE v == Volume(at)
           w == StepWeights(spec)
           o == Volume(CompilerOutputShape(spec))
<1>7. v \in Nat /\ w \in Nat /\ o \in Nat
  BY <1>4, <1>5, <1>6
<1>8. StepWords(step, at) = (IF step.chained THEN 0 ELSE v) + w + o
  BY <1>3
<1> HIDE DEF v, w, o
<1>9. StepWords(step, at) \in Nat
  BY <1>7, <1>8
<1> QED
  BY <1>3, <1>4, <1>5, <1>6, <1>9

\* A layer that ends below an address ends below a later one.
LEMMA EndingLater ==
  ASSUME NEW l, Generated(l), NEW a \in Nat, NEW b \in Nat, a <= b, Ending(l, a)
  PROVE  Ending(l, b)
<1>1. l.spec \in LayerSpecs /\ KernelFits(l.spec) /\ l.in \in Nat /\ l.wt \in Nat /\ l.out \in Nat
  BY DEF Generated
<1>2. Volume(InputShape(l.spec)) \in Nat /\ Volume(CompilerOutputShape(l.spec)) \in Nat
  BY <1>1, ShapesAre, ShapeVolume
<1>3. LayerInputEnd(l) \in Nat /\ LayerOutputEnd(l) \in Nat
  BY <1>1, <1>2 DEF LayerInputEnd, LayerOutputEnd
<1>4. StepWeights(l.spec) \in Nat
  <2>1. l.spec.kh \in Nat /\ l.spec.kw \in Nat /\ l.spec.kc \in Nat /\ l.spec.kn \in Nat
    BY <1>1, SpecFields
  <2>2. l.spec.kh * l.spec.kw \in Nat
    BY <2>1
  <2>3. l.spec.kh * l.spec.kw * l.spec.kc \in Nat
    BY <2>1, <2>2
  <2>4. l.spec.kh * l.spec.kw * l.spec.kc * l.spec.kn \in Nat
    BY <2>1, <2>3
  <2> QED
    BY <2>4 DEF StepWeights
<1>5. LayerWeightEnd(l) \in Nat
  BY <1>1, <1>4 DEF LayerWeightEnd
<1> QED
  BY <1>3, <1>5 DEF Ending

\* One step of a network, when there is room for it.
PutOnTop(n, step, m) ==
  /\ m.addr = n.addr + StepWords(step, n.at)
  /\ m.last + Volume(CompilerOutputShape(StepSpec(step, n.at))) <= m.addr
  /\ \E l : m.layers = Append(n.layers, l) /\ Ending(l, m.addr) /\ OnTop(l, n.addr)
LEMMA StepOnTop ==
  ASSUME NEW g, NEW n, n.addr \in Nat, n.last \in Nat, NEW step, LayerFits(StepSpec(step, n.at)),
         n.addr + StepWords(step, n.at) < WordSpace,
         step.chained => n.last + Volume(n.at) <= n.addr, NEW m, m = AddStep(g, n, step)
  PROVE  PutOnTop(n, step, m)
<1> DEFINE spec  == StepSpec(step, n.at)
           in    == IF step.chained THEN n.last ELSE n.addr
           wt    == IF step.chained THEN n.addr ELSE Wrap(n.addr + Volume(n.at))
           out   == Wrap(wt + StepWeights(spec))
           shape == CompilerOutputShape(spec)
           layer == [spec |-> spec, in |-> in, wt |-> IF spec.type = "Pooling" THEN 0 ELSE wt,
                     out |-> out, lat |-> GeneratorLatency(g, spec, Len(n.layers))]
           a == n.addr
           v == Volume(n.at)
           w == StepWeights(spec)
           o == Volume(shape)
           s == WordSpace
<1>1. m.addr = Wrap(out + o) /\ m.last = out /\ m.layers = Append(n.layers, layer)
  BY DEF AddStep
<1>2. /\ v \in Nat /\ w \in Nat /\ o \in Nat /\ Volume(InputShape(spec)) = v
      /\ StepWords(step, n.at) = (IF step.chained THEN 0 ELSE v) + w + o
  BY StepWordsIs
<1>3. /\ layer.spec = spec /\ layer.in = in /\ layer.out = out
      /\ spec.type # "Pooling" => layer.wt = wt
  OBVIOUS
<1>4. a \in Nat /\ s \in Nat /\ in = (IF step.chained THEN n.last ELSE a) /\ n.last \in Nat
      /\ wt = (IF step.chained THEN a ELSE Wrap(a + v)) /\ out = Wrap(wt + w)
      /\ a + ((IF step.chained THEN 0 ELSE v) + w + o) < s
      /\ (step.chained => n.last + v <= a)
  BY <1>2, WordSpacePositive
<1> HIDE DEF spec, in, wt, out, shape, layer, a, v, w, o
<1>5. \A c \in Nat : c < s => Wrap(c) = c
  BY WrapStays
<1> HIDE DEF s
<1>6. /\ wt = a + (IF step.chained THEN 0 ELSE v) /\ wt \in Nat
      /\ in + v <= wt /\ a <= wt
  <2>1. CASE step.chained
    BY <1>2, <1>4, <2>1
  <2>2. CASE ~step.chained
    <3>1. a + v \in Nat /\ a + v < s
      BY <1>2, <1>4, <2>2
    <3>2. wt = a + v
      BY <1>4, <1>5, <2>2, <3>1
    <3> QED
      BY <1>2, <1>4, <2>2, <3>2
  <2> QED
    BY <2>1, <2>2
<1>7. out = wt + w /\ out \in Nat
  <2>1. wt + w \in Nat /\ wt + w < s
    BY <1>2, <1>4, <1>6
  <2> QED
    BY <1>4, <1>5, <2>1
<1>8. Wrap(out + o) = out + o
  <2>1. out + o \in Nat /\ out + o < s
    BY <1>2, <1>4, <1>6, <1>7
  <2> QED
    BY <1>5, <2>1
<1>9. m.addr = out + o /\ m.addr = a + ((IF step.chained THEN 0 ELSE v) + w + o)
  BY <1>1, <1>2, <1>4, <1>6, <1>7, <1>8
<1>10. /\ LayerInputEnd(layer) = in + v /\ LayerOutputEnd(layer) = out + o
       /\ (layer.spec.type # "Pooling" => LayerWeightEnd(layer) = wt + w /\ layer.wt = wt)
  BY <1>2, <1>3 DEF LayerInputEnd, LayerOutputEnd, LayerWeightEnd, o, w, shape
<1>11. in \in Nat
  BY <1>4
<1>12. in + v <= out + o /\ wt + w <= out + o /\ a <= out /\ in + v <= out
  BY <1>2, <1>4, <1>6, <1>7, <1>11
<1>13. Ending(layer, m.addr)
  BY <1>2, <1>6, <1>7, <1>9, <1>10, <1>12 DEF Ending
<1>14. OnTop(layer, a)
  BY <1>2, <1>3, <1>6, <1>7, <1>10, <1>12 DEF OnTop
<1>15. m.last + o <= m.addr
  BY <1>1, <1>2, <1>7, <1>9
<1> QED
  BY <1>1, <1>2, <1>9, <1>13, <1>14, <1>15 DEF a, o, shape, spec, PutOnTop

\* A layer put on top of a stack.
LEMMA StackOne ==
  ASSUME NEW T, \A x \in T : Generated(x), NEW ls \in Seq(T), NEW a \in Nat, Stacked(ls, a),
         NEW l \in T, NEW b \in Nat, a <= b, Ending(l, b), OnTop(l, a)
  PROVE  Stacked(Append(ls, l), b)
<1> DEFINE z == Len(ls)
           ns == Append(ls, l)
<1>1. /\ z \in Nat /\ Len(ns) = z + 1 /\ ns[z + 1] = l
      /\ \A i \in 1 .. z : ns[i] = ls[i] /\ ls[i] \in T
  OBVIOUS
<1>2. Upon(ls, z, a) /\ \A i \in 1 .. z : Piled(ls, i)
  BY DEF Stacked
<1> HIDE DEF z, ns
<1>3. ASSUME NEW c \in Nat, a <= c PROVE Upon(ns, z, c)
  <2> SUFFICES ASSUME NEW j \in 1 .. z PROVE Ending(ns[j], c)
    BY DEF Upon
  <2>1. ns[j] = ls[j] /\ Generated(ls[j]) /\ Ending(ls[j], a)
    BY <1>1, <1>2 DEF Upon
  <2> QED
    BY <1>3, <2>1, EndingLater
<1>4. \A i \in 1 .. z + 1 : i \in 1 .. z \/ i = z + 1
  BY <1>1
<1>5. Upon(ns, z + 1, b)
  <2>1. Upon(ns, z, b)
    BY <1>3
  <2> QED
    BY <1>1, <1>4, <2>1 DEF Upon
<1>6. ASSUME NEW i \in 1 .. z PROVE Piled(ns, i)
  <2>1. ns[i] = ls[i] /\ \A j \in 1 .. i - 1 : ns[j] = ls[j]
    <3>1. \A j \in 1 .. i - 1 : j \in 1 .. z
      BY <1>1
    <3> QED
      BY <1>1, <3>1
  <2>2. Piled(ls, i)
    BY <1>2
  <2> QED
    BY <2>1, <2>2 DEF Piled, Upon
<1>7. Piled(ns, z + 1)
  <2>1. (z + 1) - 1 = z
    BY <1>1
  <2>2. Generated(l) /\ l.out \in Nat /\ l.wt \in Nat
    BY DEF Generated
  <2>3. Upon(ns, z, l.out)
    BY <1>3, <2>2 DEF OnTop
  <2>4. l.spec.type # "Pooling" => Upon(ns, z, l.wt)
    BY <1>3, <2>2 DEF OnTop
  <2> QED
    BY <1>1, <2>1, <2>3, <2>4 DEF Piled, OnTop
<1>8. Stacked(ns, b)
  BY <1>1, <1>4, <1>5, <1>6, <1>7 DEF Stacked
<1> QED
  BY <1>8 DEF ns

\* Where the layers of a network end, one behind the other, when nothing wraps around.
EndsAlong(end, at, steps, start, z) ==
  /\ end \in [0 .. z -> Nat] /\ end[0] = start
  /\ \A n \in 1 .. z : end[n] = end[n - 1] + StepWords(steps[n], at[n - 1])

LEMMA NetworkEnds ==
  ASSUME NEW name, NEW cfg, NEW steps, steps = Steps(name, cfg.classes), NEW z \in Nat, z = Len(steps),
         NEW at, at = ShapesAlong(steps, cfg),
         \A n \in 1 .. z : LayerFits(StepSpec(steps[n], at[n - 1])),
         NEW start \in Nat, start = StartOf(name, cfg).addr
  PROVE  \E end : EndsAlong(end, at, steps, start, z) /\ end[z] = NetworkEnd(name, cfg)
<1> DEFINE Body(f) == [n \in 0 .. z |-> IF n = 0 THEN start ELSE f[n - 1] + StepWords(steps[n], at[n - 1])]
           end == CHOOSE f : f = Body(f)
           words == [n \in 1 .. z |-> StepWords(steps[n], at[n - 1])]
           step == [n \in 1 .. z |-> [s \in Nat |-> s + words[n]]]
<1>1. end[z] = NetworkEnd(name, cfg)
  BY DEF NetworkEnd
<1>2. \A n \in 1 .. z : words[n] \in Nat /\ words[n] = StepWords(steps[n], at[n - 1])
  BY StepWordsIs
<1> HIDE DEF words
<1>3. step \in [1 .. z -> [Nat -> Nat]]
  <2>1. \A n \in 1 .. z : \A s \in Nat : s + words[n] \in Nat
    BY <1>2
  <2> QED
    BY <2>1
<1> HIDE DEF step, end, Body
<1>4. PICK u : Composes(u, Nat, start, step, z)
  BY <1>3, StepsExist
<1>5. /\ u \in [0 .. z -> Nat] /\ u[0] = start
      /\ \A n \in 1 .. z : u[n] = step[n][u[n - 1]]
  BY <1>4 DEF Composes
<1>6. \A n \in 1 .. z : u[n] = u[n - 1] + words[n]
  <2>1. ASSUME NEW n \in 1 .. z PROVE u[n] = u[n - 1] + words[n]
    <3>1. n - 1 \in 0 .. z
      OBVIOUS
    <3>2. u[n - 1] \in Nat
      BY <1>5, <3>1
    <3> QED
      BY <1>5, <3>2 DEF step
  <2> QED
    BY <2>1
<1>7. u = Body(u)
  <2>1. u = [n \in 0 .. z |-> u[n]]
    BY <1>5
  <2>2. \A n \in 0 .. z : u[n] = IF n = 0 THEN start ELSE u[n - 1] + StepWords(steps[n], at[n - 1])
    <3>1. \A n \in 0 .. z : n = 0 \/ n \in 1 .. z
      OBVIOUS
    <3> QED
      BY <1>2, <1>5, <1>6, <3>1
  <2> QED
    BY <2>1, <2>2 DEF Body
<1>8. end = Body(end)
  BY <1>7 DEF end
<1>9. /\ end[0] = start /\ DOMAIN end = 0 .. z /\ end = [n \in 0 .. z |-> end[n]]
      /\ \A n \in 1 .. z : end[n] = end[n - 1] + words[n]
  <2>1. /\ \A n \in 0 .. z : end[n] = IF n = 0 THEN start ELSE end[n - 1] + StepWords(steps[n], at[n - 1])
        /\ DOMAIN end = 0 .. z /\ end = [n \in 0 .. z |-> end[n]]
    BY <1>8 DEF Body
  <2>2. (\A n \in 1 .. z : n \in 0 .. z /\ n # 0) /\ 0 \in 0 .. z
    OBVIOUS
  <2>3. end[0] = start
    BY <2>1, <2>2
  <2>4. \A n \in 1 .. z : end[n] = end[n - 1] + words[n]
    BY <1>2, <2>1, <2>2
  <2> QED
    BY <2>1, <2>3, <2>4
<1>10. \A n \in 0 .. z : end[n] \in Nat
  <2> DEFINE P == {n \in 0 .. z : end[n] \in Nat}
  <2>1. 0 \in P
    BY <1>9
  <2>2. ASSUME NEW k \in 0 .. z - 1, k \in P PROVE k + 1 \in P
    <3>1. k + 1 \in 1 .. z /\ (k + 1) - 1 = k /\ k + 1 \in 0 .. z
      OBVIOUS
    <3>2. end[k + 1] = end[k] + words[k + 1] /\ words[k + 1] \in Nat /\ end[k] \in Nat
      BY <1>2, <1>9, <2>2, <3>1
    <3>3. end[k + 1] \in Nat
      BY <3>2
    <3> QED
      BY <3>1, <3>3
  <2>3. ASSUME NEW n \in 0 .. z PROVE n \in P
    <3>1. n \in Nat /\ \A k \in 0 .. n - 1 : k \in 0 .. z - 1
      OBVIOUS
    <3> HIDE DEF P
    <3>2. \A k \in 0 .. n - 1 : k \in P => k + 1 \in P
      BY <2>2, <3>1
    <3> QED
      BY <2>1, <3>1, <3>2, TermByTerm
  <2> QED
    BY <2>3
<1>11. EndsAlong(end, at, steps, start, z)
  <2>1. end \in [0 .. z -> Nat]
    BY <1>9, <1>10
  <2> QED
    BY <1>2, <1>9, <2>1 DEF EndsAlong
<1> QED
  BY <1>1, <1>11

\* No end is beyond the last.
LEMMA EndsGrow ==
  ASSUME NEW at, NEW steps, NEW start, NEW z \in Nat, NEW end, EndsAlong(end, at, steps, start, z),
         \A n \in 1 .. z : LayerFits(StepSpec(steps[n], at[n - 1])), NEW k \in 0 .. z
  PROVE  end[k] \in Nat /\ end[z] \in Nat /\ end[k] <= end[z]
<1>1. /\ \A n \in 0 .. z : end[n] \in Nat
      /\ \A n \in 1 .. z : end[n] = end[n - 1] + StepWords(steps[n], at[n - 1])
  BY DEF EndsAlong
<1>2. ASSUME NEW n \in 1 .. z PROVE end[n - 1] <= end[n]
  <2>1. StepWords(steps[n], at[n - 1]) \in Nat
    BY StepWordsIs
  <2>2. n - 1 \in 0 .. z /\ n \in 0 .. z
    OBVIOUS
  <2>3. end[n - 1] \in Nat /\ end[n] = end[n - 1] + StepWords(steps[n], at[n - 1])
    BY <1>1, <2>2
  <2> DEFINE w == StepWords(steps[n], at[n - 1])
  <2>4. w \in Nat /\ end[n] = end[n - 1] + w
    BY <2>1, <2>3
  <2> HIDE DEF w
  <2> QED
    BY <2>3, <2>4
<1> QED
  BY <1>1, <1>2, PrefixesGrow

\* The generator has room for the steps ahead: the address and the shape it has reached are
\* those behind k steps of a network that ends below the last address.
RoomAlong(name, cfg, at, end, k, n, t) ==
  LET steps == Steps(name, cfg.classes)
      z     == Len(steps)
  IN  /\ steps \in StepLists /\ z \in Nat
      /\ FitsAlong(at, steps, cfg, z) /\ Ahead(t, steps, k)
      /\ EndsAlong(end, at, steps, StartOf(name, cfg).addr, z) /\ end[z] < WordSpace
      /\ n.at = at[k] /\ n.addr = end[k]
Room(n, t) ==
  /\ \E name, cfg, at, end, k : RoomAlong(name, cfg, at, end, k, n, t)
  /\ Head(t).chained => n.last + Volume(n.at) <= n.addr
NetStacked(n, t) == Stacked(n.layers, n.addr) /\ (t # <<>> => Room(n, t))

\* A network begun has room for all its steps.
LEMMA GenerateStacks ==
  ASSUME NEW name \in Networks, NEW cfg \in NetConfigs, NetworkEnd(name, cfg) < WordSpace
  PROVE  NetStacked(StartOf(name, cfg), Steps(name, cfg.classes))
<1> DEFINE n == StartOf(name, cfg)
           t == Steps(name, cfg.classes)
           z == Len(t)
           at == ShapesAlong(t, cfg)
<1>1. {cfg.h, cfg.w, cfg.c, cfg.classes} \subseteq Nat /\ cfg.base \in 0 .. WordSpace - 1
  BY CompilerAssumption
<1>2. NetworkFits(name, cfg)
  BY LayersAssumption
<1>3. n.at = Shape(cfg.h, cfg.w, cfg.c) /\ n.layers = <<>>
  BY DEF StartOf, Start
<1>4. n.addr \in Nat
  <2>1. NetOK(n, t)
    BY GenerateIs
  <2> DEFINE w == WordSpace - 1
             a == n.addr
  <2>2. w \in Int /\ a \in 0 .. w
    BY <2>1, WordSpacePositive DEF NetOK
  <2> HIDE DEF w, a
  <2>3. a \in Nat
    BY <2>2
  <2> QED
    BY <2>3 DEF a
<1>5. t \in StepLists /\ t \in Seq(GeneratorSteps) /\ FitsAlong(at, t, cfg, z)
  BY <1>1, <1>2, NetworkAlong, NetworksAre
<1>6. z \in Nat
  BY <1>5
<1>7. \A i \in 1 .. z : LayerFits(StepSpec(t[i], at[i - 1]))
  BY <1>5, Zenon DEF FitsAlong
<1>8. \E end : EndsAlong(end, at, t, n.addr, z) /\ end[z] = NetworkEnd(name, cfg)
  BY <1>4, <1>6, <1>7, NetworkEnds
<1>9. PICK end : EndsAlong(end, at, t, n.addr, z) /\ end[z] = NetworkEnd(name, cfg)
  BY <1>8
<1>10. Ahead(t, t, 0)
  BY <1>6 DEF Ahead
<1>11. n.at = at[0] /\ n.addr = end[0]
  BY <1>3, <1>5, <1>9, Zenon DEF FitsAlong, EndsAlong
<1>12. RoomAlong(name, cfg, at, end, 0, n, t)
  BY <1>5, <1>6, <1>9, <1>10, <1>11, Zenon DEF RoomAlong
<1>13. ASSUME t # <<>> PROVE ~Head(t).chained
  <2> HIDE DEF t
  <2>1. 1 \in DOMAIN t /\ Head(t) = t[1]
    BY <1>5, <1>13
  <2>2. t[1].chained => 1 > 1
    BY <1>5, <2>1 DEF StepLists
  <2> QED
    BY <2>1, <2>2
<1>14. Stacked(n.layers, n.addr)
  <2>1. Len(<<>>) = 0 /\ 1 .. 0 = {}
    OBVIOUS
  <2> QED
    BY <1>3, <2>1 DEF Stacked, Upon
<1> HIDE DEF n, t, at, z
<1>15. t # <<>> => Room(n, t)
  BY <1>12, <1>13, Zenon DEF Room
<1>16. NetStacked(n, t)
  BY <1>14, <1>15 DEF NetStacked
<1> QED
  BY <1>16 DEF n, t

\* The next step fits, and when it is placed there is room for those behind it.
LEMMA RoomNext ==
  ASSUME NEW n, NEW t \in Seq(GeneratorSteps), t # <<>>, Room(n, t)
  PROVE  /\ LayerFits(StepSpec(Head(t), n.at)) /\ n.addr \in Nat
         /\ n.addr + StepWords(Head(t), n.at) < WordSpace
         /\ \A m : /\ m.at = ShapeBehind(Head(t), n.at)
                   /\ m.addr = n.addr + StepWords(Head(t), n.at)
                   /\ m.last + Volume(CompilerOutputShape(StepSpec(Head(t), n.at))) <= m.addr
                   /\ Tail(t) # <<>>
                   => Room(m, Tail(t))
<1>1. PICK name, cfg, at, end, k : RoomAlong(name, cfg, at, end, k, n, t)
  BY DEF Room
<1> DEFINE steps == Steps(name, cfg.classes)
           z == Len(steps)
           start == StartOf(name, cfg).addr
<1>2. /\ steps \in StepLists /\ z \in Nat
      /\ FitsAlong(at, steps, cfg, z) /\ Ahead(t, steps, k)
      /\ EndsAlong(end, at, steps, start, z) /\ end[z] < WordSpace
      /\ n.at = at[k] /\ n.addr = end[k]
  BY <1>1 DEF RoomAlong
<1>20. DOMAIN steps = 1 .. z
  BY <1>2 DEF StepLists
<1>30. \A m : /\ Ahead(Tail(t), steps, k + 1) /\ m.at = at[k + 1] /\ m.addr = end[k + 1]
              => RoomAlong(name, cfg, at, end, k + 1, m, Tail(t))
  BY <1>2 DEF RoomAlong
<1> HIDE DEF steps, z, start
<1>3. /\ Len(t) \in Nat \ {0} /\ Head(t) = t[1] /\ Len(Tail(t)) = Len(t) - 1
      /\ \A i \in 1 .. Len(t) - 1 : Tail(t)[i] = t[i + 1]
  OBVIOUS
<1>4. k \in Nat /\ Len(t) + k = Len(steps) /\ \A i \in 1 .. Len(t) : t[i] = steps[k + i]
  BY <1>2 DEF Ahead
<1>40. Len(steps) = z
  BY DEF z
<1>5. /\ Head(t) = steps[k + 1] /\ k + 1 \in 1 .. z /\ (k + 1) - 1 = k /\ k \in 0 .. z
      /\ k + 1 \in 0 .. z
  BY <1>3, <1>4, <1>40
<1>6. LayerFits(StepSpec(Head(t), n.at)) /\ at[k + 1] = ShapeBehind(Head(t), n.at)
  BY <1>2, <1>5 DEF FitsAlong
<1>7. end[k + 1] = n.addr + StepWords(Head(t), n.at)
  BY <1>2, <1>5 DEF EndsAlong
<1>8. \A i \in 1 .. z : LayerFits(StepSpec(steps[i], at[i - 1]))
  BY <1>2, Zenon DEF FitsAlong
<1>9. end[k] \in Nat /\ end[k + 1] \in Nat /\ end[z] \in Nat /\ end[k + 1] <= end[z]
  BY <1>2, <1>5, <1>8, EndsGrow
<1>10. end[k + 1] < WordSpace
  BY <1>2, <1>9, WordSpacePositive
<1>11. Ahead(Tail(t), steps, k + 1)
  <2>1. Len(Tail(t)) + (k + 1) = Len(steps) /\ k + 1 \in Nat
    BY <1>3, <1>4
  <2>2. \A i \in 1 .. Len(Tail(t)) : Tail(t)[i] = steps[(k + 1) + i]
    <3>1. ASSUME NEW i \in 1 .. Len(Tail(t)) PROVE Tail(t)[i] = steps[(k + 1) + i]
      <4>1. i \in 1 .. Len(t) - 1 /\ i + 1 \in 1 .. Len(t) /\ k + (i + 1) = (k + 1) + i
        BY <1>3, <1>4
      <4> QED
        BY <1>3, <1>4, <4>1
    <3> QED
      BY <3>1
  <2> QED
    BY <2>1, <2>2 DEF Ahead
<1>12. ASSUME Tail(t) # <<>>, Head(Tail(t)).chained PROVE ~Head(t).aside
  <2>1. 2 \in 1 .. Len(t) /\ Head(Tail(t)) = t[2]
    BY <1>12
  <2>2. t[2] = steps[k + 2] /\ k + 2 \in 1 .. z /\ (k + 2) - 1 = k + 1
    BY <1>4, <1>40, <2>1
  <2>3. steps[k + 2].chained => ~steps[(k + 2) - 1].aside
    BY <1>2, <1>20, <2>2 DEF StepLists
  <2> QED
    BY <1>5, <1>12, <2>1, <2>2, <2>3
<1>13. ASSUME NEW m, m.at = ShapeBehind(Head(t), n.at), m.addr = n.addr + StepWords(Head(t), n.at),
              m.last + Volume(CompilerOutputShape(StepSpec(Head(t), n.at))) <= m.addr, Tail(t) # <<>>
       PROVE  Room(m, Tail(t))
  <2>1. RoomAlong(name, cfg, at, end, k + 1, m, Tail(t))
    BY <1>6, <1>7, <1>11, <1>13, <1>30
  <2>2. Head(Tail(t)).chained => m.last + Volume(m.at) <= m.addr
    <3> SUFFICES ASSUME Head(Tail(t)).chained PROVE m.last + Volume(m.at) <= m.addr
      OBVIOUS
    <3>1. m.at = CompilerOutputShape(StepSpec(Head(t), n.at))
      BY <1>12, <1>13, Zenon DEF ShapeBehind
    <3> QED
      BY <1>13, <3>1
  <2> QED
    BY <2>1, <2>2, Zenon DEF Room
<1> QED
  BY <1>2, <1>6, <1>7, <1>9, <1>10, <1>13

\* A network stays stacked, layer by layer.
LEMMA LayerStacks ==
  ASSUME NEW g, GenOK(g), NEW n, NEW t, NetOK(n, t), NetStacked(n, t), t # <<>>,
         NEW m, m = AddStep(g, n, Head(t))
  PROVE  NetStacked(m, Tail(t))
<1>1. /\ t \in Seq(GeneratorSteps) /\ n.addr \in 0 .. WordSpace - 1 /\ n.last \in Nat
      /\ n.layers \in Seq(Range(n.layers)) /\ \A l \in Range(n.layers) : Generated(l)
  BY DEF NetOK
<1>2. Stacked(n.layers, n.addr) /\ Room(n, t)
  BY DEF NetStacked
<1> DEFINE step == Head(t)
           spec == StepSpec(step, n.at)
           words == StepWords(step, n.at)
<1>3. /\ LayerFits(spec) /\ n.addr \in Nat /\ n.addr + words < WordSpace
      /\ m.at = ShapeBehind(step, n.at) /\ m.addr = n.addr + words
         /\ m.last + Volume(CompilerOutputShape(spec)) <= m.addr /\ Tail(t) # <<>>
         => Room(m, Tail(t))
  BY <1>1, <1>2, RoomNext
<1>4. step.chained => n.last + Volume(n.at) <= n.addr
  BY <1>2 DEF Room
<1>5. m.at = ShapeBehind(step, n.at) /\ \E l : m.layers = Append(n.layers, l) /\ Generated(l)
  BY <1>1, <1>3, AddStepIs
<1>6. /\ m.addr = n.addr + words /\ m.last + Volume(CompilerOutputShape(spec)) <= m.addr
      /\ \E l : m.layers = Append(n.layers, l) /\ Ending(l, m.addr) /\ OnTop(l, n.addr)
  <2>1. n.last \in Nat /\ n.addr \in Nat /\ LayerFits(StepSpec(step, n.at))
        /\ n.addr + StepWords(step, n.at) < WordSpace /\ m = AddStep(g, n, step)
        /\ (step.chained => n.last + Volume(n.at) <= n.addr)
    BY <1>1, <1>3, <1>4
  <2> HIDE DEF step, spec, words
  <2>2. PutOnTop(n, step, m)
    BY <2>1, StepOnTop
  <2> QED
    BY <2>2 DEF PutOnTop, spec, words
<1>7. words \in Nat
  BY <1>3, StepWordsIs
<1> HIDE DEF step, spec, words
<1>8. n.addr <= m.addr /\ m.addr \in Nat
  BY <1>3, <1>6, <1>7
<1>9. PICK l : m.layers = Append(n.layers, l) /\ Generated(l)
  BY <1>5
<1>10. PICK x : m.layers = Append(n.layers, x) /\ Ending(x, m.addr) /\ OnTop(x, n.addr)
  BY <1>6
<1>11. x = l
  <2> DEFINE ls == n.layers
             R == Range(n.layers) \cup {x, l}
  <2>1. ls \in Seq(Range(n.layers)) /\ Range(n.layers) \subseteq R /\ x \in R /\ l \in R
    BY <1>1
  <2> DEFINE Q == Range(n.layers)
  <2>2. ls \in Seq(Q) /\ Q \subseteq R
    BY <2>1
  <2>3. Append(ls, x) = Append(ls, l)
    BY <1>9, <1>10
  <2> HIDE DEF ls, R, Q
  <2>4. ls \in Seq(R)
    <3>1. Len(ls) \in Nat /\ ls = [i \in 1 .. Len(ls) |-> ls[i]] /\ \A i \in 1 .. Len(ls) : ls[i] \in Q
      BY <2>2
    <3> QED
      BY <2>2, <3>1
  <2>5. Append(ls, x)[Len(ls) + 1] = x /\ Append(ls, l)[Len(ls) + 1] = l
    BY <2>1, <2>4
  <2> QED
    BY <2>3, <2>5
<1>12. Stacked(m.layers, m.addr)
  <2> DEFINE ls == n.layers
             Q == Range(n.layers)
             T == Q \cup {l}
  <2>1. ls \in Seq(Q) /\ Q \subseteq T /\ l \in T
    BY <1>1
  <2>2. \A y \in T : Generated(y)
    BY <1>1, <1>9
  <2>3. Stacked(ls, n.addr)
    BY <1>2
  <2> HIDE DEF ls, Q, T
  <2>4. ls \in Seq(T)
    <3>1. Len(ls) \in Nat /\ ls = [i \in 1 .. Len(ls) |-> ls[i]] /\ \A i \in 1 .. Len(ls) : ls[i] \in Q
      BY <2>1
    <3> QED
      BY <2>1, <3>1
  <2>5. Stacked(Append(ls, l), m.addr)
    BY <1>3, <1>8, <1>10, <1>11, <2>1, <2>2, <2>3, <2>4, StackOne
  <2> QED
    BY <1>9, <2>5 DEF ls
<1>13. Tail(t) # <<>> => Room(m, Tail(t))
  BY <1>3, <1>5, <1>6
<1> QED
  BY <1>12, <1>13 DEF NetStacked

----------------------------------------------------------------------------
(* What a compiler places stays apart *)

\* A generated network's tensors.
LEMMA GeneratedApart ==
  ASSUME Compiling, tool = "generator", Stacked(net.layers, net.addr)
  PROVE  RegionsApart
<1> DEFINE ns == net.layers
           ls == GeneratedLayers(ns)
           P == Program
           z == Len(ns)
<1>1. ns \in Seq(Range(ns)) /\ (\A l \in Range(ns) : Generated(l)) /\ net.addr \in 0 .. WordSpace - 1
  BY DEF Compiling, NetOK
<1>2. P = LayerFunctions(ls)
  BY DEF Program
<1> HIDE DEF P
<1>3. z \in Nat /\ DOMAIN ns = 1 .. z /\ \A i \in 1 .. z : Generated(ns[i])
  <2>1. DOMAIN ns = 1 .. z /\ z \in Nat
    BY <1>1
  <2>2. \A i \in 1 .. z : ns[i] \in Range(ns)
    BY <2>1 DEF Range
  <2> QED
    BY <1>1, <2>1, <2>2
<1> HIDE DEF z
<1>4. DOMAIN ls = 1 .. z
  BY <1>3 DEF GeneratedLayers
<1>5. ASSUME NEW i \in 1 .. z
      PROVE  /\ ls[i].spec = ns[i].spec /\ ls[i].in = ns[i].in
             /\ ls[i].wt = ns[i].wt /\ ls[i].out = ns[i].out
  BY <1>3 DEF GeneratedLayers
<1> HIDE DEF ls
<1>6. DOMAIN P = 1 .. z /\ \A i \in 1 .. z : P[i] = LayerFunction(i, ls[i])
  BY <1>2, <1>4 DEF LayerFunctions
<1>7. \A o, a, n : Tensor(o, a, n).addr = a /\ Tensor(o, a, n).words = n
  BY DEF Tensor
<1>8. ASSUME NEW i \in 1 .. z
      PROVE  /\ P[i].input.addr + P[i].input.words = LayerInputEnd(ns[i])
             /\ P[i].output.addr + P[i].output.words = LayerOutputEnd(ns[i])
             /\ P[i].output.addr = ns[i].out /\ P[i].weight.addr = ns[i].wt
             /\ ns[i].spec.type # "Pooling" =>
                  P[i].weight.addr + P[i].weight.words = LayerWeightEnd(ns[i])
             /\ ns[i].spec.type = "Pooling" => Weights(P[i]) = {}
             /\ Weights(P[i]) \subseteq {P[i].weight}
  <2> DEFINE l == ls[i]
             s == l.spec
             f == LayerFunction(i, l)
  <2>1. /\ f.input = Tensor(InputShape(s), l.in, Volume(InputShape(s)))
        /\ f.weight = Tensor(Shape(s.kh, s.kw, s.kc), l.wt, s.kh * s.kw * s.kc * s.kn)
        /\ f.output = Tensor(CompilerOutputShape(s), l.out, Volume(CompilerOutputShape(s)))
        /\ f.type = RunsAs(s.type)
    BY Zenon DEF LayerFunction, Function
  <2>2. P[i] = f /\ s = ns[i].spec /\ l.in = ns[i].in /\ l.wt = ns[i].wt /\ l.out = ns[i].out
    BY <1>5, <1>6
  <2> HIDE DEF f, s, l
  <2>3. /\ P[i].input.addr = ns[i].in /\ P[i].input.words = Volume(InputShape(ns[i].spec))
        /\ P[i].weight.addr = ns[i].wt
        /\ P[i].weight.words = s.kh * s.kw * s.kc * s.kn
        /\ P[i].output.addr = ns[i].out /\ P[i].output.words = Volume(CompilerOutputShape(ns[i].spec))
        /\ P[i].type = RunsAs(ns[i].spec.type)
    BY <1>7, <2>1, <2>2
  <2>4. ns[i].spec.type # "Pooling" => P[i].weight.words = StepWeights(ns[i].spec)
    BY <2>2, <2>3 DEF StepWeights
  <2>5. ns[i].spec.type = "Pooling" => P[i].type = "Pooling"
    BY <2>3 DEF RunsAs, Windowed
  <2> QED
    BY <2>3, <2>4, <2>5 DEF LayerInputEnd, LayerWeightEnd, LayerOutputEnd, Weights
<1>9. ASSUME NEW i \in 1 .. z, NEW a, Ending(ns[i], a), NEW t \in Regions(P[i])
      PROVE  t.addr + t.words <= a
  <2>1. t = P[i].input \/ t = P[i].output \/ (t = P[i].weight /\ ns[i].spec.type # "Pooling")
    BY <1>8 DEF Regions
  <2> QED
    BY <1>8, <1>9, <2>1 DEF Ending
<1>10. ASSUME NEW i \in 1 .. z, NEW a, Upon(ns, i - 1, a), LayerInputEnd(ns[i]) <= a
       PROVE  Behind(P, i, a)
  <2>1. \A j \in 1 .. i - 1 : j \in 1 .. z
    BY <1>3
  <2>2. \A j \in 1 .. i - 1 : \A t \in Regions(P[j]) : t.addr + t.words <= a
    BY <1>9, <1>10, <2>1 DEF Upon
  <2> QED
    BY <1>8, <1>10, <2>2 DEF Behind
<1>11. net.addr \in Nat /\ net.addr <= WordSpace /\ WordSpace \in Nat
  <2> DEFINE w == WordSpace
             a == net.addr
  <2>1. w \in Nat /\ a \in 0 .. w - 1
    BY <1>1, WordSpacePositive
  <2> HIDE DEF w, a
  <2>2. a \in Nat /\ a <= w
    BY <2>1
  <2> QED
    BY <2>1, <2>2 DEF a, w
<1>12. Upon(ns, z, net.addr) /\ \A i \in 1 .. z : Piled(ns, i)
  BY DEF Stacked, z
<1>13. ASSUME NEW i \in DOMAIN P
       PROVE  /\ \A t \in Regions(P[i]) : t.addr + t.words <= WordSpace
              /\ Chooses(i, "kernel_addr") => \A w \in Weights(P[i]) : Behind(P, i, w.addr)
              /\ Chooses(i, "output_addr") =>
                   /\ Behind(P, i, P[i].output.addr)
                   /\ \A w \in Weights(P[i]) : w.addr + w.words <= P[i].output.addr
  <2>1. i \in 1 .. z /\ Generated(ns[i]) /\ Piled(ns, i)
    BY <1>3, <1>6, <1>12
  <2>2. Ending(ns[i], WordSpace)
    BY <1>11, <1>12, <2>1, EndingLater DEF Upon
  <2>3. \A t \in Regions(P[i]) : t.addr + t.words <= WordSpace
    BY <1>9, <2>1, <2>2
  <2>4. \A w \in Weights(P[i]) : w = P[i].weight /\ ns[i].spec.type # "Pooling"
    BY <1>8, <2>1
  <2>5. \A w \in Weights(P[i]) : Behind(P, i, w.addr) /\ w.addr + w.words <= P[i].output.addr
    BY <1>8, <1>10, <2>1, <2>4 DEF Piled
  <2>6. Behind(P, i, P[i].output.addr)
    BY <1>8, <1>10, <2>1 DEF Piled
  <2> QED
    BY <2>3, <2>5, <2>6
<1>14. RegionsBehind(P, WordSpace)
  BY <1>13 DEF RegionsBehind
<1> QED
  BY <1>14, BehindIsApart DEF P

\* What was built from a file fits the memory.
FitsMemory == tool = "csv" /\ stage = "built" => Link(rows, hw.pe).footprint <= DramWords
\* And the network under construction is a stack with room for its steps.
RegionsKept == FitsMemory /\ NetStacked(net, todo)

\* An image is built from a file only when its footprint fits.
LEMMA FitsSteps ==
  ASSUME Compiling, FitsMemory, [Next]_vars
  PROVE  FitsMemory'
<1>1. ASSUME stage' # "built" PROVE FitsMemory'
  BY <1>1 DEF FitsMemory
<1>2. CASE UNCHANGED vars
  BY <1>2 DEF FitsMemory, vars
<1>3. CASE \E r \in Rows : WriteRow(r)
  BY <1>1, <1>3 DEF WriteRow, Editing
<1>4. CASE LoadImage
  BY <1>1, <1>4 DEF LoadImage, Load
<1>5. CASE \/ \E l \in PlainLayers : AddLayer(l)
           \/ \E l \in PlainLayers, t \in Tiles : AddLayerDirect(l, t)
           \/ \E l \in Geometries, m \in Mappings, t \in Tiles : AddLayerDerived(l, m, t)
           \/ \E id \in 0 .. MaxLayers - 1, n \in BlobSizes : AttachWeights(id, n)
           \/ \E n \in BlobSizes : SetFirstLayerInput(n)
           \/ Clear
  <2>1. stage' # "built"
    BY <1>5 DEF AddLayer, AddLayerDirect, AddLayerDerived, AttachWeights,
       SetFirstLayerInput, Clear, ApiCall, Editing
  <2> QED
    BY <1>1, <2>1
<1>6. CASE \/ \E pe \in PeChoices, d \in {"WS", "IS", "OS"} : Configure(pe, d)
           \/ ResetConfig \/ ClearTypePe \/ ClearIndexPe
           \/ \E a \in BOOLEAN : SetPeGroupingMode(a)
           \/ \E o \in TypeOverrides : SetTypePe(o[1], o[2])
           \/ \E o \in IndexOverrides : SetIndexPe(o[1], o[2])
           \/ \E name \in Networks, cfg \in NetConfigs : Generate(name, cfg)
           \/ GenerateLayer
  <2>1. stage' # "built"
    BY <1>6 DEF Configure, ResetConfig, ClearTypePe, ClearIndexPe, SetPeGroupingMode,
       SetTypePe, SetIndexPe, GeneratorCall, Generate, GenerateLayer, Editing
  <2> QED
    BY <1>1, <2>1
<1>7. CASE GenerateFromCsv
  <2> DEFINE c == Link(rows, hw.pe).footprint
  <2>1. /\ UNCHANGED <<hw, rows>>
        /\ stage' = "built" => ~(c > DramWords)
    BY <1>7, Zenon DEF GenerateFromCsv
  <2>2. c \in Nat /\ DramWords \in Nat
    <3>1. rows \in Seq(Rows) /\ hw.pe \in ProcessingElements
      BY CompilerAssumption DEF Compiling, ImageKept
    <3>2. c \in Nat
      BY <3>1, LinkedApart
    <3> DEFINE w == WordSpace
    <3>3. w \in Nat /\ DramWords \in 0 .. w
      BY WordSpacePositive, CompilerAssumption
    <3> HIDE DEF w, c
    <3> QED
      BY <3>2, <3>3
  <2>3. c' = c
    BY <2>1
  <2> HIDE DEF c
  <2>4. stage' = "built" => c <= DramWords
    BY <2>1, <2>2
  <2> QED
    BY <2>1, <2>3, <2>4 DEF FitsMemory, c
<1>8. CASE Compile
  BY <1>8 DEF Compile, Editing, FitsMemory
<1>9. CASE GenerateDone
  BY <1>9 DEF GenerateDone, Editing, FitsMemory
<1> QED
  BY <1>2, <1>3, <1>4, <1>5, <1>6, <1>7, <1>8, <1>9 DEF Next, WriteCsv, UseCompiler, UseGenerator

\* Every call of the generator keeps the stack.
LEMMA StackSteps ==
  ASSUME MemoryIsLargeEnough, GeneratorKept, NetOK(net, todo), NetStacked(net, todo), [Next]_vars
  PROVE  NetStacked(net', todo')
<1>1. CASE UNCHANGED <<net, todo>>
  BY <1>1
<1>2. ASSUME NEW name \in Networks, NEW cfg \in NetConfigs, Generate(name, cfg)
      PROVE  NetStacked(net', todo')
  <2>1. net' = StartOf(name, cfg) /\ todo' = Steps(name, cfg.classes)
    BY <1>2 DEF Generate
  <2> QED
    BY <2>1, GenerateStacks DEF MemoryIsLargeEnough
<1>3. CASE GenerateLayer
  <2>1. net' = AddStep(gen, net, Head(todo)) /\ todo' = Tail(todo) /\ todo # <<>>
    BY <1>3 DEF GenerateLayer
  <2>2. GenOK(gen)
    BY DEF GeneratorKept
  <2>3. NetStacked(net', Tail(todo))
    BY <2>1, <2>2, LayerStacks
  <2> QED
    BY <2>1, <2>3
<1>4. CASE WriteCsv \/ UseCompiler \/ LoadImage \/ GenerateDone \/ UNCHANGED vars
  <2>1. UNCHANGED <<net, todo>>
    BY <1>4 DEF WriteCsv, WriteRow, GenerateFromCsv, UseCompiler, AddLayer, AddLayerDirect,
         AddLayerDerived, AttachWeights, SetFirstLayerInput, Clear, ApiCall, Compile,
         GenerateDone, LoadImage, Load, vars
  <2> QED
    BY <1>1, <2>1
<1>5. ASSUME NEW pe, NEW d, Configure(pe, d) PROVE NetStacked(net', todo')
  BY <1>1, <1>5 DEF Configure, GeneratorCall
<1>6. CASE ResetConfig \/ ClearTypePe \/ ClearIndexPe \/ \E a \in BOOLEAN : SetPeGroupingMode(a)
  BY <1>1, <1>6 DEF ResetConfig, ClearTypePe, ClearIndexPe, SetPeGroupingMode, GeneratorCall
<1>7. ASSUME NEW a, NEW b, SetTypePe(a, b) \/ SetIndexPe(a, b) PROVE NetStacked(net', todo')
  BY <1>1, <1>7 DEF SetTypePe, SetIndexPe, GeneratorCall
<1> QED
  BY <1>2, <1>3, <1>4, <1>5, <1>6, <1>7 DEF Next, UseGenerator

\* Before anything is compiled there is nothing to overlap.
LEMMA NothingStacked ==
  ASSUME Init
  PROVE  RegionsKept
<1>1. net.layers = <<>> /\ todo = <<>> /\ stage = "edit"
  BY DEF Init, Start
<1>2. Stacked(net.layers, net.addr)
  <2>1. Len(<<>>) = 0 /\ 1 .. 0 = {}
    OBVIOUS
  <2> QED
    BY <1>1, <2>1 DEF Stacked, Upon
<1> QED
  BY <1>1, <1>2 DEF RegionsKept, FitsMemory, NetStacked

\* The two ways of placing tensors.
LEMMA KeptIsApart ==
  ASSUME MemoryIsLargeEnough, Compiling, RegionsKept
  PROVE  RegionsApart
<1>1. CASE tool = "csv" /\ stage = "built"
  BY <1>1, CsvApart DEF RegionsKept, FitsMemory, MemoryIsLargeEnough
<1>2. CASE tool = "generator"
  BY <1>2, GeneratedApart DEF RegionsKept, NetStacked
<1>3. CASE ~(stage = "built" /\ tool # "api")
  BY <1>3, Zenon DEF RegionsApart
<1>4. tool \in {"csv", "api", "generator"}
  BY DEF Compiling, ImageKept
<1> QED
  BY <1>1, <1>2, <1>3, <1>4

\* RegionsApart, for every CSV program and network: in a memory that ends before the last
\* address no region that load_layer_spec_csv or a network of DnnImageGenerator chose for
\* weights or an output overlaps a tensor of an earlier function or another of its own,
\* and all of them are inside the memory.  Were the last word used, the next address
\* would wrap around to zero.
THEOREM RegionsAlwaysApart ==
  ASSUME MemoryIsLargeEnough
  PROVE  Spec => []RegionsApart
<1>1. Init => RegionsKept
  BY NothingStacked
<1>2. Compiling /\ RegionsKept /\ [Next]_vars => RegionsKept'
  <2> SUFFICES ASSUME Compiling, RegionsKept, [Next]_vars PROVE RegionsKept'
    OBVIOUS
  <2>1. FitsMemory'
    BY FitsSteps DEF RegionsKept
  <2>2. NetStacked(net', todo')
    BY StackSteps DEF RegionsKept, Compiling
  <2> QED
    BY <2>1, <2>2 DEF RegionsKept
<1>3. Compiling /\ RegionsKept => RegionsApart
  BY KeptIsApart
<1> QED
  BY <1>1, <1>2, <1>3, CompilerKeeps, PTL DEF Spec
=============================================================================
