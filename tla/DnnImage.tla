------------------------------ MODULE DnnImage ------------------------------
(***************************************************************************)
(* The packet image between the compiler and the NPU: what                 *)
(* build_dnn_image_packets lays out and what the loader reads back.        *)
(*                                                                         *)
(* An image is kept as its fields, its packets and the byte offset each is *)
(* written at.  Tensor sizes and addresses are in 4-byte words, offsets    *)
(* and blob sizes in bytes.                                                *)
(***************************************************************************)
EXTENDS LayerShape, SequencesExt

NoOperand == -2                      \* 0xFFFFFFFF in operand_src
HeaderBytes       == 32
PacketHeaderBytes == 24
DescriptorBytes   == 200

Tensor(shape, addr, words) == [shape |-> shape, addr |-> addr, words |-> words]
TileRequests == [r : Nat, c : Nat, oc : Nat, ic : Nat, kern : Nat, order : Nat]
NoTile   == [r |-> 0, c |-> 0, oc |-> 0, ic |-> 0, kern |-> 0, order |-> 0]

\* A function descriptor and its layer id.  src1, src2: operand sources.
\* flags: {"TileEnable", "DerivedMode"} or a part of it.
Function(layer, fid, type, src1, src2, spec, pre, skip, input, weight, output, lat, tile, flags) ==
  [layer |-> layer, fid |-> fid, type |-> type, src1 |-> src1, src2 |-> src2,
   stride |-> spec.stride, pad |-> spec.pad, pre |-> pre, skip |-> skip,
   input |-> input, weight |-> weight, output |-> output,
   lat |-> lat, tile |-> tile, flags |-> flags]

-----------------------------------------------------------------------------
\* The elements in their order: each comes after those in before[x].
Arranged(before) ==
  [n \in 1 .. Cardinality(DOMAIN before) |->
     CHOOSE x \in DOMAIN before : Cardinality(before[x]) = n - 1]
\* The entries at some places, in the order of their places.
Selected(seq, places) ==
  LET at == Arranged([i \in places |-> {j \in places : j < i}])
  IN  [n \in DOMAIN at |-> seq[at[n]]]
\* A map with one more, or another, value.
With(f, key, value) ==
  [k \in DOMAIN f \cup {key} |-> IF k = key THEN value ELSE f[k]]

\* build_dnn_image_packets.  blobs: bytes by layer id; fmap: bytes, 0 = none.
NoImage == [numLayers |-> 0, total |-> 0]

\* Stable: functions of one layer and id keep their order.
Sorted(functions) ==
  LET Before(i, j) ==
        LET a == functions[i]  b == functions[j]
        IN  \/ a.layer < b.layer
            \/ a.layer = b.layer /\ a.fid < b.fid
            \/ a.layer = b.layer /\ a.fid = b.fid /\ i < j
      order == Arranged([i \in DOMAIN functions |-> {j \in DOMAIN functions : Before(j, i)}])
  IN  [i \in DOMAIN order |-> functions[order[i]]]

PacketLayers(sorted) ==
  LET firsts == Selected(sorted, {i \in DOMAIN sorted :
                                    i = 1 \/ sorted[i - 1].layer # sorted[i].layer})
  IN  [n \in DOMAIN firsts |-> firsts[n].layer]
FunctionsOf(sorted, layer) == Selected(sorted, {i \in DOMAIN sorted : sorted[i].layer = layer})
BlobBytes(blobs, layer)    == IF layer \in DOMAIN blobs THEN blobs[layer] ELSE 0

\* Packets first, their blobs in a section of their own behind them: a
\* packet's size counts its descriptors only.
BuildImage(functions, blobs, fmap) ==
  LET sorted == Sorted(functions)
      ids    == PacketLayers(sorted)
      Size(i)       == PacketHeaderBytes + DescriptorBytes * Len(FunctionsOf(sorted, ids[i]))
      At(i)         == HeaderBytes + fmap + PacketHeaderBytes * (i - 1)
                       + DescriptorBytes * Cardinality({f \in DOMAIN sorted :
                                                          i > Len(ids) \/ sorted[f].layer < ids[i]})
      Blob(i)       == BlobBytes(blobs, ids[i])
      weights       == At(Len(ids) + 1)
      BlobAt(i)     == weights + SumFunction([m \in 1 .. i - 1 |-> Blob(m)])
      Packet(i)     ==
        [at |-> At(i), layer |-> ids[i], num |-> Len(FunctionsOf(sorted, ids[i])),
         size |-> Size(i), functions |-> FunctionsOf(sorted, ids[i]),
         blobAt |-> IF Blob(i) > 0 THEN BlobAt(i) ELSE 0, blobSize |-> Blob(i)]
  IN  IF functions = <<>> THEN NoImage
      ELSE [numLayers |-> Len(ids), total |-> BlobAt(Len(ids) + 1),
            fmapAt |-> IF fmap > 0 THEN HeaderBytes ELSE 0, fmapSize |-> fmap,
            weightsAt |-> IF \E i \in DOMAIN ids : Blob(i) > 0 THEN weights ELSE 0,
            packets |-> [i \in DOMAIN ids |-> Packet(i)]]

-----------------------------------------------------------------------------
\* parse_dnn_image_packets_to_layers.  A packet is header, descriptors and
\* blob; the size left for the descriptors is an unsigned difference
\* (2^32 = 96 modulo the descriptor size).
PacketFits(p, image) ==
  LET region == p.size - PacketHeaderBytes - p.blobSize
  IN  /\ p.size >= PacketHeaderBytes /\ p.at + p.size <= image.total
      /\ p.blobSize <= p.size
      /\ p.blobSize > 0 => p.blobAt >= PacketHeaderBytes
      /\ (region + (IF region < 0 THEN 96 ELSE 0)) % DescriptorBytes = 0
      /\ region >= 0 => region \div DescriptorBytes >= p.num

\* The types a packet's function runs as.
RunsAs(type) ==
  CASE type = "Deconvolution" -> "Conv2D"
    [] type \in Windowed \cup {"FullyConnected", "Activation", "MatMul"} -> type
    [] OTHER -> "ElementWise"

\* Zero skipping as a function of its own scales what it writes and waits for,
\* and fetches no weights.
Skipped(f) == IF f.pre = "ZeroSkipping" THEN Least(f.skip, 1000) ELSE 0
LoadedLatency(f) ==
  LET keep == 1000 - Skipped(f)
      Scale(n) == Most(1, (n * keep) \div 1000)
  IN  IF f.type = "Preprocess" /\ f.pre = "ZeroSkipping"
      THEN [f.lat EXCEPT !.fO = Scale(@), !.preIn = Scale(@), !.fW = 0, !.preWt = 0]
      ELSE f.lat

\* A function as the NPU gets it: layer descriptor and execution metadata.
LoadedLayer(p, packet, f) ==
  LET ids == {g.fid : g \in Range(p.functions)}
  IN  [layer |-> p.layer, packet |-> packet, fid |-> f.fid, ftype |-> f.type,
       type |-> RunsAs(f.type), stride |-> f.stride, pad |-> f.pad,
       input |-> f.input, weight |-> f.weight, output |-> f.output,
       lat |-> LoadedLatency(f), tile |-> f.tile, flags |-> f.flags, skip |-> Skipped(f),
       i1 |-> f.src1, i2 |-> f.src2,
       i1FromPacket |-> f.src1 \in ids, i2FromPacket |-> f.src2 \in ids,
       consumed |-> \E g \in Range(p.functions) : f.fid \in {g.src1, g.src2}]

PacketLoaded(p, packet) ==
  [i \in DOMAIN p.functions |-> LoadedLayer(p, packet, p.functions[i])]

\* (fault) The walk forgets the first layer's input.
PacketAtHeader(image) ==
  [n \in 1 .. image.numLayers |->
     HeaderBytes + SumFunction([m \in 1 .. n - 1 |-> image.packets[m].size])]

\* The walk over the packets: each is looked for where the one before ends.
PacketAt(image) ==
  LET at[n \in 1 .. image.numLayers] ==
        IF n = 1 THEN HeaderBytes + image.fmapSize ELSE at[n - 1] + image.packets[n - 1].size
  IN  at
PacketRefused(image, n) ==
  LET at == PacketAt(image)[n]  p == image.packets[n]
  IN  at # p.at \/ at + PacketHeaderBytes > image.total \/ ~PacketFits(p, image)

ParseImage(image, length) ==
  LET readable ==
        /\ length >= HeaderBytes /\ image.total <= length
        /\ image.fmapSize > 0 => /\ image.fmapAt = HeaderBytes
                                 /\ HeaderBytes + image.fmapSize <= image.total
      \* Packets read before the first one that is refused.
      refused == {n \in 1 .. image.numLayers : PacketRefused(image, n)}
      read    == IF ~readable THEN 0
                 ELSE IF refused = {} THEN image.numLayers ELSE Min(refused) - 1
  IN  [ok |-> readable /\ refused = {}, packets |-> read,
       layers |-> FlattenSeq([n \in 1 .. read |-> PacketLoaded(image.packets[n], n - 1)])]

\* extract_blobs: the weight bytes of each packet, by packet.
LoadedBlobs(image) ==
  [n \in 1 .. image.numLayers |->
     LET p == image.packets[n]
     IN  IF /\ p.blobSize > 0 /\ p.blobAt >= image.weightsAt
            /\ p.blobAt + p.blobSize <= image.total
         THEN p.blobSize ELSE 0]
=============================================================================
