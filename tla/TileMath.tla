------------------------------ MODULE TileMath ------------------------------
(***************************************************************************)
(* tile_math.h and Mode B of the compiler: a layer with an explicit tile   *)
(* shape, the operands all its tiles move (edge tiles at their own size),  *)
(* and the latency descriptor add_layer_derived makes of them.             *)
(*                                                                         *)
(* A geometry is a layer specification whose kn is kernel_oc and whose kc  *)
(* is unused.  A tile request has r, c, oc, ic, kern and order; a zero     *)
(* axis means the whole axis.                                              *)
(***************************************************************************)
EXTENDS LatencyParams

\* compute_output_shape: MatMul is M x K (ih x iw) by K x N (kw columns).
GeometryShape(s) ==
  CASE s.type = "MatMul"                          -> Shape(s.ih, s.kw, 1)
    [] s.type \in Windowed \cup {"FullyConnected"} -> CompilerOutputShape(s)
    [] OTHER                                      -> InputShape(s)

Reducing == {"Conv2D", "DepthwiseConv2D", "FullyConnected", "MatMul"}
ReductionExtent(s) == IF s.type = "MatMul" THEN s.iw ELSE s.ic
OrWhole(request, whole) == IF request = 0 THEN whole ELSE request

TileAxes(s, tile) ==
  LET o == GeometryShape(s)
  IN  [r |-> OrWhole(tile.r, o.h), c |-> OrWhole(tile.c, o.w), oc |-> OrWhole(tile.oc, o.c),
       ic |-> IF s.type \in Reducing THEN OrWhole(tile.ic, ReductionExtent(s)) ELSE 0]

\* What resolve_tile accepts; add_layer_derived goes on without asking.
TileAccepted(s, tile) ==
  LET o == GeometryShape(s)  t == TileAxes(s, tile)
  IN  /\ tile.kern \in {0, s.kh * s.kw}
      /\ s.type = "DepthwiseConv2D" => t.oc = t.ic
      /\ t.r <= o.h /\ t.c <= o.w /\ t.oc <= o.c
      /\ s.type \in Reducing => t.ic <= ReductionExtent(s)
      /\ tile.order \in {0, 1, 2, 3, 255}

\* (fault) A piece at the edge is not counted.
TileCountsWholeOnly(s, t) ==
  LET o == GeometryShape(s)
      Pieces(whole, part) == IF part > 0 THEN Most(1, whole \div part) ELSE 1
  IN  [r |-> Pieces(o.h, t.r), c |-> Pieces(o.w, t.c), oc |-> Pieces(o.c, t.oc),
       ic |-> Pieces(ReductionExtent(s), t.ic)]

TileCounts(s, t) ==
  LET o == GeometryShape(s)
      Pieces(whole, part) == IF part > 0 THEN CeilDiv(whole, part) ELSE 1
  IN  [r |-> Pieces(o.h, t.r), c |-> Pieces(o.w, t.c), oc |-> Pieces(o.c, t.oc),
       ic |-> Pieces(ReductionExtent(s), t.ic)]

\* Operands of one tile of extents t: a window reads its halo.
PerTileVolumes(s, t) ==
  LET inH == t.r * s.stride + (s.kh - 1) * s.dil
      inW == t.c * s.stride + (s.kw - 1) * s.dil
      window == s.kh * s.kw
      out    == t.r * t.c * t.oc
  IN  CASE s.type = "Conv2D"          -> [in |-> inH * inW * t.ic, wt |-> window * t.ic * t.oc]
        [] s.type = "DepthwiseConv2D" -> [in |-> inH * inW * t.ic, wt |-> window * t.oc]
        [] s.type = "FullyConnected"  -> [in |-> t.ic, wt |-> t.ic * t.oc]
        [] s.type = "MatMul"          -> [in |-> t.r * t.ic, wt |-> t.ic * t.c]
        [] s.type = "Pooling"         -> [in |-> inH * inW * t.oc, wt |-> 0]
        [] s.type = "Activation"      -> [in |-> out, wt |-> 0]
        [] s.type = "ElementWise"     -> [in |-> out, wt |-> out]
        [] OTHER                      -> [in |-> 0, wt |-> 0]

\* Operands of all the tiles, in closed form.
AggregateVolumes(s, t) ==
  LET o == GeometryShape(s)  n == TileCounts(s, t)
      ic == ReductionExtent(s)
      area == (o.h * s.stride + n.r * (s.kh - 1) * s.dil)
              * (o.w * s.stride + n.c * (s.kw - 1) * s.dil)
      window == s.kh * s.kw
  IN  CASE s.type = "Conv2D" ->
             [in |-> area * ic * n.oc, wt |-> window * ic * o.c * n.r * n.c]
        [] s.type = "DepthwiseConv2D" ->
             [in |-> area * ic * n.oc, wt |-> window * o.c * n.r * n.c * n.ic]
        [] s.type = "FullyConnected" ->
             [in |-> ic * n.r * n.c * n.oc, wt |-> ic * o.c * n.r * n.c]
        [] s.type = "MatMul" ->
             [in |-> o.h * ic * n.c * n.oc, wt |-> ic * o.w * n.r * n.oc]
        [] s.type = "Pooling"     -> [in |-> area * o.c * n.ic, wt |-> 0]
        [] s.type = "Activation"  -> [in |-> Volume(o) * n.ic, wt |-> 0]
        [] s.type = "ElementWise" -> [in |-> Volume(o) * n.ic, wt |-> Volume(o) * n.ic]
        [] OTHER                  -> [in |-> 0, wt |-> 0]

-----------------------------------------------------------------------------
(***************************************************************************)
(* Mode B.  A mapping m: type, k, g, s, l (0 = derive), and the fractions  *)
(* delta, betaI, betaW, betaO, alpha in quarters (4 = 1), which keeps the  *)
(* source's doubles exact.                                                 *)
(***************************************************************************)
MappingValid(m) ==
  /\ {m.betaI, m.betaW, m.betaO, m.l} \subseteq Nat /\ m.betaI + m.betaW + m.betaO = 4
  /\ m.delta \in 0 .. 4 /\ m.alpha \in 1 .. 4
  /\ {m.k, m.g, m.s} \subseteq Nat \ {0}

DerivedOps(s) == IF s.type = "MatMul" THEN s.iw ELSE OpsPerOutput(s)

DerivedLatency(s, m, tile) ==
  LET t      == TileAxes(s, tile)
      passes == CeilDiv(DerivedOps(s), m.k)
      out    == Volume(GeometryShape(s))
      all    == AggregateVolumes(s, t)
      one    == PerTileVolumes(s, t)
      reload == (m.delta * Most(0, passes - m.g) * out) \div 4
  IN  [fI |-> all.in + (m.betaI * reload) \div 4,
       fW |-> all.wt + (m.betaW * reload) \div 4, fO |-> passes * out,
       preIn |-> (m.alpha * one.in) \div 4, preWt |-> (m.alpha * one.wt) \div 4,
       nMin |-> m.g, nMax |-> m.g * m.s, issue |-> PassLatency(m), post |-> 0,
       ops |-> DerivedOps(s)]

\* add_layer_direct keeps the geometry; kernel_channels becomes the input's.
DirectSpec(s) == [s EXCEPT !.kc = s.ic]
TileRequested(tile) == tile.r > 0 \/ tile.c > 0 \/ tile.oc > 0 \/ tile.ic > 0
=============================================================================
