----------------------------- MODULE TileSearch -----------------------------
(***************************************************************************)
(* tile_search.cpp: the output tile the NPU runs a layer with when the     *)
(* image carries none and the model lets a layer exceed the global buffer. *)
(*                                                                         *)
(* A problem p: out (shape), ic, kh, kw, stride, elem, dataflow, cap       *)
(* (bytes for the resident operand, 0 = gb), gb (bytes, 0 = unbounded),    *)
(* resident (partial sums stay in the accumulator), buffers (1 or 2).      *)
(* MinTraffic and MinLatency are declared and throw: they are not here.    *)
(***************************************************************************)
EXTENDS LayerShape

InputExtent(t, p, kernel) == t * p.stride + kernel - 1
Footprint(p, h, w)        == InputExtent(h, p, p.kh) * InputExtent(w, p, p.kw) * p.ic * p.elem

\* tile_working_set_bytes: output, buffered input with halo, weights.
WorkingSet(p, h, w, c) ==
  h * w * c * p.elem + p.buffers * Footprint(p, h, w) + p.kh * p.kw * p.ic * c * p.elem

Found(p, h, w, c, bytes, tiles, fits) ==
  [h |-> h, w |-> w, c |-> c, bytes |-> bytes, tiles |-> tiles, fits |-> fits,
   cPasses |-> 1, spill |-> FALSE]
WholeLayer(p) ==
  Found(p, p.out.h, p.out.w, p.out.c, WorkingSet(p, p.out.h, p.out.w, p.out.c), 1, TRUE)

TileCount(p, h, w, c) == CeilDiv(p.out.h, h) * CeilDiv(p.out.w, w) * CeilDiv(p.out.c, c)

\* The tallest tile of a given width and depth: the cost is affine in the
\* height, so the source solves for it (slope a, offset b).
Tallest(limit, one, two, height) ==
  LET a == IF two > one THEN two - one ELSE 1
      b == IF one > a THEN one - a ELSE 0
  IN  IF limit <= b THEN 0 ELSE Least(height, (limit - b) \div a)

\* The best of a set of tiles: fewest of them, then the largest, then the
\* first the source's loops meet (depth, then width).
Best(p, tiles) ==
  CHOOSE t \in tiles : \A u \in tiles :
    LET n == TileCount(p, t.h, t.w, t.c)  m == TileCount(p, u.h, u.w, u.c)
        x == t.h * t.w * t.c              y == u.h * u.w * u.c
    IN  \/ n < m
        \/ n = m /\ x > y
        \/ n = m /\ x = y /\ (t.c < u.c \/ (t.c = u.c /\ t.w <= u.w))

SearchMinTiles(p) ==
  LET Height(w, c) == Tallest(p.gb, WorkingSet(p, 1, w, c), WorkingSet(p, 2, w, c), p.out.h)
      tiles == {[h |-> Height(w, c), w |-> w, c |-> c] : w \in 1 .. p.out.w, c \in 1 .. p.out.c}
      usable == {t \in tiles : t.h >= 1}
      \* A depth whose channel tiles alone are too many is passed over, also
      \* when a larger tile of it would tie.
      tried  == {t \in usable : \A u \in usable :
                   u.c < t.c => CeilDiv(p.out.c, t.c) < TileCount(p, u.h, u.w, u.c)}
      best   == Best(p, tried)
  IN  IF p.gb = 0 THEN WholeLayer(p)
      ELSE IF usable = {}
      THEN Found(p, 1, 1, 1, WorkingSet(p, 1, 1, 1), Volume(p.out), FALSE)
      ELSE Found(p, best.h, best.w, best.c, WorkingSet(p, best.h, best.w, best.c),
                 TileCount(p, best.h, best.w, best.c), TRUE)

ResidentCap(p) == IF p.cap > 0 THEN p.cap ELSE p.gb

\* Output-stationary: fill the accumulator with channels, then width, then height.
SearchOutputStationary(p, cap) ==
  LET budget == cap \div p.elem
      c == Most(1, Least(p.out.c, budget))
      w == Most(1, Least(p.out.w, budget \div c))
      h == Most(1, Least(p.out.h, budget \div (c * w)))
      bytes == h * w * c * p.elem
  IN  Found(p, h, w, c, bytes, TileCount(p, h, w, c), bytes <= cap)

\* Weight-stationary: as many output channels as the weight buffer holds, the
\* input channels split into passes when not even one fits.
SearchWeightStationary(p, cap) ==
  LET one    == p.kh * p.kw * p.ic * p.elem
      passes == IF one > cap THEN CeilDiv(one, cap) ELSE 1
      perC   == p.kh * p.kw * CeilDiv(p.ic, passes) * p.elem
      c      == Most(1, Least(p.out.c, cap \div perC))
  IN  [Found(p, p.out.h, p.out.w, c, perC * c, CeilDiv(p.out.c, c), perC * c <= cap)
         EXCEPT !.cPasses = passes, !.spill = passes > 1 /\ ~p.resident]

\* Input-stationary: the fewest spatial tiles whose input footprint fits.
SearchInputStationary(p, cap) ==
  LET tiles == {[h |-> Tallest(cap, Footprint(p, 1, w), Footprint(p, 2, w), p.out.h),
                 w |-> w, c |-> p.out.c] : w \in 1 .. p.out.w}
      usable == {t \in tiles : t.h >= 1}
      best   == Best(p, usable)
  IN  IF usable = {}
      THEN Found(p, 1, 1, p.out.c, Footprint(p, 1, 1), p.out.h * p.out.w, FALSE)
      ELSE Found(p, best.h, best.w, p.out.c, Footprint(p, best.h, best.w),
                 TileCount(p, best.h, best.w, p.out.c), TRUE)

SearchDataflow(p) ==
  LET cap == ResidentCap(p)
  IN  CASE cap = 0           -> WholeLayer(p)
        [] p.dataflow = "OS" -> SearchOutputStationary(p, cap)
        [] p.dataflow = "WS" -> SearchWeightStationary(p, cap)
        [] OTHER             -> SearchInputStationary(p, cap)

SearchOutputTile(p, strategy) ==
  IF strategy = "min_tiles" THEN SearchMinTiles(p) ELSE SearchDataflow(p)
=============================================================================
