----------------------------- MODULE LayerShape -----------------------------
(***************************************************************************)
(* Layers as the compiler describes them (LayerSpec, LayerGeometry): their *)
(* shapes, the size of their tensors, and the number of operations behind  *)
(* one output element.  Sizes are in 4-byte words: every size and address  *)
(* of the source is a multiple of sizeof(float), so counting words modulo  *)
(* 2^30 is counting bytes modulo 2^32, and stays inside TLC's integers.    *)
(*                                                                         *)
(* The source computes a layer's output shape in four places: the          *)
(* compiler, the CSV front end, the tile mathematics and (in line) the     *)
(* generator.  Each copy keeps its own definition, because they differ on  *)
(* MatMul and Reduction.                                                   *)
(***************************************************************************)
EXTENDS Integers, FiniteSetsExt

Windowed  == {"Conv2D", "DepthwiseConv2D", "Pooling"}
FuncTypes == Windowed \cup {"FullyConnected", "Activation", "MatMul", "ElementWise",
                            "Softmax", "LayerNorm", "Reduction", "Gather"}

\* FuncTypes only a packet's function descriptor can have: a layer read back
\* from one runs as another type (dnn_image_packet.cpp).
PacketOnlyTypes == {"Residual", "Concat", "Deconvolution", "Preprocess"}

Least(a, b)   == IF a <= b THEN a ELSE b
Most(a, b)    == IF a >= b THEN a ELSE b
CeilDiv(a, b) == (a + b - 1) \div b
WordSpace     == 2^30
Wrap(n)       == n % WordSpace

Shape(h, w, c) == [h |-> h, w |-> w, c |-> c]
Volume(s)      == s.h * s.w * s.c

(***************************************************************************)
(* A layer specification: type, stride, pad, dil, ih, iw, ic (input),      *)
(* kh, kw, kc, kn (kernel height, width, channels, count).                 *)
(***************************************************************************)
EffectiveKernel(k, dil)       == k + (k - 1) * (dil - 1)
WindowCount(extent, k, s)     ==
  (extent + 2 * s.pad - EffectiveKernel(k, s.dil)) \div s.stride + 1
WindowShape(s, channels)      ==
  Shape(WindowCount(s.ih, s.kh, s), WindowCount(s.iw, s.kw, s), channels)
InputShape(s)                 == Shape(s.ih, s.iw, s.ic)

\* The kernel fits the padded input: the unsigned subtraction above does not
\* wrap.  No run feeds a specification outside it.
KernelFits(s) ==
  s.type \in Windowed => /\ s.ih + 2 * s.pad >= EffectiveKernel(s.kh, s.dil)
                         /\ s.iw + 2 * s.pad >= EffectiveKernel(s.kw, s.dil)

WindowChannels(s) == IF s.type = "Conv2D" THEN s.kn ELSE s.ic

\* DnnImageCompiler::calculate_output_shape: MatMul keeps its input's shape.
CompilerOutputShape(s) ==
  CASE s.type \in Windowed         -> WindowShape(s, WindowChannels(s))
    [] s.type = "FullyConnected"   -> Shape(1, 1, s.kn)
    [] s.type = "Reduction"        -> Shape(s.ih, s.iw, 1)
    [] OTHER                       -> InputShape(s)

\* compute_output_shape of the CSV front end.
OutputShape(s) ==
  IF s.type = "MatMul" THEN Shape(s.ih, s.iw, IF s.kn > 0 THEN s.kn ELSE s.ic)
                       ELSE CompilerOutputShape(s)

\* The shape set_tiled_latency_params works with: defined for five types.
TiledTypes == Windowed \cup {"FullyConnected", "MatMul"}

\* kernel_bytes of the CSV front end, in words.
KernelWords(s) ==
  CASE s.type \in {"Conv2D", "DepthwiseConv2D"} -> s.kh * s.kw * s.kc * s.kn
    [] s.type \in {"FullyConnected", "MatMul"}  -> s.kc * s.kn
    [] OTHER                                    -> 0

\* Specifications of layers, and those with an input, a kernel that fits it and an
\* output: no run compiles a row or a network with another one.
LayerSpecs ==
  [type : FuncTypes, stride : Nat \ {0}, pad : Nat, dil : Nat \ {0}, ih : Nat, iw : Nat,
   ic : Nat, kh : Nat, kw : Nat, kc : Nat, kn : Nat]
LayerFits(s) ==
  /\ s \in LayerSpecs /\ KernelFits(s)
  /\ {s.ih, s.iw, s.ic, s.kh, s.kw, OutputShape(s).c} \subseteq Nat \ {0}

\* estimate_per_output_ops: operations behind one output element.
OpsPerOutput(s) ==
  CASE s.type = "Conv2D"                                          -> s.kh * s.kw * s.ic
    [] s.type \in {"DepthwiseConv2D", "Pooling"}                  -> s.kh * s.kw
    [] s.type \in {"FullyConnected", "Softmax", "LayerNorm",
                   "Reduction"}                                   -> s.ic
    [] s.type = "MatMul"                                          -> s.kc
    [] OTHER                                                      -> 1
=============================================================================
