-------------------------- MODULE NetworkGenerator --------------------------
(***************************************************************************)
(* DnnImageGenerator's built-in networks.  Each is a list of steps; a step *)
(* appends one layer behind the ones before it and places its tensors at   *)
(* the running address.  Nothing else in the repository calls them.        *)
(***************************************************************************)
EXTENDS LatencyParams, SequencesExt

\* A network under construction: addr (words), the shape the next layer
\* reads, the address of the last output, the layers.
Start(addr, h, w, c) ==
  [addr |-> addr, at |-> Shape(h, w, c), last |-> 0, layers |-> <<>>]

\* Steps.  chained: the layer reads the last output in place of a region of
\* its own.  aside: the layers after it read its input, not its output.
Step(type, k, stride, pad, n) ==
  [type |-> type, k |-> k, stride |-> stride, pad |-> pad, n |-> n,
   expand |-> 0, chained |-> FALSE, aside |-> FALSE, filters |-> FALSE]
Conv(k, stride, pad, n) == Step("Conv2D", k, stride, pad, n)
Expand(factor)          == [Conv(1, 1, 0, 0) EXCEPT !.expand = factor]
Depthwise(stride)       == Step("DepthwiseConv2D", 3, stride, 1, 1)
MaxPool                 == Step("Pooling", 3, 2, 1, 0)
GlobalPool              == Step("Pooling", 0, 1, 0, 0)      \* window: the input
ChainedPool             == [Step("Pooling", 2, 2, 0, 0) EXCEPT !.chained = TRUE, !.filters = TRUE]
Fc(n)                   == Step("FullyConnected", 1, 1, 0, n)
Chained(step)           == [step EXCEPT !.chained = TRUE]

StepSpec(step, at) ==
  LET kn == IF step.expand > 0 THEN at.c * step.expand ELSE step.n
  IN  [type |-> step.type, stride |-> step.stride, pad |-> step.pad, dil |-> 1,
       ih |-> at.h, iw |-> at.w, ic |-> at.c,
       kh |-> IF step.k = 0 THEN at.h ELSE step.k, kw |-> IF step.k = 0 THEN at.w ELSE step.k,
       kc |-> CASE step.type = "FullyConnected" -> Volume(at)
                [] step.type = "Pooling"        -> IF step.filters THEN at.c ELSE 0
                [] OTHER                        -> at.c,
       kn |-> IF step.type = "Pooling" /\ step.filters THEN at.c ELSE kn]

\* Weights as the steps allocate them (a pooling layer's address is 0).
StepWeights(spec) ==
  IF spec.type = "Pooling" THEN 0 ELSE spec.kh * spec.kw * spec.kc * spec.kn

AddStep(gen, net, step) ==
  LET spec  == StepSpec(step, net.at)
      in    == IF step.chained THEN net.last ELSE net.addr
      wt    == IF step.chained THEN net.addr ELSE Wrap(net.addr + Volume(net.at))
      out   == Wrap(wt + StepWeights(spec))
      shape == CompilerOutputShape(spec)
      layer == [spec |-> spec, in |-> in, wt |-> IF spec.type = "Pooling" THEN 0 ELSE wt,
                out |-> out, lat |-> GeneratorLatency(gen, spec, Len(net.layers))]
  IN  [addr |-> Wrap(out + Volume(shape)), at |-> IF step.aside THEN net.at ELSE shape,
       last |-> out, layers |-> Append(net.layers, layer)]

Concat(blocks)  == FlattenSeq(blocks)
Times(n, steps) == Concat([i \in 1 .. n |-> steps])

-----------------------------------------------------------------------------
\* Building blocks.
VggBlock(n, channels)              == Times(n, <<Conv(3, 1, 1, channels)>>) \o <<ChainedPool>>
SeparableBlock(channels, stride)   == <<Depthwise(stride), Conv(1, 1, 0, channels)>>
InvertedBlock(factor, channels, stride) ==
  (IF factor > 1 THEN <<Expand(factor)>> ELSE <<>>)
    \o <<Depthwise(stride), Conv(1, 1, 0, channels)>>
\* No network here changes the channels of a block that does not downsample.
ResidualBlock(channels, downsample) ==
  LET stride == IF downsample THEN 2 ELSE 1
  IN  (IF downsample THEN <<[Conv(1, stride, 0, channels) EXCEPT !.aside = TRUE]>> ELSE <<>>)
        \o <<Conv(3, stride, 1, channels), Conv(3, 1, 1, channels)>>

Vgg16(classes) ==
  Concat(<<VggBlock(2, 64), VggBlock(2, 128), VggBlock(3, 256), VggBlock(3, 512),
           VggBlock(3, 512), <<Fc(4096), Fc(4096), Fc(classes)>>>>)

MobileNetV1(classes) ==
  Concat(<<<<Conv(3, 2, 1, 32)>>, SeparableBlock(64, 1),
           SeparableBlock(128, 2), SeparableBlock(128, 1),
           SeparableBlock(256, 2), SeparableBlock(256, 1),
           SeparableBlock(512, 2), Times(5, SeparableBlock(512, 1)),
           SeparableBlock(1024, 2), SeparableBlock(1024, 1),
           <<GlobalPool, Fc(classes)>>>>)

InvertedStage(factor, channels, n, stride) ==
  InvertedBlock(factor, channels, stride) \o Times(n - 1, InvertedBlock(factor, channels, 1))
MobileNetV2(classes) ==
  Concat(<<<<Conv(3, 2, 1, 32)>>,
           InvertedStage(1, 16, 1, 1), InvertedStage(6, 24, 2, 2), InvertedStage(6, 32, 3, 2),
           InvertedStage(6, 64, 4, 2), InvertedStage(6, 96, 3, 1), InvertedStage(6, 160, 3, 2),
           InvertedStage(6, 320, 1, 1),
           <<Conv(1, 1, 0, 1280), GlobalPool, Fc(classes)>>>>)

ResNet18(classes) ==
  Concat(<<<<Conv(7, 2, 3, 64), MaxPool>>, Times(2, ResidualBlock(64, FALSE)),
           ResidualBlock(128, TRUE), ResidualBlock(128, FALSE),
           ResidualBlock(256, TRUE), ResidualBlock(256, FALSE),
           ResidualBlock(512, TRUE), ResidualBlock(512, FALSE),
           <<GlobalPool, Fc(classes)>>>>)

TestNetwork(classes) == <<Conv(3, 1, 1, 32), ChainedPool, Chained(Fc(classes))>>

\* VGG-19 and ResNet-50 are the smaller networks under another name.
NetworkNames == {"test", "single", "vgg16", "vgg19", "mobilenet_v1", "mobilenet_v2",
                 "resnet18", "resnet50"}
Steps(name, classes) ==
  CASE name \in {"vgg16", "vgg19"}       -> Vgg16(classes)
    [] name = "mobilenet_v1"             -> MobileNetV1(classes)
    [] name = "mobilenet_v2"             -> MobileNetV2(classes)
    [] name \in {"resnet18", "resnet50"} -> ResNet18(classes)
    [] name = "single"                   -> <<Conv(3, 1, 1, classes)>>
    [] OTHER                             -> TestNetwork(classes)

\* cfg: h, w, c (input), classes, base (words).  Two of the networks start at
\* address zero whatever the base.
StartOf(name, cfg) ==
  Start(IF name \in {"test", "single"} THEN 0 ELSE cfg.base, cfg.h, cfg.w, cfg.c)

\* The shapes the layers of a network read, one behind the other, and whether the
\* input is large enough for all of them.
ShapeBehind(step, at) == IF step.aside THEN at ELSE CompilerOutputShape(StepSpec(step, at))
ShapesAlong(steps, cfg) ==
  LET at[n \in 0 .. Len(steps)] ==
        IF n = 0 THEN Shape(cfg.h, cfg.w, cfg.c) ELSE ShapeBehind(steps[n], at[n - 1])
  IN  at
NetworkFits(name, cfg) ==
  LET steps == Steps(name, cfg.classes)
      at    == ShapesAlong(steps, cfg)
  IN  \A n \in DOMAIN steps : LayerFits(StepSpec(steps[n], at[n - 1]))

\* Where the last tensor of a network ends when no address wraps around.
StepWords(step, at) ==
  LET spec == StepSpec(step, at)
  IN  (IF step.chained THEN 0 ELSE Volume(at)) + StepWeights(spec)
        + Volume(CompilerOutputShape(spec))
NetworkEnd(name, cfg) ==
  LET steps == Steps(name, cfg.classes)
      at    == ShapesAlong(steps, cfg)
      end[n \in 0 .. Len(steps)] ==
        IF n = 0 THEN StartOf(name, cfg).addr ELSE end[n - 1] + StepWords(steps[n], at[n - 1])
  IN  end[Len(steps)]
=============================================================================
