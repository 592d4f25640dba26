------------------------------ MODULE EndToEnd ------------------------------
(***************************************************************************)
(* From the program to the traffic: the image one of the compiler's three  *)
(* entry points built is loaded by the NPU and executed, once or again, on *)
(* a machine that need not be the one it was compiled for.                 *)
(***************************************************************************)
EXTENDS Compiler, LayerExecution

systemVars == <<vars, execVars>>

SystemInit == Init /\ ExecInit

\* Compiling leaves the NPU alone; the NPU runs an image that is in memory.
BuildProgram == Next /\ UNCHANGED execVars
RunProgram ==
  /\ stage = "loaded" /\ whole
  /\ Execute \/ StartRun(image)
  /\ UNCHANGED vars

SystemNext == BuildProgram \/ RunProgram
SystemSpec == SystemInit /\ [][SystemNext]_systemVars

-----------------------------------------------------------------------------
\* The variables of both halves stay what the source declares them to be.
SystemTypeOK == TypeOK /\ ExecTypeOK

\* The compiler foresees the traffic: what a row's latency descriptor says a
\* layer fetches (set_tiled_latency_params) is what the tile executor fetches
\* (build_layer_schedule), partial sums apart, for each operand that both
\* stream with every tile, on a machine with the buffer and dataflow it was
\* compiled for.
CompiledFor(m, e, l) ==
  /\ m.gbKb = hw.l2kb /\ m.dataflow = hw.dataflow /\ m.weightGb = "dataflow" /\ ~m.spill
  /\ <<m.inKb, m.wtKb, m.outKb>> = <<0, 0, 0>> /\ m.ratio = [in |-> 1, wt |-> 1, out |-> 1]
  /\ e.spec.type \in TiledTypes \ {"MatMul"} /\ l.skip = 0 /\ l.ftype = l.type
  /\ <<l.tile.r, l.tile.c>> = <<Most(1, e.row["tile_h"]), Most(1, e.row["tile_w"])>>
CompilerForeseesTraffic ==
  tool = "csv" => \A v \in Range(trace) :
    LET e == Linked[v.first]  l == loader[v.first]
        spill == SpilledWords(PassesPerOutput(e.spec, SanitizePe(e.pe)),
                              Volume(OutputShape(e.spec)), SanitizePe(e.pe))
        Foreseen(words) == Physical(machine, words - spill)
    IN  v.source = "tiles" /\ CompiledFor(machine, e, l) =>
          /\ hw.dataflow # "IS" /\ ~Given(e.row, "f_i") => v.in = Foreseen(l.lat.fI)
          /\ hw.dataflow # "WS" /\ ~Given(e.row, "f_w") => v.wt = Foreseen(l.lat.fW)
=============================================================================
