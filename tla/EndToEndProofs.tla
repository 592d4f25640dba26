--------------------------- MODULE EndToEndProofs ---------------------------
(***************************************************************************)
(* Proofs about EndToEnd, for every program, machine and number of runs,   *)
(* and about the operators the compilers and the executor are built from.  *)
(***************************************************************************)
EXTENDS EndToEnd, QueueLemmas

----------------------------------------------------------------------------
(* What is served from the buffer is the latest value *)

\* What the packet of a history entry left in the buffer, and whether an entry finds
\* its input there.
OutputOf(e)   == loader[e.last].output
Serves(e, v)  ==
  /\ Within(loader[v.first].input, OutputOf(e).addr, OutputOf(e).words)
  /\ Physical(machine, OutputOf(e).words) <= GbBytes(machine)

\* The ledger is the output of the packet just before, if it holds any.
Ledger ==
  /\ trace \in Seq(Range(trace))
  /\ npu = "off" => trace = <<>> /\ retained = NothingRetained
  /\ retained.words > 0 =>
       /\ trace # <<>>
       /\ retained.addr = OutputOf(trace[Len(trace)]).addr
       /\ retained.words = OutputOf(trace[Len(trace)]).words
       /\ Physical(machine, retained.words) <= GbBytes(machine)

\* A packet visited: the ledger is its output, and if it was served from the
\* buffer, by the ledger as it was.
LEMMA VisitKeeps ==
  ASSUME Ledger, ForwardedIsLatest, npu' # "off", NEW e, trace' = Append(trace, e),
         machine' = machine, loader' = loader, retained' = LedgerAfter(machine, loader, next),
         e.last = GroupEnd(loader, next),
         e.source = "buffer" =>
           /\ retained.words > 0
           /\ Within(loader[e.first].input, retained.addr, retained.words)
  PROVE  Ledger' /\ ForwardedIsLatest'
<1> DEFINE S == Range(trace) \cup {e}
           n == Len(trace)
<1>1. trace \in Seq(S) /\ e \in S
  <2>1. trace \in Seq(Range(trace)) /\ Range(trace) \subseteq S /\ e \in S
    BY DEF Ledger
  <2> HIDE DEF S
  <2> QED
    BY <2>1
<1>2. /\ trace' \in Seq(S) /\ n \in Nat /\ Len(trace') = n + 1 /\ trace'[n + 1] = e
      /\ \A i \in 1 .. n : trace'[i] = trace[i]
  <2> HIDE DEF S
  <2> QED
    BY <1>1, AppendQueue
<1>3. DOMAIN trace' = 1 .. n + 1 /\ DOMAIN trace = 1 .. n
  <2> HIDE DEF S
  <2> QED
    BY <1>1, <1>2
<1>4. trace' \in Seq(Range(trace'))
  <2>1. \A i \in 1 .. Len(trace') : trace'[i] \in Range(trace')
    BY <1>2, <1>3 DEF Range
  <2> HIDE DEF S
  <2> QED
    BY <1>2, <1>3, <2>1
<1>5. retained'.words > 0 =>
        /\ trace' # <<>>
        /\ retained'.addr = OutputOf(e).addr /\ retained'.words = OutputOf(e).words
        /\ Physical(machine, retained'.words) <= GbBytes(machine)
  <2>1. trace' # <<>>
    BY <1>2
  <2>2. CASE Retainable(machine, loader[e.last].output)
    BY <2>1, <2>2 DEF LedgerAfter, OutputOf, Retainable
  <2>3. CASE ~Retainable(machine, loader[e.last].output)
    BY <2>3 DEF LedgerAfter, NothingRetained
  <2> QED
    BY <2>2, <2>3
<1>6. Ledger'
  BY <1>2, <1>4, <1>5 DEF Ledger, OutputOf
<1>7. ASSUME NEW i \in 1 .. n + 1, trace'[i].source = "buffer"
      PROVE  i > 1 /\ Serves(trace'[i - 1], trace'[i])
  <2>1. CASE i = n + 1
    <3>1. e.source = "buffer"
      BY <1>2, <1>7, <2>1
    <3>2. trace # <<>> /\ retained.words > 0
      BY <3>1 DEF Ledger
    <3>3. n > 0 /\ n \in 1 .. n
      BY <1>1, <1>2, <3>2
    <3>4. trace'[i - 1] = trace[n] /\ trace'[i] = e
      BY <1>2, <2>1, <3>3
    <3> QED
      BY <2>1, <3>1, <3>2, <3>3, <3>4 DEF Ledger, Serves, OutputOf
  <2>2. CASE i # n + 1
    <3>1. i \in 1 .. n /\ trace'[i] = trace[i]
      BY <1>2, <1>7, <2>2
    <3>2. i > 1 /\ Serves(trace[i - 1], trace[i])
      BY <1>3, <1>7, <3>1 DEF ForwardedIsLatest, Serves, OutputOf
    <3>3. i - 1 \in 1 .. n
      BY <1>2, <3>1, <3>2
    <3> QED
      BY <1>2, <3>1, <3>2, <3>3
  <2> QED
    BY <2>1, <2>2
<1>8. ForwardedIsLatest'
  BY <1>3, <1>7 DEF ForwardedIsLatest, Serves, OutputOf
<1> QED
  BY <1>6, <1>8

LEMMA ExecuteKeeps ==
  ASSUME Ledger, ForwardedIsLatest, Execute
  PROVE  Ledger' /\ ForwardedIsLatest'
<1>1. ASSUME NEW m \in Machines, PowerOn(m) PROVE Ledger' /\ ForwardedIsLatest'
  <2>1. trace = <<>> /\ retained = NothingRetained /\ trace' = <<>> /\ retained' = NothingRetained
    BY <1>1 DEF PowerOn, Ledger
  <2> QED
    BY <2>1 DEF Ledger, ForwardedIsLatest, NothingRetained
<1>2. CASE Reset \/ Finish
  BY <1>2 DEF Reset, Finish, Ledger, ForwardedIsLatest, OutputOf
<1>3. CASE RunFused
  <2> DEFINE e == [[Unmoved EXCEPT !.source = "fused"]
                     EXCEPT !.first = next, !.last = GroupEnd(loader, next)]
  <2>1. /\ e.source = "fused" /\ e.last = GroupEnd(loader, next)
    BY DEF Unmoved
  <2>2. trace' = Append(trace, e) /\ npu' # "off"
    BY <1>3 DEF RunFused, Visit, Running
  <2> HIDE DEF e
  <2> QED
    BY <1>3, <2>1, <2>2, VisitKeeps DEF RunFused
<1>4. CASE RunTiled
  <2>1. PICK x \in {Total(Current.lat, LayerSchedule(machine, Current, retained))} :
          Visit([Unmoved EXCEPT !.source = IF x.forwarded > 0 THEN "buffer" ELSE "tiles",
                                !.in = x.in, !.wt = x.wt, !.out = x.out,
                                !.rolled = x.forwarded, !.emits = x.emits])
    BY <1>4 DEF RunTiled
  <2> DEFINE u == [Unmoved EXCEPT !.source = IF x.forwarded > 0 THEN "buffer" ELSE "tiles",
                                  !.in = x.in, !.wt = x.wt, !.out = x.out,
                                  !.rolled = x.forwarded, !.emits = x.emits]
             e == [u EXCEPT !.first = next, !.last = GroupEnd(loader, next)]
  <2>2. /\ e.source = "buffer" => x.forwarded > 0
        /\ e.first = next /\ e.last = GroupEnd(loader, next)
    BY DEF Unmoved
  <2>3. trace' = Append(trace, e) /\ npu' # "off"
    BY <1>4, <2>1 DEF RunTiled, Visit, Running
  <2>4. x.forwarded > 0 => /\ retained.words > 0
                           /\ Within(loader[next].input, retained.addr, retained.words)
    <3>1. x.forwarded = LayerSchedule(machine, Current, retained).forwarded
      BY DEF Total
    <3> DEFINE cut   == RunCut(machine, Current)
               sched == Tabulated(Schedule(cut))
               ws    == KernelWorkingSet(machine, cut, sched)
               kept  == KeptResidency(machine, Current, InputWorkingSet(machine, cut, sched), ws)
    <3>2. x.forwarded > 0 => Forwardable(machine, Current, retained, kept, ws)
      <4>1. x.forwarded = ScheduleKeeping(machine, Current, retained, cut, sched, kept).forwarded
        BY <3>1 DEF LayerSchedule, ScheduleOf
      <4> HIDE DEF cut, sched, kept
      <4>2. CASE ~Forwardable(machine, Current, retained, kept, ws)
        BY <4>1, <4>2 DEF ScheduleKeeping, Forwarded
      <4> QED
        BY <4>2
    <3> HIDE DEF kept, ws
    <3> QED
      BY <3>2 DEF Forwardable, Current
  <2> HIDE DEF e, u
  <2> QED
    BY <1>4, <2>2, <2>3, <2>4, VisitKeeps DEF RunTiled
<1>5. ASSUME NEW r, RunStreamed(r) PROVE Ledger' /\ ForwardedIsLatest'
  <2> DEFINE Streamed(in, out, served, skip) ==
        [Unmoved EXCEPT !.source = IF Current.i1FromPacket THEN "packet" ELSE "stream",
                        !.in = in, !.out = out, !.served = served, !.skipped = skip]
  <2>1. PICK in, out, served, skip : Visit(Streamed(in, out, served, skip))
    BY <1>5 DEF RunStreamed
  <2> DEFINE e == [Streamed(in, out, served, skip)
                     EXCEPT !.first = next, !.last = GroupEnd(loader, next)]
  <2>2. e.source # "buffer" /\ e.last = GroupEnd(loader, next)
    BY DEF Unmoved
  <2>3. trace' = Append(trace, e)
    BY <2>1 DEF Visit
  <2>4. /\ npu' # "off" /\ machine' = machine /\ loader' = loader
        /\ retained' = LedgerAfter(machine, loader, next)
    BY <1>5 DEF RunStreamed
  <2> HIDE DEF e, Streamed
  <2> QED
    BY <2>2, <2>3, <2>4, VisitKeeps
<1> QED
  BY <1>1, <1>2, <1>3, <1>4, <1>5 DEF Execute

\* An input served from the global buffer is a part of what the packet just before left there:
\* the ledger (retained_out_addr_ of npu_controller_tile.cpp) is never a packet behind, on
\* either path, and a START forgets it.
THEOREM ForwardedAlwaysLatest == SystemSpec => []ForwardedIsLatest
<1> DEFINE Inv == Ledger /\ ForwardedIsLatest
<1>1. SystemInit => Inv
  BY DEF SystemInit, ExecInit, Ledger, ForwardedIsLatest, NothingRetained
<1>2. Inv /\ [SystemNext]_systemVars => Inv'
  <2> SUFFICES ASSUME Inv, [SystemNext]_systemVars PROVE Inv'
    OBVIOUS
  <2>1. CASE UNCHANGED execVars
    BY <2>1 DEF execVars, Ledger, ForwardedIsLatest, OutputOf
  <2>2. CASE Execute
    BY <2>2, ExecuteKeeps
  <2>3. CASE StartRun(image)
    <3>1. trace' = <<>> /\ retained' = NothingRetained /\ npu' # "off"
      BY <2>3 DEF StartRun
    <3> QED
      BY <3>1 DEF Ledger, ForwardedIsLatest, NothingRetained
  <2> QED
    BY <2>1, <2>2, <2>3 DEF SystemNext, BuildProgram, RunProgram, systemVars
<1> QED
  BY <1>1, <1>2, PTL DEF SystemSpec

----------------------------------------------------------------------------
(* Nothing runs over the end of the buffer *)

\* Transfers that stay within the buffer, and the state of a streamed layer's fetch.
Fitting(m) ==
  {t \in [addr : Int, size : Int, off : Int] : 0 <= t.size /\ t.off <= GbBytes(m) /\ t.off + t.size <= GbBytes(m)}
Fetching(m, in, wt) ==
  [in : 0 .. in, wt : 0 .. wt, off : 0 .. GbBytes(m), inputTurn : BOOLEAN,
   transfers : Seq(Fitting(m))]

\* A nonempty set of integers up to b has a greatest element.
LEMMA MaxIn ==
  ASSUME NEW a \in Int, NEW b \in Int, NEW T, T \subseteq a .. b, T # {}
  PROVE  Max(T) \in T /\ \A x \in T : x <= Max(T)
<1> DEFINE D == {b - x : x \in T}
<1>1. D \subseteq Nat /\ D # {}
  <2>1. \A x \in T : x \in a .. b
    OBVIOUS
  <2>2. \A x \in T : b - x \in Nat
    BY <2>1
  <2> QED
    BY <2>2
<1>2. PICK d \in D : \A y \in D : d <= y
  <2> HIDE DEF D
  <2> QED
    BY <1>1, LeastNatural
<1>3. PICK x \in T : d = b - x
  OBVIOUS
<1>4. \A y \in T : x >= y
  <2> SUFFICES ASSUME NEW y \in T PROVE x >= y
    OBVIOUS
  <2>1. d <= b - y /\ x \in Int /\ y \in Int
    BY <1>2
  <2> QED
    BY <1>3, <2>1
<1>5. Max(T) \in T /\ \A y \in T : Max(T) >= y
  BY <1>4 DEF Max
<1> QED
  BY <1>5

Concatenates(S) == \A x, y \in S : x \o y \in S

\* The function FlattenSeq defines.
Concatenations(ss, z) ==
  CHOOSE f : f = [i \in 1 .. z |-> IF i = 1 THEN ss[i] ELSE f[i - 1] \o ss[i]]

\* Flattening joins the sequences one after the other.
LEMMA FlattenUnfolds ==
  ASSUME NEW S, Concatenates(S), NEW ss, NEW z \in Nat, z # 0, \A i \in 1 .. z : ss[i] \in S
  PROVE  \A i \in 1 .. z : Concatenations(ss, z)[i] =
                             IF i = 1 THEN ss[i] ELSE Concatenations(ss, z)[i - 1] \o ss[i]
<1>1. z - 1 \in Nat
  OBVIOUS
<1> DEFINE Body(f) == [i \in 1 .. z |-> IF i = 1 THEN ss[i] ELSE f[i - 1] \o ss[i]]
           flatten == CHOOSE f : f = Body(f)
           g == [n \in 1 .. z - 1 |-> [s \in S |-> s \o ss[n + 1]]]
<1>2. Concatenations(ss, z) = flatten
  BY DEF Concatenations
<1> HIDE DEF flatten
<1>3. g \in [1 .. z - 1 -> [S -> S]]
  <2> DEFINE Join(n) == [s \in S |-> s \o ss[n + 1]]
  <2>1. \A n \in 1 .. z - 1 : Join(n) \in [S -> S]
    <3>1. \A n \in 1 .. z - 1 : ss[n + 1] \in S
      OBVIOUS
    <3> QED
      BY <3>1 DEF Concatenates
  <2>2. g = [n \in 1 .. z - 1 |-> Join(n)]
    OBVIOUS
  <2> HIDE DEF g, Join
  <2> QED
    BY <2>1, <2>2
<1>4. ss[1] \in S
  OBVIOUS
<1>5. PICK u \in [0 .. z - 1 -> S] : u[0] = ss[1] /\ \A n \in 1 .. z - 1 : u[n] = g[n][u[n - 1]]
  <2>1. PICK k \in Nat : k = z - 1
    BY <1>1
  <2>2. PICK b \in S : b = ss[1]
    BY <1>4
  <2> HIDE DEF g, Body
  <2>3. k \in Nat /\ b \in S /\ g \in [1 .. k -> [S -> S]]
    BY <1>3, <2>1
  <2>4. \E u \in [0 .. k -> S] : u[0] = b /\ \A n \in 1 .. k : u[n] = g[n][u[n - 1]]
    BY <2>3, StepsCompose
  <2> QED
    BY <2>1, <2>2, <2>4
<1> DEFINE w == [i \in 1 .. z |-> u[i - 1]]
<1>6. ASSUME NEW i \in 1 .. z PROVE w[i] = IF i = 1 THEN ss[i] ELSE w[i - 1] \o ss[i]
  <2>1. CASE i = 1
    BY <1>5, <2>1
  <2>2. CASE i # 1
    <3>1. i - 1 \in 1 .. z - 1 /\ i - 1 \in 1 .. z /\ (i - 1) - 1 \in 0 .. z - 1 /\ (i - 1) + 1 = i
      BY <2>2
    <3>2. u[(i - 1) - 1] \in S
      BY <3>1
    <3>3. u[i - 1] = u[(i - 1) - 1] \o ss[i]
      BY <1>5, <3>1, <3>2
    <3> QED
      BY <2>2, <3>1, <3>3
  <2> QED
    BY <2>1, <2>2
<1> HIDE DEF w
<1>7. w = Body(w)
  <2>1. w = [i \in 1 .. z |-> w[i]]
    BY DEF w
  <2> QED
    BY <1>6, <2>1
<1>8. flatten = Body(flatten)
  <2> HIDE DEF Body
  <2> QED
    BY <1>7 DEF flatten
<1>9. \A i \in 1 .. z : flatten[i] = IF i = 1 THEN ss[i] ELSE flatten[i - 1] \o ss[i]
  <2> DEFINE f == flatten
  <2>1. f = Body(f)
    BY <1>8
  <2> HIDE DEF f
  <2>2. \A i \in 1 .. z : f[i] = IF i = 1 THEN ss[i] ELSE f[i - 1] \o ss[i]
    BY <2>1
  <2> QED
    BY <2>2 DEF f
<1> QED
  BY <1>2, <1>9

\* Sequences of a set that concatenation does not leave flatten to one of them.
LEMMA FlattenedStays ==
  ASSUME NEW S, Concatenates(S), NEW ss, NEW z \in Nat, z # 0, \A i \in 1 .. z : ss[i] \in S
  PROVE  Concatenations(ss, z)[z] \in S
<1> DEFINE flatten == Concatenations(ss, z)
<1>1. z - 1 \in Nat
  OBVIOUS
<1>4. ss[1] \in S
  OBVIOUS
<1>9. \A i \in 1 .. z : flatten[i] = IF i = 1 THEN ss[i] ELSE flatten[i - 1] \o ss[i]
  BY FlattenUnfolds
<1> HIDE DEF flatten
<1> DEFINE h == [n \in 0 .. z - 1 |-> flatten[n + 1]]
<1>10. h[0] \in S
  <2>1. 1 \in 1 .. z /\ 0 \in 0 .. z - 1
    OBVIOUS
  <2> QED
    BY <1>4, <1>9, <2>1
<1>11. ASSUME NEW n \in 1 .. z - 1, h[n - 1] \in S PROVE h[n] \in S
  <2>1. n + 1 \in 1 .. z /\ n + 1 # 1 /\ n \in 0 .. z - 1 /\ n - 1 \in 0 .. z - 1 /\ (n + 1) - 1 = n
        /\ (n - 1) + 1 = n
    OBVIOUS
  <2>2. flatten[n + 1] = flatten[n] \o ss[n + 1]
    BY <1>9, <2>1
  <2>3. ss[n + 1] \in S /\ flatten[n] \in S
    BY <1>11, <2>1
  <2>4. flatten[n] \o ss[n + 1] \in S /\ h[n] = flatten[n + 1]
    BY <2>1, <2>3 DEF Concatenates
  <2> HIDE DEF h
  <2> QED
    BY <2>2, <2>4
<1>12. h[z - 1] \in S
  <2> HIDE DEF h
  <2>1. \A n \in 0 .. z - 1 : h[n] \in S
    BY <1>1, <1>10, <1>11, StaysIn
  <2> QED
    BY <1>1, <2>1
<1>13. h[z - 1] = flatten[z]
  BY <1>1
<1> QED
  BY <1>12, <1>13 DEF flatten

LEMMA FlattenedOf ==
  ASSUME NEW S, Concatenates(S), NEW ss \in Seq(S), ss = <<>> => <<>> \in S
  PROVE  FlattenSeq(ss) \in S
<1>1. CASE Len(ss) = 0
  BY <1>1 DEF FlattenSeq
<1>2. CASE Len(ss) # 0
  <2>1. Len(ss) \in Nat /\ \A i \in 1 .. Len(ss) : ss[i] \in S
    OBVIOUS
  <2>2. Concatenations(ss, Len(ss))[Len(ss)] \in S
    BY <1>2, <2>1, FlattenedStays
  <2>3. FlattenSeq(ss) = Concatenations(ss, Len(ss))[Len(ss)]
    BY <1>2 DEF FlattenSeq, Concatenations
  <2> QED
    BY <2>2, <2>3
<1> QED
  BY <1>1, <1>2

LEMMA FlattenedIn ==
  ASSUME NEW T, NEW ss \in Seq(Seq(T))
  PROVE  FlattenSeq(ss) \in Seq(T)
<1>1. Concatenates(Seq(T)) /\ <<>> \in Seq(T)
  BY DEF Concatenates
<1> QED
  BY <1>1, FlattenedOf

LEMMA CeilDivNat ==
  ASSUME NEW a \in Nat, NEW b \in Nat \ {0}
  PROVE  CeilDiv(a, b) \in Nat
BY DEF CeilDiv

LEMMA Sizes ==
  ASSUME NEW m \in Machines
  PROVE  /\ GbBytes(m) \in Nat \ {0} /\ m.burst \in Nat
         /\ \A n \in Nat : Physical(m, n) \in Nat
<1>1. m.gbKb \in Nat \ {0} /\ m.elem \in Nat /\ m.burst \in Nat
  BY ExecutionAssumption
<1>2. \A n \in Nat : Physical(m, n) \in Nat
  BY <1>1 DEF Physical
<1>3. GbBytes(m) \in Nat \ {0}
  BY <1>1 DEF GbBytes
<1> QED
  BY <1>1, <1>2, <1>3

LEMMA FittingStays ==
  ASSUME NEW m \in Machines, NEW t \in Fitting(m)
  PROVE  ~Overflows(m, t)
<1>1. GbBytes(m) \in Nat
  BY Sizes
<1>2. t.off \in Int /\ t.size \in Int /\ t.off <= GbBytes(m) /\ t.off + t.size <= GbBytes(m)
  BY DEF Fitting
<1> QED
  BY <1>1, <1>2 DEF Overflows

LEMMA ChunkPositive ==
  ASSUME NEW m \in Machines, NEW in \in Nat, NEW wt \in Nat
  PROVE  ChunkSize(m, in, wt) \in Nat \ {0}
<1> DEFINE half == Most(GbBytes(m) \div 2, 1)
           most == Most(in, wt)
<1>1. GbBytes(m) \in Nat \ {0} /\ m.burst \in Nat
  BY Sizes
<1>2. half \in Nat /\ most \in Nat
  BY <1>1 DEF Most
<1> HIDE DEF half, most
<1>3. Least(Least(half, most), m.burst) \in Nat
  BY <1>1, <1>2 DEF Least
<1> QED
  BY <1>1, <1>3 DEF ChunkSize, half, most

\* A chunk ends where the buffer ends, or before.
LEMMA ChunkFits ==
  ASSUME NEW m \in Machines, NEW l, NEW in \in Nat, NEW wt \in Nat, NEW s \in Fetching(m, in, wt),
         l.input.addr \in Nat, l.weight.addr \in Nat
  PROVE  StreamStep(m, l, in, wt, s) \in Fetching(m, in, wt)
<1> DEFINE isInput == IF s.inputTurn THEN s.in < in ELSE ~(s.wt < wt)
           off  == IF s.off >= GbBytes(m) THEN 0 ELSE s.off
           rest == IF isInput THEN in - s.in ELSE wt - s.wt
           size == Least(Least(ChunkSize(m, in, wt), rest), GbBytes(m) - off)
           addr == IF isInput THEN 4 * l.input.addr + s.in ELSE 4 * l.weight.addr + s.wt
           t == [addr |-> addr, size |-> size, off |-> off]
<1>1. GbBytes(m) \in Nat \ {0} /\ ChunkSize(m, in, wt) \in Nat
  BY Sizes, ChunkPositive
<1>2. /\ s.in \in 0 .. in /\ s.wt \in 0 .. wt /\ s.off \in 0 .. GbBytes(m) /\ s.inputTurn \in BOOLEAN
      /\ s.transfers \in Seq(Fitting(m))
  BY DEF Fetching
<1>3. addr \in Int
  <2>1. 4 * l.input.addr + s.in \in Int /\ 4 * l.weight.addr + s.wt \in Int
    BY <1>2, SMTT(30)
  <2> QED
    BY <2>1
<1>4. off \in 0 .. GbBytes(m)
  BY <1>1, <1>2
<1>5. rest \in Nat
  <2>1. in - s.in \in Nat /\ wt - s.wt \in Nat
    BY <1>2
  <2> QED
    BY <2>1
<1>9. StreamStep(m, l, in, wt, s) =
        [in |-> s.in + (IF isInput THEN size ELSE 0), wt |-> s.wt + (IF isInput THEN 0 ELSE size),
         off |-> off + size, inputTurn |-> ~s.inputTurn, transfers |-> Append(s.transfers, t)]
  BY DEF StreamStep
<1>12. rest = IF isInput THEN in - s.in ELSE wt - s.wt
  OBVIOUS
<1> HIDE DEF addr, off, rest, isInput
<1>6. size \in Nat /\ size <= rest /\ off + size <= GbBytes(m)
  <2> DEFINE chunk == Least(ChunkSize(m, in, wt), rest)
             room  == GbBytes(m) - off
  <2>1. size = Least(chunk, room)
    OBVIOUS
  <2>2. chunk \in Nat /\ chunk <= rest
    BY <1>1, <1>5 DEF Least
  <2>3. room \in Nat /\ off + room = GbBytes(m) /\ off \in Nat
    BY <1>1, <1>4
  <2> HIDE DEF chunk, room, size
  <2>4. size \in Nat /\ size <= chunk /\ size <= room
    BY <2>1, <2>2, <2>3 DEF Least
  <2> QED
    BY <1>5, <2>2, <2>3, <2>4
<1> HIDE DEF size
<1>7. t \in Fitting(m)
  BY <1>1, <1>3, <1>4, <1>6 DEF Fitting
<1>8. Append(s.transfers, t) \in Seq(Fitting(m))
  <2> DEFINE T == Fitting(m)
  <2>1. t \in T /\ s.transfers \in Seq(T)
    BY <1>2, <1>7
  <2> HIDE DEF t, T
  <2>2. Append(s.transfers, t) \in Seq(T)
    BY <2>1
  <2> QED
    BY <2>2 DEF T
<1> HIDE DEF t
<1>10. /\ s.in + (IF isInput THEN size ELSE 0) \in 0 .. in
       /\ s.wt + (IF isInput THEN 0 ELSE size) \in 0 .. wt
       /\ off + size \in 0 .. GbBytes(m)
  <2>1. off + size \in 0 .. GbBytes(m)
    BY <1>1, <1>4, <1>6
  <2>2. s.in \in Int /\ s.wt \in Int /\ s.in >= 0 /\ s.in <= in /\ s.wt >= 0 /\ s.wt <= wt
    BY <1>2
  <2>3. s.in + (IF isInput THEN size ELSE 0) \in 0 .. in
    <3>1. CASE isInput
      <4>1. size <= in - s.in
        BY <1>6, <1>12, <3>1
      <4>2. s.in + size \in 0 .. in
        BY <1>6, <2>2, <4>1
      <4> QED
        BY <3>1, <4>2
    <3>2. CASE ~isInput
      BY <2>2, <3>2
    <3> QED
      BY <3>1, <3>2
  <2>4. s.wt + (IF isInput THEN 0 ELSE size) \in 0 .. wt
    <3>1. CASE ~isInput
      <4>1. size <= wt - s.wt
        BY <1>6, <1>12, <3>1
      <4>2. s.wt + size \in 0 .. wt
        BY <1>6, <2>2, <4>1
      <4> QED
        BY <3>1, <4>2
    <3>2. CASE isInput
      BY <2>2, <3>2
    <3> QED
      BY <3>1, <3>2
  <2> QED
    BY <2>1, <2>3, <2>4
<1>11. (~s.inputTurn) \in BOOLEAN
  BY <1>2
<1> QED
  BY <1>8, <1>9, <1>10, <1>11 DEF Fetching

\* Every piece but the first starts where there is something left.
LEMMA PiecesWithin ==
  ASSUME NEW a \in Int, NEW b \in Nat \ {0}, NEW k \in 1 .. CeilDiv(a, b)
  PROVE  k \in Nat \ {0} /\ (k - 1) * b \in Nat /\ (k - 1) * b <= a
<1> DEFINE q == (a + b - 1) \div b
           r == (a + b - 1) % b
<1>1. q \in Int /\ r \in 0 .. b - 1 /\ a + b - 1 = b * q + r
  <2>1. (a + b) - 1 \in Int
    OBVIOUS
  <2> QED
    BY <2>1
<1>2. CeilDiv(a, b) = q
  BY DEF CeilDiv
<1> HIDE DEF q, r
<1>3. k \in Nat \ {0} /\ k <= q
  BY <1>1, <1>2
<1>4. b * (k - 1) <= b * (q - 1) /\ b * (k - 1) \in Nat /\ b * (q - 1) \in Int
  <2>1. k - 1 \in Nat /\ q - 1 \in Int /\ k - 1 <= q - 1
    BY <1>1, <1>3
  <2> DEFINE x == k - 1  y == q - 1
  <2> HIDE DEF x, y
  <2>2. x \in Nat /\ y \in Int /\ x <= y
    BY <2>1 DEF x, y
  <2>3. b * x <= b * y /\ b * x \in Nat /\ b * y \in Int
    BY <2>2
  <2> QED
    BY <2>3 DEF x, y
<1>5. b * (q - 1) = b * q - b /\ b * q \in Int
  BY <1>1
<1>6. b * (q - 1) <= a
  BY <1>1, <1>5
<1>7. (k - 1) * b = b * (k - 1)
  BY <1>3
<1> QED
  BY <1>3, <1>4, <1>6, <1>7

\* What a streamed layer reads fits, chunk by chunk.
LEMMA ReadsFit ==
  ASSUME NEW m \in Machines, NEW l, LayerOK(l)
  PROVE  StreamReads(m, l) \in Seq(Fitting(m))
<1> DEFINE in == Physical(m, EffectiveInput(l))
           wt == Physical(m, l.weight.words)
           begun == [in |-> 0, wt |-> 0, off |-> 0, inputTurn |-> TRUE, transfers |-> <<>>]
           Done(s) == s.in = in /\ s.wt = wt
           enough == CeilDiv(in, ChunkSize(m, in, wt)) + CeilDiv(wt, ChunkSize(m, in, wt))
                     + CeilDiv(in + wt, GbBytes(m))
           Onward(s) == IF Done(s) THEN s ELSE StreamStep(m, l, in, wt, s)
           Body(f) == [n \in 0 .. enough |-> IF n = 0 THEN begun ELSE Onward(f[n - 1])]
           after == CHOOSE f : f = Body(f)
<1>1. StreamReads(m, l) = after[enough].transfers
  BY DEF StreamReads
<1>0. /\ l.input.words \in Nat /\ l.weight.words \in Nat
      /\ l.input.addr \in Nat /\ l.weight.addr \in Nat
  BY DEF LayerOK, TensorOK
<1>2. in \in Nat /\ wt \in Nat
  BY <1>0, Sizes DEF EffectiveInput
<1>3. enough \in Nat
  <2> HIDE DEF in, wt
  <2>1. in + wt \in Nat
    BY <1>2
  <2>2. /\ CeilDiv(in, ChunkSize(m, in, wt)) \in Nat /\ CeilDiv(wt, ChunkSize(m, in, wt)) \in Nat
        /\ CeilDiv(in + wt, GbBytes(m)) \in Nat
    BY <1>2, <2>1, Sizes, ChunkPositive, CeilDivNat
  <2> QED
    BY <2>2
<1> HIDE DEF enough, in, wt
<1>4. begun \in Fetching(m, in, wt)
  BY <1>2, Sizes DEF Fetching
<1>5. \A s \in Fetching(m, in, wt) : Onward(s) \in Fetching(m, in, wt)
  BY <1>0, <1>2, ChunkFits
<1> DEFINE S == Fetching(m, in, wt)
<1> HIDE DEF begun, Onward, after, S
<1>6. after = Body(after)
  <2> DEFINE g == [n \in 1 .. enough |-> [s \in S |-> Onward(s)]]
  <2>1. g \in [1 .. enough -> [S -> S]]
    BY <1>5 DEF S
  <2>2. PICK z \in Nat : z = enough
    BY <1>3
  <2>3. PICK b \in S : b = begun
    BY <1>4 DEF S
  <2>4. PICK u \in [0 .. z -> S] : u[0] = b /\ \A n \in 1 .. z : u[n] = g[n][u[n - 1]]
    <3> HIDE DEF g, Body
    <3>1. z \in Nat /\ b \in S /\ g \in [1 .. z -> [S -> S]]
      BY <2>1, <2>2
    <3> QED
      BY <3>1, StepsCompose
  <2>5. ASSUME NEW n \in 0 .. enough PROVE u[n] = IF n = 0 THEN begun ELSE Onward(u[n - 1])
    <3>1. CASE n = 0
      BY <2>3, <2>4, <3>1
    <3>2. CASE n # 0
      <4>1. n \in 1 .. z /\ n - 1 \in 0 .. z
        BY <2>2, <3>2
      <4>2. u[n - 1] \in S /\ u[n] = g[n][u[n - 1]]
        BY <2>4, <4>1
      <4> QED
        BY <2>2, <3>2, <4>1, <4>2
    <3> QED
      BY <3>1, <3>2
  <2>6. u = [n \in 0 .. enough |-> u[n]]
    BY <2>2
  <2>7. u = Body(u)
    BY <2>5, <2>6
  <2> HIDE DEF Body
  <2> QED
    BY <2>7 DEF after
<1>7. \A n \in 0 .. enough : after[n] = IF n = 0 THEN begun ELSE Onward(after[n - 1])
  BY <1>6
<1>8. after[0] \in S
  BY <1>3, <1>4, <1>7 DEF S
<1>9. ASSUME NEW n \in 1 .. enough, after[n - 1] \in S PROVE after[n] \in S
  <2>1. n \in 0 .. enough /\ n # 0
    BY <1>3
  <2> QED
    BY <1>5, <1>7, <1>9, <2>1 DEF S
<1>10. after[enough] \in S
  <2>1. \A n \in 0 .. enough : after[n] \in S
    <3> HIDE DEF Body
    <3> QED
      BY <1>3, <1>8, <1>9, StaysIn
  <2> QED
    BY <1>3, <2>1
<1>11. after[enough].transfers \in Seq(Fitting(m))
  <2> HIDE DEF Body
  <2> QED
    BY <1>10 DEF S, Fetching
<1> QED
  BY <1>1, <1>11

\* What it writes leaves through a region that ends with the buffer.
LEMMA WritesFit ==
  ASSUME NEW m \in Machines, NEW f, LayerOK(f), NEW reserved \in Nat
  PROVE  StreamWrites(m, f, WriteRegion(m, reserved)) \in Seq(Fitting(m))
<1> DEFINE region == WriteRegion(m, reserved)
           bytes == Physical(m, EffectiveOutput(f))
           n == CeilDiv(bytes, region.size)
           Piece(k) == [addr |-> 4 * f.output.addr + (k - 1) * region.size,
                        size |-> Least(region.size, bytes - (k - 1) * region.size),
                        off |-> region.base]
<1>1. GbBytes(m) \in Nat \ {0}
  BY Sizes
<1>2. region.base \in Nat /\ region.size \in Nat \ {0} /\ region.base + region.size = GbBytes(m)
  <2>1. Least(reserved, GbBytes(m)) \in Nat /\ Least(reserved, GbBytes(m)) <= GbBytes(m)
    BY <1>1 DEF Least
  <2> QED
    BY <1>1, <2>1 DEF WriteRegion
<1>3. bytes \in Nat /\ f.output.addr \in Nat
  BY Sizes DEF LayerOK, TensorOK, EffectiveOutput
<1> HIDE DEF region, bytes
<1>4. n \in Nat
  BY <1>2, <1>3, CeilDivNat
<1>5. ASSUME NEW k \in 1 .. n PROVE Piece(k) \in Fitting(m)
  <2>1. k \in Int /\ k - 1 \in Int
    BY <1>4
  <2>2. PICK skipped \in Int : skipped = (k - 1) * region.size
    BY <1>2, <2>1
  <2>3. 4 * f.output.addr + skipped \in Int
    BY <1>3
  <2>4. Least(region.size, bytes - skipped) \in Nat /\ Least(region.size, bytes - skipped) <= region.size
    <3>1. skipped <= bytes
      BY <1>2, <1>3, <2>2, PiecesWithin
    <3>2. bytes - skipped \in Nat
      BY <1>3, <3>1
    <3> QED
      BY <1>2, <3>2 DEF Least
  <2>5. Piece(k) = [addr |-> 4 * f.output.addr + skipped, size |-> Least(region.size, bytes - skipped),
                    off |-> region.base]
    BY <2>2
  <2>6. /\ region.base \in Int /\ region.base <= GbBytes(m)
        /\ region.base + Least(region.size, bytes - skipped) <= GbBytes(m)
    BY <1>1, <1>2, <2>4
  <2> HIDE DEF Piece
  <2> QED
    BY <2>3, <2>4, <2>5, <2>6 DEF Fitting
<1>6. StreamWrites(m, f, WriteRegion(m, reserved)) = [k \in 1 .. n |-> Piece(k)]
  BY DEF StreamWrites, region, bytes
<1> HIDE DEF Piece, n
<1>7. [k \in 1 .. n |-> Piece(k)] \in Seq(Fitting(m))
  BY <1>4, <1>5
<1> QED
  BY <1>6, <1>7

\* A packet ends where it starts or later, within the network.
LEMMA GroupIsAhead ==
  ASSUME NEW L, NEW z \in Nat, z = Len(L), NEW i \in 1 .. z
  PROVE  GroupEnd(L, i) \in i .. z
<1> DEFINE T == {j \in i .. z : \A k \in i .. j : L[k].layer = L[i].layer}
<1>1. T \subseteq i .. z /\ i \in T
  <2>1. \A k \in i .. i : k = i
    OBVIOUS
  <2> QED
    BY <2>1
<1>2. GroupEnd(L, i) = Max(T)
  BY DEF GroupEnd
<1> HIDE DEF T
<1>3. Max(T) \in T
  <2>1. i \in Int /\ z \in Int /\ T # {}
    BY <1>1
  <2> QED
    BY <1>1, <2>1, MaxIn
<1> QED
  BY <1>1, <1>2, <1>3

\* Of a loaded network, every layer is as the parser makes it.
LEMMA LoadedLayers ==
  ASSUME LoaderOK
  PROVE  Len(loader) \in Nat /\ \A i \in 1 .. Len(loader) : LayerOK(loader[i])
<1>1. Len(loader) \in Nat /\ DOMAIN loader = 1 .. Len(loader)
  <2>1. loader \in Seq(Range(loader))
    BY DEF LoaderOK
  <2> QED
    BY <2>1
<1>2. ASSUME NEW i \in 1 .. Len(loader) PROVE loader[i] \in Range(loader)
  BY <1>1 DEF Range
<1> QED
  BY <1>1, <1>2 DEF LoaderOK

\* What a streamed packet reads and writes.
StreamedReads == StreamReads(machine, Current)
StreamedWrites(reserved) ==
  IF OutputRetainedNextLayer(machine, loader, next) THEN <<>>
  ELSE FlattenSeq([k \in 1 .. GroupEnd(loader, next) - next + 1 |->
                     StreamWrites(machine, loader[next + k - 1], WriteRegion(machine, reserved))])

LEMMA StreamedTransfers ==
  ASSUME LoaderOK, machine \in Machines, next \in Nat \ {0}, Running,
         NEW reserved, reserved \in {0, Least(Current.lat.fO, GbBytes(machine))}
  PROVE  StreamedReads \in Seq(Fitting(machine)) /\ StreamedWrites(reserved) \in Seq(Fitting(machine))
<1> DEFINE m == machine
           z == Len(loader)
           skip   == OutputRetainedNextLayer(m, loader, next)
           n      == GroupEnd(loader, next) - next + 1
           Written(k) == StreamWrites(m, loader[next + k - 1], WriteRegion(m, reserved))
<1>2. next <= z
  BY DEF Running
<1>3. z \in Nat /\ next \in 1 .. z /\ \A i \in 1 .. z : LayerOK(loader[i])
  BY <1>2, LoadedLayers
<1>4. LayerOK(Current)
  BY <1>3 DEF Current
<1>5. GroupEnd(loader, next) \in next .. z
  BY <1>3, GroupIsAhead
<1>6. n \in Nat /\ \A k \in 1 .. n : LayerOK(loader[next + k - 1])
  <2>1. \A k \in 1 .. n : next + k - 1 \in 1 .. z
    BY <1>3, <1>5
  <2> QED
    BY <1>3, <1>5, <2>1
<1>7. reserved \in Nat
  <2>1. Current.lat.fO \in Nat /\ GbBytes(m) \in Nat
    BY <1>4, Sizes DEF LayerOK, TensorOK
  <2> QED
    BY <2>1 DEF Least
<1>9. StreamedReads \in Seq(Fitting(m))
  BY <1>4, ReadsFit DEF StreamedReads
<1>10. StreamedWrites(reserved) \in Seq(Fitting(m))
  <2> DEFINE T == Fitting(m)
  <2>1. \A k \in 1 .. n : Written(k) \in Seq(T)
    BY <1>6, <1>7, WritesFit
  <2>5. StreamedWrites(reserved) = IF skip THEN <<>> ELSE FlattenSeq([k \in 1 .. n |-> Written(k)])
    BY DEF StreamedWrites
  <2> HIDE DEF T, Written, n, skip
  <2>2. [k \in 1 .. n |-> Written(k)] \in Seq(Seq(T))
    BY <1>6, <2>1
  <2>3. FlattenSeq([k \in 1 .. n |-> Written(k)]) \in Seq(T)
    BY <2>2, FlattenedIn
  <2>4. <<>> \in Seq(T)
    OBVIOUS
  <2> QED
    BY <2>3, <2>4, <2>5 DEF T
<1> QED
  BY <1>9, <1>10

\* A streamed packet stays within the buffer.
LEMMA StreamedFits ==
  ASSUME LoaderOK, machine \in Machines, next \in Nat \ {0}, npu # "fatal",
         NEW reserved, RunStreamed(reserved)
  PROVE  npu' # "fatal"
<1> DEFINE m == machine
           reads  == StreamedReads
           writes == StreamedWrites(reserved)
           dies   == \/ "TileEnable" \notin Current.flags /\ LayerBytes(Current) > GbBytes(m)
                     \/ \E k \in DOMAIN reads : Overflows(m, reads[k])
                     \/ \E k \in DOMAIN writes : ~m.peakBw /\ Overflows(m, writes[k])
<1>1. npu' \in IF dies THEN {"fatal"} ELSE {"running"} \cup {a \in {"ahead"} : Overtakes}
  BY DEF RunStreamed, StreamedReads, StreamedWrites
<1>2. /\ Running /\ ~RunsTiled(m, Current)
      /\ reserved \in {0, Least(Current.lat.fO, GbBytes(m))}
  BY DEF RunStreamed
<1>8. \A t \in Fitting(m) : ~Overflows(m, t)
  BY FittingStays
<1>9. reads \in Seq(Fitting(m)) /\ writes \in Seq(Fitting(m))
  BY <1>2, StreamedTransfers
<1>11. ~("TileEnable" \notin Current.flags /\ LayerBytes(Current) > GbBytes(m))
  BY <1>2 DEF RunsTiled
<1> HIDE DEF reads, writes
<1>12. /\ \A k \in DOMAIN reads : ~Overflows(m, reads[k])
       /\ \A k \in DOMAIN writes : ~Overflows(m, writes[k])
  <2>1. ASSUME NEW q \in Seq(Fitting(m)), NEW k \in DOMAIN q PROVE q[k] \in Fitting(m)
    BY <2>1
  <2> QED
    BY <1>8, <1>9, <2>1
<1>13. ~dies
  BY <1>11, <1>12
<1> HIDE DEF dies
<1> QED
  BY <1>1, <1>13

\* The machine is one of those configured; with a network the loader made,
\* read_thread is at one of its layers, or behind, and nothing has stopped it.
Contained ==
  /\ npu # "off" => machine \in Machines
  /\ LoaderOK => npu # "fatal" /\ (npu = "running" => next \in 1 .. Len(loader) + 1)

LEMMA NextLayer ==
  ASSUME LoaderOK, next \in Nat \ {0}, Running, NextGroup
  PROVE  next' \in 1 .. Len(loader) + 1
<1>1. Len(loader) \in Nat
  BY LoadedLayers
<1>2. next \in 1 .. Len(loader)
  BY <1>1 DEF Running
<1>3. GroupEnd(loader, next) \in next .. Len(loader)
  BY <1>1, <1>2, GroupIsAhead
<1> QED
  BY <1>1, <1>2, <1>3 DEF NextGroup

LEMMA ExecuteContained ==
  ASSUME Contained, Execute \/ StartRun(image)
  PROVE  Contained'
<1>1. ASSUME NEW m \in Machines, PowerOn(m) PROVE Contained'
  BY <1>1 DEF PowerOn, Contained, LoaderOK
<1>2. CASE Reset
  <2>1. machine' = machine /\ machine \in Machines /\ npu' = "idle"
    BY <1>2 DEF Reset, Contained
  <2> QED
    BY <2>1 DEF Contained
<1>3. CASE Finish
  <2>1. machine' = machine /\ machine \in Machines /\ npu' = "done"
    BY <1>3 DEF Finish, Contained
  <2> QED
    BY <2>1 DEF Contained
<1>4. CASE StartRun(image)
  <2>1. machine' = machine /\ machine \in Machines /\ next' = 1 /\ npu' \in {"running", "idle"}
    BY <1>4 DEF StartRun, Contained
  <2>2. LoaderOK' => 1 \in 1 .. Len(loader') + 1
    <3>1. LoaderOK' => loader' \in Seq(Range(loader'))
      BY DEF LoaderOK
    <3> QED
      BY <3>1
  <2> QED
    BY <2>1, <2>2 DEF Contained
<1>5. ASSUME Running, NextGroup, machine' = machine, loader' = loader,
             LoaderOK => npu' # "fatal"
      PROVE  Contained'
  <2>1. machine \in Machines
    BY <1>5 DEF Running, Contained
  <2>2. LoaderOK' <=> LoaderOK
    BY <1>5 DEF LoaderOK
  <2>3. ASSUME LoaderOK PROVE next' \in 1 .. Len(loader') + 1
    <3>1. next \in Nat \ {0}
      <4>1. next \in 1 .. Len(loader) + 1 /\ Len(loader) \in Nat
        BY <1>5, <2>3, LoadedLayers DEF Running, Contained
      <4> QED
        BY <4>1
    <3> QED
      BY <1>5, <2>3, <3>1, NextLayer
  <2> QED
    BY <1>5, <2>1, <2>2, <2>3 DEF Contained
<1>6. CASE RunFused
  <2>1. Running /\ NextGroup /\ machine' = machine /\ loader' = loader /\ npu' = npu
    BY <1>6 DEF RunFused
  <2> QED
    BY <1>5, <2>1 DEF Contained
<1>7. CASE RunTiled
  <2>1. Running /\ NextGroup /\ machine' = machine /\ loader' = loader /\ npu' = npu
    BY <1>7 DEF RunTiled
  <2> QED
    BY <1>5, <2>1 DEF Contained
<1>8. ASSUME NEW reserved, RunStreamed(reserved) PROVE Contained'
  <2>1. Running /\ NextGroup /\ machine' = machine /\ loader' = loader
    BY <1>8 DEF RunStreamed
  <2>2. ASSUME LoaderOK PROVE npu' # "fatal"
    <3>1. machine \in Machines /\ npu # "fatal" /\ next \in 1 .. Len(loader) + 1 /\ Len(loader) \in Nat
      BY <2>1, <2>2, LoadedLayers DEF Running, Contained
    <3>2. next \in Nat \ {0}
      BY <3>1
    <3> QED
      BY <1>8, <2>2, <3>1, <3>2, StreamedFits
  <2> QED
    BY <1>5, <2>1, <2>2
<1> QED
  BY <1>1, <1>2, <1>3, <1>4, <1>6, <1>7, <1>8 DEF Execute

----------------------------------------------------------------------------
(* A tile schedule covers its layer *)

\* Division with remainder, for the numbers of tiles and channels.
LEMMA DivMod ==
  ASSUME NEW a \in Nat, NEW b \in Nat \ {0}
  PROVE  a \div b \in Nat /\ a % b \in 0 .. b - 1 /\ a = b * (a \div b) + (a % b)
OBVIOUS

LEMMA DivUnique ==
  ASSUME NEW b \in Nat \ {0}, NEW q \in Int, NEW r \in 0 .. b - 1
  PROVE  (b * q + r) \div b = q /\ (b * q + r) % b = r
OBVIOUS

LEMMA TimesMono ==
  ASSUME NEW b \in Nat, NEW x \in Int, NEW y \in Int, x <= y
  PROVE  b * x <= b * y
OBVIOUS

LEMMA TimesLess ==
  ASSUME NEW b \in Nat \ {0}, NEW x \in Int, NEW y \in Int, b * x < b * y
  PROVE  x < y
OBVIOUS

\* The rounded-up quotient is the least number of pieces that is enough.
LEMMA CeilDivEnough ==
  ASSUME NEW a \in Nat \ {0}, NEW b \in Nat \ {0}
  PROVE  /\ CeilDiv(a, b) \in Nat \ {0} /\ a <= b * CeilDiv(a, b)
         /\ \A n \in Nat : a <= b * n => CeilDiv(a, b) <= n
<1> DEFINE q == (a + b - 1) \div b
           r == (a + b - 1) % b
<1>0. a + b - 1 \in Nat
  OBVIOUS
<1>1. q \in Nat /\ r \in 0 .. b - 1 /\ a + b - 1 = b * q + r
  BY <1>0, DivMod
<1>2. CeilDiv(a, b) = q
  BY DEF CeilDiv
<1> HIDE DEF q, r
<1>3. b * q \in Int /\ a <= b * q
  BY <1>1
<1>4. q # 0
  BY <1>3
<1>5. ASSUME NEW n \in Nat, a <= b * n PROVE q <= n
  <2>1. b * (n + 1) = b * n + b /\ b * n \in Int
    OBVIOUS
  <2>2. b * q < b * (n + 1)
    BY <2>1, <1>1, <1>3, <1>5
  <2>3. q < n + 1
    BY <2>2, <1>1, TimesLess
  <2> QED
    BY <2>3, <1>1
<1> QED
  BY <1>1, <1>2, <1>3, <1>4, <1>5

\* Pieces of size b: number y lies in piece y \div b alone.
LEMMA PieceOf ==
  ASSUME NEW b \in Nat \ {0}, NEW y \in Nat, NEW i \in Nat
  PROVE  b * i <= y /\ y < b * i + b <=> i = y \div b
<1> DEFINE q == y \div b
           r == y % b
<1>1. q \in Nat /\ r \in 0 .. b - 1 /\ y = b * q + r
  BY DivMod
<1> HIDE DEF q, r
<1>2. b * q \in Int /\ b * i \in Int
  BY <1>1
<1>3. ASSUME b * i <= y, y < b * i + b PROVE i = q
  <2>1. b * (i + 1) = b * i + b /\ b * (q + 1) = b * q + b
    BY <1>1
  <2>2. b * q < b * (i + 1) /\ b * i < b * (q + 1)
    BY <2>1, <1>1, <1>2, <1>3
  <2>3. q < i + 1 /\ i < q + 1
    BY <2>2, <1>1, TimesLess
  <2> QED
    BY <2>3, <1>1
<1>4. ASSUME i = q PROVE b * i <= y /\ y < b * i + b
  BY <1>1, <1>2, <1>4
<1> QED
  BY <1>3, <1>4 DEF q
\* The same of a tile, cut off at the edge.
LEMMA InPiece ==
  ASSUME NEW b \in Nat \ {0}, NEW extent \in Nat, NEW y \in 0 .. extent - 1, NEW i \in Nat
  PROVE  y - i * b \in 0 .. Least(b, extent - i * b) - 1 <=> i = y \div b
<1> DEFINE at == b * i
<1>1. at \in Int /\ i * b = at
  OBVIOUS
<1>2. at <= y /\ y < at + b <=> i = y \div b
  BY PieceOf
<1> HIDE DEF at
<1>3. y - at \in 0 .. Least(b, extent - at) - 1 <=> at <= y /\ y < at + b
  BY <1>1 DEF Least
<1> QED
  BY <1>1, <1>2, <1>3

\* Cell k of a table of down rows of across columns.
LEMMA CellOf ==
  ASSUME NEW across \in Nat \ {0}, NEW down \in Nat \ {0},
         NEW i \in 0 .. down - 1, NEW j \in 0 .. across - 1
  PROVE  /\ across * i + j \in 0 .. down * across - 1
         /\ \A k \in Nat : k \div across = i /\ k % across = j <=> k = across * i + j
<1>1. across * i + j \in 0 .. down * across - 1
  <2>1. across * i <= across * (down - 1) /\ across * 0 <= across * i
    BY TimesMono
  <2>2. across * (down - 1) = down * across - across
    OBVIOUS
  <2>3. {across * i, down * across} \subseteq Int /\ across * 0 = 0
    OBVIOUS
  <2> QED
    BY <2>1, <2>2, <2>3
<1>2. ASSUME NEW k \in Nat, k \div across = i, k % across = j PROVE k = across * i + j
  BY <1>2, DivMod
<1>3. (across * i + j) \div across = i /\ (across * i + j) % across = j
  BY DivUnique
<1> QED
  BY <1>1, <1>2, <1>3

LEMMA PieceExists ==
  ASSUME NEW b \in Nat \ {0}, NEW n \in Nat, NEW y \in Nat, y < b * n
  PROVE  y \div b \in 0 .. n - 1
<1> DEFINE q == y \div b
           r == y % b
<1>1. q \in Nat /\ r \in 0 .. b - 1 /\ y = b * q + r
  BY DivMod
<1> HIDE DEF q, r
<1>2. b * q \in Int /\ b * q < b * n
  BY <1>1
<1>3. q < n
  BY <1>1, <1>2, TimesLess
<1> QED
  BY <1>1, <1>3 DEF q

LEMMA TileSizes ==
  ASSUME NEW c, CutOK(c)
  PROVE  /\ {c.out.h, c.out.w} \subseteq Nat \ {0}
         /\ {TileExtent(c).h, TileExtent(c).w} \subseteq Nat \ {0}
         /\ {TilesDown(c), TilesAcross(c)} \subseteq Nat \ {0}
         /\ c.out.h <= TileExtent(c).h * TilesDown(c) /\ c.out.w <= TileExtent(c).w * TilesAcross(c)
<1>1. {c.out.h, c.out.w} \subseteq Nat \ {0} /\ {c.th, c.tw} \subseteq Nat
  BY DEF CutOK
<1>2. {TileExtent(c).h, TileExtent(c).w} \subseteq Nat \ {0}
  BY <1>1 DEF TileExtent, Least
<1> QED
  BY <1>1, <1>2, CeilDivEnough DEF TilesDown, TilesAcross

\* An output element belongs to one tile: its row's and its column's.
LEMMA OneTile ==
  ASSUME NEW c, CutOK(c), NEW y \in 0 .. c.out.h - 1, NEW x \in 0 .. c.out.w - 1
  PROVE  Cardinality(TilesAt(Schedule(c), y, x)) = 1
<1> DEFINE th == TileExtent(c).h
           tw == TileExtent(c).w
           D == TilesDown(c)
           A == TilesAcross(c)
           i == y \div th
           j == x \div tw
           cell == A * i + j
<1>1. /\ {th, tw, D, A, c.out.h, c.out.w} \subseteq Nat \ {0} /\ y \in Nat /\ x \in Nat
      /\ c.out.h <= th * D /\ c.out.w <= tw * A
  BY TileSizes
<1>2. i \in 0 .. D - 1 /\ j \in 0 .. A - 1
  <2> HIDE DEF th, tw, D, A
  <2>1. {th * D, tw * A} \subseteq Int
    BY <1>1
  <2>2. y < th * D /\ x < tw * A
    BY <1>1, <2>1
  <2> QED
    BY <1>1, <2>2, PieceExists
<1>3. /\ cell \in 0 .. D * A - 1
      /\ \A k \in Nat : k \div A = i /\ k % A = j <=> k = cell
  <2> HIDE DEF D, A, i, j
  <2>1. A \in Nat \ {0} /\ D \in Nat \ {0}
    BY <1>1
  <2>2. cell = A * i + j
    OBVIOUS
  <2> HIDE DEF cell
  <2>3. /\ A * i + j \in 0 .. D * A - 1
        /\ \A k \in Nat : k \div A = i /\ k % A = j <=> k = A * i + j
    BY <2>1, <1>2, CellOf, SMTT(30)
  <2> QED
    BY <2>2, <2>3, Zenon
<1>4. ASSUME NEW k \in TileIds(c)
      PROVE  /\ k \in Nat /\ k \div A \in Nat /\ k % A \in Nat
             /\ Tile(c, k).h0 = (k \div A) * th /\ Tile(c, k).w0 = (k % A) * tw
             /\ Tile(c, k).h = Least(th, c.out.h - (k \div A) * th)
             /\ Tile(c, k).w = Least(tw, c.out.w - (k % A) * tw)
  <2>1. k \in Nat
    BY DEF TileIds
  <2>2. k \div A \in Nat /\ k % A \in Nat
    <3> HIDE DEF A
    <3>1. A \in Nat \ {0}
      BY <1>1
    <3>2. k % A \in 0 .. A - 1 /\ k \div A \in Nat
      BY <2>1, <3>1, DivMod, Zenon
    <3> QED
      BY <3>1, <3>2
  <2>3. Tile(c, k).h0 = (k \div A) * th /\ Tile(c, k).w0 = (k % A) * tw
    BY DEF Tile
  <2>4. /\ Tile(c, k).h = Least(th, c.out.h - (k \div A) * th)
        /\ Tile(c, k).w = Least(tw, c.out.w - (k % A) * tw)
    BY DEF Tile
  <2> QED
    BY <2>1, <2>2, <2>3, <2>4
<1>5. ASSUME NEW k \in TileIds(c)
      PROVE  k \in TilesAt(Schedule(c), y, x) <=> k = cell
  <2>1. DOMAIN Schedule(c) = TileIds(c) /\ Schedule(c)[k].tile = Tile(c, k)
    BY DEF Schedule
  <2>2. k \in TilesAt(Schedule(c), y, x) <=>
          /\ y - Tile(c, k).h0 \in 0 .. Tile(c, k).h - 1
          /\ x - Tile(c, k).w0 \in 0 .. Tile(c, k).w - 1
    BY <2>1, Zenon DEF TilesAt
  <2> HIDE DEF th, tw, D, A
  <2>0. /\ th \in Nat \ {0} /\ tw \in Nat \ {0} /\ c.out.h \in Nat /\ c.out.w \in Nat
        /\ k \div A \in Nat /\ k % A \in Nat
    BY <1>1, <1>4
  <2>3. y - (k \div A) * th \in 0 .. Least(th, c.out.h - (k \div A) * th) - 1 <=> k \div A = i
    BY <2>0, InPiece, Zenon
  <2>4. x - (k % A) * tw \in 0 .. Least(tw, c.out.w - (k % A) * tw) - 1 <=> k % A = j
    BY <2>0, InPiece, Zenon
  <2> HIDE DEF i, j, cell
  <2>5. k \in TilesAt(Schedule(c), y, x) <=> k \div A = i /\ k % A = j
    BY <2>2, <2>3, <2>4, <1>4, Zenon
  <2> QED
    BY <2>5, <1>3, <1>4, Zenon
<1>6. cell \in TileIds(c)
  BY <1>3 DEF TileIds
<1>7. TilesAt(Schedule(c), y, x) \subseteq TileIds(c)
  BY DEF TilesAt, Schedule
<1> HIDE DEF cell
<1>8. TilesAt(Schedule(c), y, x) = {cell}
  BY <1>5, <1>6, <1>7, Zenon
<1> QED
  BY <1>8, FS_Singleton, Zenon

\* A channel is brought by one pass: the shares are even but for the last ones.
LEMMA OnePass ==
  ASSUME NEW c, c.ic \in Nat \ {0}, NEW n \in Nat \ {0}, NEW ch \in 0 .. c.ic - 1
  PROVE  Cardinality(PassesWith(c, n, ch)) = 1
<1> DEFINE ic == c.ic
           share == CeilDiv(c.ic, n)
           q == ch \div share
<1>1. /\ ic \in Nat \ {0} /\ share \in Nat \ {0} /\ ic <= n * share /\ ch \in Nat /\ ch < ic
  BY CeilDivEnough
<1>2. q \in 0 .. n - 1
  <2> HIDE DEF ic, share
  <2>1. n * share = share * n /\ share * n \in Int
    BY <1>1
  <2>2. ch < share * n
    BY <1>1, <2>1
  <2>3. n \in Nat /\ share \in Nat \ {0} /\ ch \in Nat
    BY <1>1
  <2> QED
    BY <2>2, <2>3, PieceExists, Zenon
<1>3. ASSUME NEW p \in 0 .. n - 1
      PROVE  ch - PassFrom(c, n, p) \in 0 .. PassChannels(c, n, p) - 1 <=> p = q
  <2> DEFINE at == share * p
             next1 == share * (p + 1)
  <2>1. PassFrom(c, n, p) = Least(ic, p * share) /\ PassFrom(c, n, p + 1) = Least(ic, (p + 1) * share)
    BY DEF PassFrom
  <2> HIDE DEF ic, share
  <2>2. /\ at \in Int /\ next1 \in Int /\ p * share = at /\ (p + 1) * share = next1
        /\ next1 = at + share
    BY <1>1
  <2>3. p \in Nat /\ share \in Nat \ {0} /\ ch \in Nat
    BY <1>1
  <2>4. at <= ch /\ ch < at + share <=> p = q
    BY <2>3, PieceOf, Zenon
  <2> HIDE DEF at, next1, q
  <2>5. PassFrom(c, n, p) = Least(ic, at) /\ PassFrom(c, n, p + 1) = Least(ic, next1)
    BY <2>1, <2>2
  <2>6. ch - Least(ic, at) \in 0 .. (Least(ic, next1) - Least(ic, at)) - 1
          <=> at <= ch /\ ch < at + share
    BY <1>1, <2>2 DEF Least
  <2> QED
    BY <2>4, <2>5, <2>6 DEF PassChannels
<1>4. PassesWith(c, n, ch) = {q}
  <2> HIDE DEF q
  <2> QED
    BY <1>2, <1>3, Zenon DEF PassesWith
<1> QED
  BY <1>4, FS_Singleton, Zenon

\* What fits in the room fits once per channel, if at most as many channels come as
\* fit in the room.
LEMMA SharesFit ==
  ASSUME NEW room \in Nat, NEW per \in Nat \ {0}, NEW n \in Nat, n <= room \div per
  PROVE  per * n <= room
<1> DEFINE q == room \div per
           r == room % per
<1>1. q \in Nat /\ r \in 0 .. per - 1 /\ room = per * q + r
  BY DivMod
<1> HIDE DEF r
<1>2. per * n <= per * q
  BY <1>1, TimesMono
<1> HIDE DEF q
<1>3. per * n \in Int /\ per * q \in Int
  BY <1>1
<1> QED
  BY <1>1, <1>2, <1>3

\* A tile of the schedule has an extent, and so has the input it reads.
LEMMA TileExtents ==
  ASSUME NEW c, CutOK(c), NEW k \in TileIds(c)
  PROVE  {Tile(c, k).h, Tile(c, k).w, Tile(c, k).inH, Tile(c, k).inW} \subseteq Nat \ {0}
<1> DEFINE th == TileExtent(c).h
           tw == TileExtent(c).w
           D == TilesDown(c)
           A == TilesAcross(c)
           H == c.out.h
           W == c.out.w
           i == k \div A
           j == k % A
<1>1. /\ th \in Nat \ {0} /\ tw \in Nat \ {0} /\ D \in Nat \ {0} /\ A \in Nat \ {0}
      /\ H \in Nat \ {0} /\ W \in Nat \ {0}
  BY TileSizes
<1>2. D = CeilDiv(H, th) /\ A = CeilDiv(W, tw)
  BY DEF TilesDown, TilesAcross
<1>3. k \in Nat /\ k < A * D
  <2>1. k \in 0 .. D * A - 1
    BY DEF TileIds
  <2> HIDE DEF A, D
  <2>2. D * A = A * D /\ A * D \in Nat
    BY <1>1
  <2> QED
    BY <2>1, <2>2
<1>4. Tile(c, k).h = Least(th, H - i * th) /\ Tile(c, k).w = Least(tw, W - j * tw)
  BY DEF Tile
<1>5. /\ Tile(c, k).inH = Tile(c, k).h * c.stride + c.kh - 1
      /\ Tile(c, k).inW = Tile(c, k).w * c.stride + c.kw - 1
  BY DEF Tile
<1>6. c.stride \in Nat \ {0} /\ c.kh \in Nat \ {0} /\ c.kw \in Nat \ {0}
  BY DEF CutOK
<1> HIDE DEF th, tw, D, A, H, W
<1>7. i \in Nat /\ i < D
  <2>1. i \in 0 .. D - 1
    BY <1>1, <1>3, PieceExists
  <2> QED
    BY <2>1, <1>1
<1>8. j \in Nat /\ j < A
  <2>1. j \in 0 .. A - 1
    BY <1>1, <1>3, DivMod
  <2> QED
    BY <2>1, <1>1
<1> HIDE DEF i, j
<1>9. ASSUME NEW b \in Nat \ {0}, NEW extent \in Nat \ {0}, NEW at \in Nat, at < CeilDiv(extent, b)
      PROVE  Least(b, extent - at * b) \in Nat \ {0}
  <2>1. CeilDiv(extent, b) \in Nat /\ ~(extent <= b * at)
    BY <1>9, CeilDivEnough
  <2>2. at * b = b * at /\ b * at \in Nat
    OBVIOUS
  <2> QED
    BY <2>1, <2>2 DEF Least
<1>10. Tile(c, k).h \in Nat \ {0} /\ Tile(c, k).w \in Nat \ {0}
  BY <1>1, <1>2, <1>4, <1>7, <1>8, <1>9
<1>11. ASSUME NEW n \in Nat \ {0}, NEW s \in Nat \ {0}, NEW f \in Nat \ {0}
       PROVE  n * s + f - 1 \in Nat \ {0}
  <2>1. n * s \in Nat /\ n * s # 0
    OBVIOUS
  <2> QED
    BY <2>1
<1>12. Tile(c, k).inH \in Nat \ {0} /\ Tile(c, k).inW \in Nat \ {0}
  BY <1>5, <1>6, <1>10, <1>11
<1> QED
  BY <1>10, <1>12

LEMMA BudgetNat ==
  ASSUME NEW kb \in Nat, NEW extent \in Nat, NEW percent \in Nat
  PROVE  Budget(kb, extent, percent) \in Nat
BY DEF Budget

LEMMA RoomNat ==
  ASSUME NEW c, CutOK(c)
  PROVE  Least(InputBudget(c), KernelBudget(c)) \in Nat
<1>1. c.inKb \in Nat /\ c.wtKb \in Nat /\ c.kb \in Nat
  BY DEF CutOK
<1>2. InputBudget(c) \in Nat /\ KernelBudget(c) \in Nat
  BY <1>1, BudgetNat DEF InputBudget, KernelBudget
<1> QED
  BY <1>2 DEF Least

\* What a tile asks of the buffer per channel, and the number of its passes.
PerChannel(c, t)  == WordBytes(t.inH * t.inW) + WordBytes(KernelWordsPerChannel(c))
PassShare(c, t)   == Most(1, Least(InputBudget(c), KernelBudget(c)) \div PerChannel(c, t))

LEMMA PassesOfTile ==
  ASSUME NEW c, CutOK(c), NEW t, t.inH \in Nat \ {0}, t.inW \in Nat \ {0}
  PROVE  /\ c.ic \in Nat \ {0}
         /\ KernelWordsPerChannel(c) \in Nat /\ PerChannel(c, t) \in Nat \ {0}
         /\ PassShare(c, t) \in Nat \ {0}
         /\ NumPasses(c, t) = (IF WordBytes(TileOutputWords(c, t)) > OutputBudget(c)
                                THEN 1 ELSE CeilDiv(c.ic, PassShare(c, t)))
         /\ NumPasses(c, t) \in Nat \ {0}
<1>1. /\ c.ic \in Nat \ {0} /\ c.kh \in Nat /\ c.kw \in Nat /\ c.out.c \in Nat
      /\ c.depthwise \in BOOLEAN
  BY DEF CutOK
<1>2. KernelWordsPerChannel(c) \in Nat
  <2>1. c.kh * c.kw \in Nat
    BY <1>1
  <2>2. c.kh * c.kw * 1 \in Nat /\ c.kh * c.kw * c.out.c \in Nat
    BY <1>1, <2>1
  <2> QED
    BY <2>2 DEF KernelWordsPerChannel
<1>3. PerChannel(c, t) \in Nat \ {0}
  <2>1. t.inH * t.inW \in Nat \ {0}
    OBVIOUS
  <2> QED
    BY <2>1, <1>2 DEF PerChannel, WordBytes
<1>4. PassShare(c, t) \in Nat \ {0}
  <2>1. Least(InputBudget(c), KernelBudget(c)) \div PerChannel(c, t) \in Nat
    BY <1>3, RoomNat, DivMod
  <2> QED
    BY <2>1 DEF PassShare, Most
<1>5. NumPasses(c, t) = (IF WordBytes(TileOutputWords(c, t)) > OutputBudget(c)
                         THEN 1 ELSE CeilDiv(c.ic, PassShare(c, t)))
  BY Zenon DEF NumPasses, PassShare, PerChannel
<1>6. CeilDiv(c.ic, PassShare(c, t)) \in Nat \ {0}
  BY <1>1, <1>4, CeilDivEnough
<1> QED
  BY <1>1, <1>2, <1>3, <1>4, <1>5, <1>6

\* A pass fits: it takes at most as many channels as the room holds.
LEMMA EveryPassFits ==
  ASSUME NEW c, CutOK(c), NEW t, {t.h, t.w, t.inH, t.inW} \subseteq Nat \ {0},
         NEW n, n = NumPasses(c, t)
  PROVE  PassesFit(c, t, n)
<1> DEFINE room == Least(InputBudget(c), KernelBudget(c))
           per == PerChannel(c, t)
           most == PassShare(c, t)
           share == CeilDiv(c.ic, n)
           K == KernelWordsPerChannel(c)
           P(p) == PassChannels(c, n, p)
<1>1. /\ c.ic \in Nat \ {0} /\ K \in Nat /\ per \in Nat \ {0} /\ most \in Nat \ {0}
      /\ n \in Nat \ {0}
      /\ n = (IF WordBytes(TileOutputWords(c, t)) > OutputBudget(c) THEN 1 ELSE CeilDiv(c.ic, most))
  BY PassesOfTile
<1>2. room \in Nat
  BY RoomNat
<1> SUFFICES ASSUME 4 * TileOutputWords(c, t) <= OutputBudget(c), NEW p \in 0 .. n - 1
             PROVE  \/ 4 * (PassTraffic(c, t, n, p).input + PassTraffic(c, t, n, p).kernel) <= room
                    \/ P(p) <= 1
  BY Zenon DEF PassesFit
<1>3. ~(WordBytes(TileOutputWords(c, t)) > OutputBudget(c))
  <2>1. c.out.c \in Nat /\ c.outKb \in Nat /\ c.kb \in Nat
    BY DEF CutOK
  <2>2. OutputBudget(c) \in Nat
    BY <2>1, BudgetNat DEF OutputBudget
  <2>3. TileOutputWords(c, t) \in Nat
    <3>1. t.h * t.w \in Nat
      OBVIOUS
    <3>2. t.h * t.w * c.out.c \in Nat
      BY <3>1, <2>1
    <3> QED
      BY <3>2 DEF TileOutputWords
  <2> QED
    BY <2>2, <2>3 DEF WordBytes
<1>4. n = CeilDiv(c.ic, most)
  BY <1>1, <1>3
<1>5. share \in Nat \ {0} /\ share <= most
  <2> HIDE DEF most
  <2>1. c.ic \in Nat \ {0} /\ most \in Nat \ {0} /\ n \in Nat \ {0}
    BY <1>1
  <2>2. c.ic <= most * CeilDiv(c.ic, most)
    BY <2>1, CeilDivEnough, Zenon
  <2>3. c.ic <= n * most /\ most \in Nat
    BY <2>1, <2>2, <1>4
  <2> QED
    BY <2>1, <2>3, CeilDivEnough, Zenon
<1>6. P(p) \in Nat /\ P(p) <= share
  <2> DEFINE at == share * p
             next1 == share * (p + 1)
  <2>1. PassFrom(c, n, p) = Least(c.ic, p * share) /\ PassFrom(c, n, p + 1) = Least(c.ic, (p + 1) * share)
    BY DEF PassFrom
  <2> HIDE DEF share
  <2>2. /\ at \in Int /\ next1 \in Int /\ p * share = at /\ (p + 1) * share = next1
        /\ next1 = at + share
    BY <1>1, <1>5
  <2> HIDE DEF at, next1
  <2> QED
    BY <1>1, <1>5, <2>1, <2>2 DEF PassChannels, Least
<1>7. CASE most = 1
  BY <1>5, <1>6, <1>7
<1>8. CASE most # 1
  <2>1. most = room \div per
    BY <1>8, <1>1, <1>2, DivMod DEF PassShare, Most
  <2>2. P(p) <= room \div per
    BY <1>1, <1>5, <1>6, <2>1
  <2>3. per * P(p) <= room
    <3> HIDE DEF P, room, per
    <3> QED
      BY <1>1, <1>2, <1>6, <2>2, SharesFit
  <2>4. 4 * (PassTraffic(c, t, n, p).input + PassTraffic(c, t, n, p).kernel) = per * P(p)
    <3>1. /\ PassTraffic(c, t, n, p).input = t.inH * t.inW * P(p)
          /\ PassTraffic(c, t, n, p).kernel = K * P(p)
      BY DEF PassTraffic
    <3>2. per = 4 * (t.inH * t.inW) + 4 * K
      BY DEF PerChannel, WordBytes
    <3> DEFINE a == t.inH * t.inW
    <3>3. a \in Nat
      OBVIOUS
    <3> HIDE DEF K, P, per, a
    <3>4. 4 * (a * P(p) + K * P(p)) = (4 * a + 4 * K) * P(p)
      BY <1>1, <1>6, <3>3
    <3> QED
      BY <3>1, <3>2, <3>4 DEF a
  <2> QED
    BY <2>3, <2>4
<1> QED
  BY <1>7, <1>8

\* Every legal cut makes a schedule that covers the layer.
LEMMA EveryScheduleCovers ==
  ASSUME NEW c, CutOK(c)
  PROVE  LET sched == Schedule(c)
         IN  /\ \A y \in 0 .. c.out.h - 1, x \in 0 .. c.out.w - 1 :
                  Cardinality(TilesAt(sched, y, x)) = 1
             /\ \A k \in DOMAIN sched :
                  LET n == sched[k].passes
                  IN  /\ \A ch \in 0 .. c.ic - 1 : Cardinality(PassesWith(c, n, ch)) = 1
                      /\ PassesFit(c, sched[k].tile, n)
<1>1. \A y \in 0 .. c.out.h - 1, x \in 0 .. c.out.w - 1 :
        Cardinality(TilesAt(Schedule(c), y, x)) = 1
  BY OneTile
<1>2. ASSUME NEW k \in DOMAIN Schedule(c)
      PROVE  /\ \A ch \in 0 .. c.ic - 1 : Cardinality(PassesWith(c, Schedule(c)[k].passes, ch)) = 1
             /\ PassesFit(c, Schedule(c)[k].tile, Schedule(c)[k].passes)
  <2> DEFINE t == Tile(c, k)
             n == NumPasses(c, t)
  <2>1. k \in TileIds(c) /\ Schedule(c)[k].tile = t /\ Schedule(c)[k].passes = n
    BY DEF Schedule
  <2>2. {t.h, t.w, t.inH, t.inW} \subseteq Nat \ {0}
    BY <2>1, TileExtents
  <2> HIDE DEF t
  <2>3. c.ic \in Nat \ {0} /\ n \in Nat \ {0}
    BY <2>2, PassesOfTile
  <2>4. PassesFit(c, t, n)
    BY <2>2, EveryPassFits
  <2> HIDE DEF n
  <2>5. \A ch \in 0 .. c.ic - 1 : Cardinality(PassesWith(c, n, ch)) = 1
    BY <2>3, OnePass
  <2> QED
    BY <2>1, <2>4, <2>5, Zenon
<1> QED
  BY <1>1, <1>2, Zenon

----------------------------------------------------------------------------
(* The tiles of a layer move all of it *)

\* The pieces an extent is cut into add up to the extent, and what each of them takes
\* besides is taken once per piece.
LEMMA PiecesAddUp ==
  ASSUME NEW extent \in Nat \ {0}, NEW b \in Nat \ {0}, NEW s \in Nat, NEW f \in Nat,
         NEW z, z = CeilDiv(extent, b),
         NEW F, \A i \in 0 .. z - 1 : F[i] = Least(b, extent - i * b) * s + f
  PROVE  SumFunctionOnSet(F, 0 .. z - 1) = extent * s + z * f
<1> DEFINE P == [k \in 0 .. z |-> Least(extent, k * b) * s + k * f]
<1>1. z \in Nat \ {0} /\ extent <= b * z /\ \A n \in Nat : extent <= b * n => z <= n
  BY CeilDivEnough
<1>2. ASSUME NEW k \in 0 .. z - 1 PROVE F[k] = P[k + 1] - P[k]
  <2> DEFINE at == k * b
  <2>1. k \in Nat /\ at \in Nat /\ (k + 1) * b = at + b /\ b * k = at
    BY <1>1
  <2>2. at < extent
    <3>1. ~(z <= k)
      BY <1>1
    <3>2. ~(extent <= b * k)
      BY <1>1, <2>1, <3>1
    <3> HIDE DEF at
    <3> QED
      BY <2>1, <3>2
  <2>3. P[k + 1] = Least(extent, (k + 1) * b) * s + (k + 1) * f /\ P[k] = Least(extent, k * b) * s + k * f
    BY <1>1
  <2> HIDE DEF at, P
  <2> DEFINE x == Least(b, extent - at)  y == k * f
  <2>4. x \in Nat
    BY <2>1, <2>2 DEF Least
  <2>5. Least(extent, at + b) = at + x /\ Least(extent, at) = at
    BY <2>1, <2>2 DEF Least
  <2>6. F[k] = x * s + f
    BY DEF at
  <2>7. P[k + 1] = (at + x) * s + (y + f) /\ P[k] = at * s + y
    <3>1. (k + 1) * f = y + f
      BY <2>1
    <3>2. (k + 1) * b = at + b /\ k * b = at
      BY <2>1 DEF at
    <3> HIDE DEF x, y
    <3>3. P[k + 1] = Least(extent, at + b) * s + (y + f)
      BY <2>3, <3>1, <3>2
    <3>4. P[k] = Least(extent, at) * s + y
      BY <2>3, <3>2 DEF y
    <3> QED
      BY <2>5, <3>3, <3>4
  <2>8. y \in Int
    BY <2>1
  <2> HIDE DEF x, y
  <2>9. \A u, v, w \in Int : (u + v) * w = u * w + v * w /\ u * w \in Int
    OBVIOUS
  <2>10. (at + x) * s = at * s + x * s /\ at * s \in Int /\ x * s \in Int
    BY <2>1, <2>4, <2>9
  <2> DEFINE p == at * s  q == x * s
  <2>11. ((p + q) + (y + f)) - (p + y) = q + f
    <3>1. p \in Int /\ q \in Int
      BY <2>10
    <3> HIDE DEF p, q
    <3> QED
      BY <2>8, <3>1
  <2>12. P[k + 1] = (p + q) + (y + f) /\ P[k] = p + y /\ F[k] = q + f
    BY <2>6, <2>7, <2>10
  <2> HIDE DEF p, q
  <2>13. F[k] = ((p + q) + (y + f)) - (p + y)
    BY <2>11, <2>12
  <2> QED
    BY <2>12, <2>13
<1>3. \A k \in 0 .. z : P[k] \in Int
  <2> SUFFICES ASSUME NEW k \in 0 .. z PROVE P[k] \in Int
    OBVIOUS
  <2>1. k * b \in Int /\ k * f \in Int
    BY <1>1
  <2> DEFINE v == Least(extent, k * b)
  <2>2. v \in Int
    BY <2>1 DEF Least
  <2> HIDE DEF v
  <2>3. v * s + k * f \in Int
    BY <2>1, <2>2
  <2> QED
    BY <2>3 DEF v
<1>4. SumFunctionOnSet(F, 0 .. z - 1) = P[z] - P[0]
  <2> HIDE DEF P
  <2>1. z \in Nat
    BY <1>1
  <2> QED
    BY <1>2, <1>3, <2>1, SumTelescopes
<1>5. P[0] = 0
  <2>1. Least(extent, 0 * b) = 0
    BY DEF Least
  <2>2. P[0] = Least(extent, 0 * b) * s + 0 * f
    BY <1>1
  <2> QED
    BY <2>1, <2>2
<1>6. P[z] = extent * s + z * f
  <2>1. P[z] = Least(extent, z * b) * s + z * f
    BY <1>1
  <2>2. Least(extent, z * b) = extent
    <3>1. b * z = z * b /\ z * b \in Int
      BY <1>1
    <3> QED
      BY <1>1, <3>1 DEF Least
  <2> QED
    BY <2>1, <2>2
<1>7. extent * s + z * f \in Int
  BY <1>1
<1> QED
  BY <1>4, <1>5, <1>6, <1>7

\* The passes of a tile take all input channels, and the last one the output.
LEMMA PassesAddUp ==
  ASSUME NEW c, c.ic \in Nat \ {0}, NEW n \in Nat \ {0}, NEW a \in Nat
  PROVE  SumFunction([p \in 0 .. n - 1 |-> a * PassChannels(c, n, p)]) = a * c.ic
<1> DEFINE share == CeilDiv(c.ic, n)
           P == [k \in 0 .. n |-> a * PassFrom(c, n, k)]
           F == [p \in 0 .. n - 1 |-> a * PassChannels(c, n, p)]
<1>1. share \in Nat \ {0} /\ c.ic <= n * share
  BY CeilDivEnough
<1>2. ASSUME NEW k \in 0 .. n PROVE PassFrom(c, n, k) \in Int
  <2>1. k * share \in Int
    BY <1>1
  <2> QED
    BY <2>1 DEF PassFrom, Least
<1>3. \A k \in 0 .. n : P[k] \in Int
  BY <1>2
<1>4. ASSUME NEW k \in 0 .. n - 1 PROVE F[k] = P[k + 1] - P[k]
  <2>1. F[k] = a * PassChannels(c, n, k) /\ k \in 0 .. n /\ k + 1 \in 0 .. n
    OBVIOUS
  <2>2. P[k + 1] = a * PassFrom(c, n, k + 1) /\ P[k] = a * PassFrom(c, n, k)
    BY <2>1
  <2>3. PassFrom(c, n, k + 1) \in Int /\ PassFrom(c, n, k) \in Int
    BY <1>2, <2>1
  <2>4. \A x, y \in Int : a * (x - y) = a * x - a * y
    OBVIOUS
  <2> HIDE DEF P, F
  <2>5. a * (PassFrom(c, n, k + 1) - PassFrom(c, n, k)) = a * PassFrom(c, n, k + 1) - a * PassFrom(c, n, k)
    BY <2>3, <2>4
  <2> QED
    BY <2>1, <2>2, <2>5 DEF PassChannels
<1>5. SumFunctionOnSet(F, 0 .. n - 1) = P[n] - P[0]
  <2> HIDE DEF P, F
  <2> QED
    BY <1>3, <1>4, SumTelescopes
<1>6. PassFrom(c, n, 0) = 0 /\ PassFrom(c, n, n) = c.ic
  <2>1. n * share \in Int
    BY <1>1
  <2> HIDE DEF share
  <2>2. 0 * share = 0
    BY <1>1
  <2> QED
    BY <1>1, <2>1, <2>2 DEF PassFrom, Least, share
<1>7. P[n] = a * c.ic /\ P[0] = 0
  BY <1>6
<1>8. DOMAIN F = 0 .. n - 1
  OBVIOUS
<1>9. a * c.ic \in Int
  OBVIOUS
<1> HIDE DEF P
<1> QED
  BY <1>5, <1>7, <1>8, <1>9 DEF SumFunction

LEMMA LastPassWrites ==
  ASSUME NEW n \in Nat \ {0}, NEW a \in Nat
  PROVE  SumFunction([p \in 0 .. n - 1 |-> IF p = n - 1 THEN a ELSE 0]) = a
<1> DEFINE P == [k \in 0 .. n |-> IF k = n THEN a ELSE 0]
           F == [p \in 0 .. n - 1 |-> IF p = n - 1 THEN a ELSE 0]
<1>1. \A k \in 0 .. n : P[k] \in Int
  OBVIOUS
<1>2. \A k \in 0 .. n - 1 : F[k] = P[k + 1] - P[k]
  OBVIOUS
<1>3. P[n] = a /\ P[0] = 0 /\ DOMAIN F = 0 .. n - 1
  OBVIOUS
<1> HIDE DEF P, F
<1>4. SumFunctionOnSet(F, 0 .. n - 1) = P[n] - P[0]
  BY <1>1, <1>2, SumTelescopes
<1> QED
  BY <1>3, <1>4 DEF SumFunction, F

\* What all passes of a tile move.
LEMMA TrafficOfTile ==
  ASSUME NEW c, CutOK(c), NEW t, {t.h, t.w, t.inH, t.inW} \subseteq Nat \ {0}
  PROVE  /\ TileTraffic(c, t).input = t.inH * t.inW * c.ic
         /\ TileTraffic(c, t).kernel = KernelWordsPerChannel(c) * c.ic
         /\ TileTraffic(c, t).output = TileOutputWords(c, t)
<1> DEFINE n == NumPasses(c, t)
           K == KernelWordsPerChannel(c)
           a == t.inH * t.inW
           w == TileOutputWords(c, t)
           pass == [p \in 0 .. n - 1 |-> PassTraffic(c, t, n, p)]
<1>1. n \in Nat \ {0} /\ c.ic \in Nat \ {0} /\ K \in Nat
  BY PassesOfTile
<1>2. a \in Nat
  OBVIOUS
<1>3. w \in Nat
  <2>1. t.h * t.w \in Nat /\ c.out.c \in Nat
    BY DEF CutOK
  <2> QED
    BY <2>1 DEF TileOutputWords
<1>4. /\ TileTraffic(c, t).input = SumFunction([p \in DOMAIN pass |-> pass[p].input])
      /\ TileTraffic(c, t).kernel = SumFunction([p \in DOMAIN pass |-> pass[p].kernel])
      /\ TileTraffic(c, t).output = SumFunction([p \in DOMAIN pass |-> pass[p].output])
  BY DEF TileTraffic
<1>5. [p \in DOMAIN pass |-> pass[p].input] = [p \in 0 .. n - 1 |-> a * PassChannels(c, n, p)]
  BY DEF PassTraffic
<1>6. [p \in DOMAIN pass |-> pass[p].kernel] = [p \in 0 .. n - 1 |-> K * PassChannels(c, n, p)]
  BY DEF PassTraffic
<1>7. [p \in DOMAIN pass |-> pass[p].output] = [p \in 0 .. n - 1 |-> IF p = n - 1 THEN w ELSE 0]
  BY DEF PassTraffic
<1> HIDE DEF n, K, a, w, pass
<1>8. SumFunction([p \in 0 .. n - 1 |-> a * PassChannels(c, n, p)]) = a * c.ic
  BY <1>1, <1>2, PassesAddUp
<1>9. SumFunction([p \in 0 .. n - 1 |-> K * PassChannels(c, n, p)]) = K * c.ic
  BY <1>1, PassesAddUp
<1>10. SumFunction([p \in 0 .. n - 1 |-> IF p = n - 1 THEN w ELSE 0]) = w
  BY <1>1, <1>3, LastPassWrites
<1> QED
  BY <1>4, <1>5, <1>6, <1>7, <1>8, <1>9, <1>10 DEF K, a, w

\* Row and column of a tile of the schedule, and what it is from them.
LEMMA TilePlace ==
  ASSUME NEW c, CutOK(c), NEW k \in TileIds(c)
  PROVE  /\ k \div TilesAcross(c) \in 0 .. TilesDown(c) - 1 /\ k % TilesAcross(c) \in 0 .. TilesAcross(c) - 1
         /\ Tile(c, k).h = Least(TileExtent(c).h, c.out.h - (k \div TilesAcross(c)) * TileExtent(c).h)
         /\ Tile(c, k).w = Least(TileExtent(c).w, c.out.w - (k % TilesAcross(c)) * TileExtent(c).w)
         /\ Tile(c, k).inH = Tile(c, k).h * c.stride + (c.kh - 1)
         /\ Tile(c, k).inW = Tile(c, k).w * c.stride + (c.kw - 1)
<1> DEFINE D == TilesDown(c)
           A == TilesAcross(c)
<1>1. D \in Nat \ {0} /\ A \in Nat \ {0}
  BY TileSizes
<1>2. k \in Nat /\ k < A * D
  <2>1. k \in 0 .. D * A - 1
    BY DEF TileIds
  <2> HIDE DEF A, D
  <2>2. D * A = A * D /\ A * D \in Nat
    BY <1>1
  <2> QED
    BY <2>1, <2>2
<1>3. k \div A \in 0 .. D - 1 /\ k % A \in 0 .. A - 1
  <2> HIDE DEF A, D
  <2> QED
    BY <1>1, <1>2, PieceExists, DivMod
<1>4. /\ Tile(c, k).h = Least(TileExtent(c).h, c.out.h - (k \div TilesAcross(c)) * TileExtent(c).h)
      /\ Tile(c, k).w = Least(TileExtent(c).w, c.out.w - (k % TilesAcross(c)) * TileExtent(c).w)
      /\ Tile(c, k).inH = Tile(c, k).h * c.stride + c.kh - 1
      /\ Tile(c, k).inW = Tile(c, k).w * c.stride + c.kw - 1
  BY DEF Tile
<1>5. c.stride \in Nat /\ c.kh \in Nat /\ c.kw \in Nat
  BY DEF CutOK
<1>6. Tile(c, k).h * c.stride \in Nat /\ Tile(c, k).w * c.stride \in Nat
  BY <1>5, TileExtents
<1>7. \A x, y \in Nat : x + y - 1 = x + (y - 1)
  OBVIOUS
<1> QED
  BY <1>3, <1>4, <1>5, <1>6, <1>7

\* What the tiles of a schedule write, fetch of the input and of the kernel.
LEMMA ScheduleMoves ==
  ASSUME NEW c, CutOK(c)
  PROVE  /\ SumFunctionOnSet([k \in TileIds(c) |-> Schedule(c)[k].traffic.output], TileIds(c)) = Volume(c.out)
         /\ SumFunctionOnSet([k \in TileIds(c) |-> Schedule(c)[k].traffic.input], TileIds(c))
              = (c.out.h * c.stride + TilesDown(c) * (c.kh - 1))
                * (c.out.w * (c.stride * c.ic) + TilesAcross(c) * ((c.kw - 1) * c.ic))
         /\ SumFunctionOnSet([k \in TileIds(c) |-> Schedule(c)[k].traffic.kernel], TileIds(c))
              = (TilesDown(c) * TilesAcross(c)) * (KernelWordsPerChannel(c) * c.ic)
         /\ \A k \in TileIds(c) : /\ Schedule(c)[k].traffic.output \in Nat \ {0}
                                  /\ Schedule(c)[k].traffic.input \in Nat
                                  /\ Schedule(c)[k].traffic.kernel \in Nat
                                  /\ Schedule(c)[k].passes \in Nat \ {0}
<1> DEFINE D == TilesDown(c)
           A == TilesAcross(c)
           th == TileExtent(c).h
           tw == TileExtent(c).w
           H == c.out.h
           W == c.out.w
           C == c.out.c
           s == c.stride
           K == KernelWordsPerChannel(c) * c.ic
           High == [i \in 0 .. D - 1 |-> Least(th, H - i * th)]
           Wide == [j \in 0 .. A - 1 |-> Least(tw, W - j * tw)]
           Deep == [j \in 0 .. A - 1 |-> Wide[j] * C]
           InHigh == [i \in 0 .. D - 1 |-> High[i] * s + (c.kh - 1)]
           InDeep == [j \in 0 .. A - 1 |-> (Wide[j] * s + (c.kw - 1)) * c.ic]
           Out == [k \in TileIds(c) |-> Schedule(c)[k].traffic.output]
           In  == [k \in TileIds(c) |-> Schedule(c)[k].traffic.input]
           Ker == [k \in TileIds(c) |-> Schedule(c)[k].traffic.kernel]
<1>1. /\ D \in Nat \ {0} /\ A \in Nat \ {0} /\ th \in Nat \ {0} /\ tw \in Nat \ {0}
      /\ H \in Nat \ {0} /\ W \in Nat \ {0}
  BY TileSizes
<1>2. D = CeilDiv(H, th) /\ A = CeilDiv(W, tw) /\ TileIds(c) = 0 .. D * A - 1
  BY DEF TilesDown, TilesAcross, TileIds
<1>3. C \in Nat \ {0} /\ s \in Nat \ {0} /\ c.ic \in Nat \ {0} /\ c.kh \in Nat \ {0} /\ c.kw \in Nat \ {0}
  BY DEF CutOK
<1>4. ASSUME NEW k \in TileIds(c)
      PROVE  /\ Schedule(c)[k].traffic = TileTraffic(c, Tile(c, k))
             /\ Schedule(c)[k].passes = NumPasses(c, Tile(c, k))
             /\ {Tile(c, k).h, Tile(c, k).w, Tile(c, k).inH, Tile(c, k).inW} \subseteq Nat \ {0}
             /\ NumPasses(c, Tile(c, k)) \in Nat \ {0}
             /\ k \div A \in 0 .. D - 1 /\ k % A \in 0 .. A - 1
             /\ Tile(c, k).h = High[k \div A] /\ Tile(c, k).w = Wide[k % A]
             /\ Tile(c, k).inH = InHigh[k \div A] /\ Tile(c, k).inW * c.ic = InDeep[k % A]
  <2>1. /\ Schedule(c)[k].traffic = TileTraffic(c, Tile(c, k))
        /\ Schedule(c)[k].passes = NumPasses(c, Tile(c, k))
    BY DEF Schedule
  <2>2. {Tile(c, k).h, Tile(c, k).w, Tile(c, k).inH, Tile(c, k).inW} \subseteq Nat \ {0}
    BY TileExtents
  <2>3. NumPasses(c, Tile(c, k)) \in Nat \ {0}
    BY <2>2, PassesOfTile
  <2>4. k \div A \in 0 .. D - 1 /\ k % A \in 0 .. A - 1
    BY TilePlace
  <2>5. /\ Tile(c, k).h = Least(th, H - (k \div A) * th) /\ Tile(c, k).w = Least(tw, W - (k % A) * tw)
        /\ Tile(c, k).inH = Tile(c, k).h * c.stride + (c.kh - 1)
        /\ Tile(c, k).inW = Tile(c, k).w * c.stride + (c.kw - 1)
    BY TilePlace
  <2> HIDE DEF D, A, th, tw, H, W
  <2>6. Tile(c, k).h = High[k \div A] /\ Tile(c, k).w = Wide[k % A]
    BY <2>4, <2>5
  <2>7. Tile(c, k).inH = InHigh[k \div A]
    BY <2>4, <2>5, <2>6
  <2>8. Tile(c, k).inW * c.ic = InDeep[k % A]
    BY <2>4, <2>5, <2>6
  <2> QED
    BY <2>1, <2>2, <2>3, <2>4, <2>6, <2>7, <2>8
<1>5. ASSUME NEW k \in TileIds(c)
      PROVE  /\ Out[k] = High[k \div A] * Deep[k % A] /\ In[k] = InHigh[k \div A] * InDeep[k % A]
             /\ Ker[k] = K /\ Out[k] \in Nat \ {0} /\ In[k] \in Nat /\ Ker[k] \in Nat
  <2> DEFINE t == Tile(c, k)
  <2>1. /\ TileTraffic(c, t).input = t.inH * t.inW * c.ic
        /\ TileTraffic(c, t).kernel = K
        /\ TileTraffic(c, t).output = TileOutputWords(c, t)
    BY <1>4, TrafficOfTile
  <2>2. /\ t.h \in Nat \ {0} /\ t.w \in Nat \ {0} /\ t.inH \in Nat \ {0} /\ t.inW \in Nat \ {0}
        /\ t.h = High[k \div A] /\ t.w = Wide[k % A]
        /\ t.inH = InHigh[k \div A] /\ t.inW * c.ic = InDeep[k % A] /\ k % A \in 0 .. A - 1
    BY <1>4
  <2>3. Deep[k % A] = Wide[k % A] * C
    BY <2>2
  <2>4. Out[k] = TileTraffic(c, t).output /\ In[k] = TileTraffic(c, t).input /\ Ker[k] = TileTraffic(c, t).kernel
    BY <1>4
  <2>5. TileOutputWords(c, t) = t.h * t.w * C
    BY DEF TileOutputWords
  <2>6. KernelWordsPerChannel(c) \in Nat
    BY <2>2, PassesOfTile
  <2>7. K \in Nat
    BY <1>3, <2>6
  <2> HIDE DEF t, High, Wide, Deep, InHigh, InDeep, Out, In, Ker, K, C, A
  <2>8. \A x, y, z \in Nat \ {0} : x * y * z = x * (y * z) /\ x * y * z \in Nat \ {0}
    OBVIOUS
  <2>9. t.h * t.w * C = t.h * (t.w * C) /\ t.h * t.w * C \in Nat \ {0}
    BY <1>3, <2>2, <2>8
  <2>10. t.inH * t.inW * c.ic = t.inH * (t.inW * c.ic) /\ t.inH * t.inW * c.ic \in Nat
    BY <1>3, <2>2, <2>8
  <2> QED
    BY <2>1, <2>2, <2>3, <2>4, <2>5, <2>7, <2>9, <2>10
<1>6. ASSUME NEW i \in 0 .. D - 1 PROVE High[i] \in Int /\ InHigh[i] \in Int
  <2> HIDE DEF D, th, H, s
  <2>1. i * th \in Int
    BY <1>1
  <2>2. High[i] = Least(th, H - i * th)
    OBVIOUS
  <2>3. High[i] \in Int
    BY <1>1, <2>1, <2>2 DEF Least
  <2> HIDE DEF High
  <2>4. InHigh[i] = High[i] * s + (c.kh - 1)
    OBVIOUS
  <2>5. High[i] * s \in Int
    BY <1>3, <2>3
  <2> QED
    BY <1>3, <2>3, <2>4, <2>5
<1>7. ASSUME NEW j \in 0 .. A - 1 PROVE Wide[j] \in Int /\ Deep[j] \in Int /\ InDeep[j] \in Int
  <2> HIDE DEF A, tw, W, s, C
  <2>1. j * tw \in Int
    BY <1>1
  <2>2. Wide[j] = Least(tw, W - j * tw)
    OBVIOUS
  <2>3. Wide[j] \in Int
    BY <1>1, <2>1, <2>2 DEF Least
  <2> HIDE DEF Wide
  <2>4. InDeep[j] = (Wide[j] * s + (c.kw - 1)) * c.ic /\ Deep[j] = Wide[j] * C
    OBVIOUS
  <2>5. Wide[j] * s \in Int /\ Wide[j] * C \in Int
    BY <1>3, <2>3
  <2>6. Wide[j] * s + (c.kw - 1) \in Int
    BY <1>3, <2>5
  <2>7. (Wide[j] * s + (c.kw - 1)) * c.ic \in Int
    BY <1>3, <2>6
  <2> QED
    BY <2>3, <2>4, <2>5, <2>7
<1>8. SumFunctionOnSet(High, 0 .. D - 1) = H
  <2>1. \A i \in 0 .. D - 1 : High[i] = Least(th, H - i * th) * 1 + 0
    <3> SUFFICES ASSUME NEW i \in 0 .. D - 1 PROVE High[i] = Least(th, H - i * th) * 1 + 0
      OBVIOUS
    <3>1. High[i] \in Int /\ High[i] = Least(th, H - i * th)
      BY <1>6
    <3> HIDE DEF High
    <3> QED
      BY <3>1
  <2> HIDE DEF High, D, th, H
  <2>2. SumFunctionOnSet(High, 0 .. D - 1) = H * 1 + D * 0
    BY <1>1, <1>2, <2>1, PiecesAddUp
  <2> QED
    BY <1>1, <2>2
<1>9. SumFunctionOnSet(InHigh, 0 .. D - 1) = H * s + D * (c.kh - 1)
  <2>1. \A i \in 0 .. D - 1 : InHigh[i] = Least(th, H - i * th) * s + (c.kh - 1)
    OBVIOUS
  <2>2. c.kh - 1 \in Nat
    BY <1>3
  <2> HIDE DEF InHigh, D, th, H, s
  <2>3. H \in Nat \ {0} /\ th \in Nat \ {0} /\ s \in Nat /\ D = CeilDiv(H, th)
    BY <1>1, <1>2, <1>3
  <2> QED
    BY <2>1, <2>2, <2>3, PiecesAddUp, SMTT(30)
<1>10. SumFunctionOnSet(Deep, 0 .. A - 1) = W * C
  <2>1. \A j \in 0 .. A - 1 : Deep[j] = Least(tw, W - j * tw) * C + 0
    <3> SUFFICES ASSUME NEW j \in 0 .. A - 1 PROVE Deep[j] = Least(tw, W - j * tw) * C + 0
      OBVIOUS
    <3>1. Deep[j] \in Int /\ Deep[j] = Least(tw, W - j * tw) * C
      BY <1>7
    <3> HIDE DEF Deep
    <3> QED
      BY <3>1
  <2> HIDE DEF Deep, A, tw, W, C
  <2>2. SumFunctionOnSet(Deep, 0 .. A - 1) = W * C + A * 0
    <3>1. W \in Nat \ {0} /\ tw \in Nat \ {0} /\ C \in Nat /\ 0 \in Nat /\ A = CeilDiv(W, tw)
      BY <1>1, <1>2, <1>3
    <3> QED
      BY <2>1, <3>1, PiecesAddUp, SMTT(30)
  <2>3. W * C \in Int /\ A * 0 = 0
    BY <1>1, <1>3
  <2> QED
    BY <2>2, <2>3
<1>11. SumFunctionOnSet(InDeep, 0 .. A - 1) = W * (s * c.ic) + A * ((c.kw - 1) * c.ic)
  <2>1. \A j \in 0 .. A - 1 : InDeep[j] = Least(tw, W - j * tw) * (s * c.ic) + (c.kw - 1) * c.ic
    <3> SUFFICES ASSUME NEW j \in 0 .. A - 1
                 PROVE  InDeep[j] = Least(tw, W - j * tw) * (s * c.ic) + (c.kw - 1) * c.ic
      OBVIOUS
    <3>1. Wide[j] \in Int /\ Wide[j] = Least(tw, W - j * tw) /\ InDeep[j] = (Wide[j] * s + (c.kw - 1)) * c.ic
      BY <1>7
    <3> HIDE DEF Wide, InDeep, s
    <3>2. \A x, y, z, i \in Int : (x * y + z) * i = x * (y * i) + z * i
      OBVIOUS
    <3>3. (Wide[j] * s + (c.kw - 1)) * c.ic = Wide[j] * (s * c.ic) + (c.kw - 1) * c.ic
      BY <1>3, <3>1, <3>2
    <3> QED
      BY <3>1, <3>3
  <2>2. s * c.ic \in Nat /\ (c.kw - 1) * c.ic \in Nat
    <3>1. c.kw - 1 \in Nat
      BY <1>3
    <3> QED
      BY <1>3, <3>1
  <2> HIDE DEF InDeep, A, tw, W, s
  <2> DEFINE p == s * c.ic  q == (c.kw - 1) * c.ic
  <2>3. p \in Nat /\ q \in Nat /\ \A j \in 0 .. A - 1 : InDeep[j] = Least(tw, W - j * tw) * p + q
    BY <2>1, <2>2
  <2> HIDE DEF p, q
  <2>4. SumFunctionOnSet(InDeep, 0 .. A - 1) = W * p + A * q
    <3>1. W \in Nat \ {0} /\ tw \in Nat \ {0} /\ A = CeilDiv(W, tw)
      BY <1>1, <1>2
    <3> QED
      BY <2>3, <3>1, PiecesAddUp, SMTT(30)
  <2> QED
    BY <2>4 DEF p, q
<1>12. SumFunctionOnSet(Out, TileIds(c)) = H * (W * C)
  <2>1. OnGrid(Out, D, A, High, Deep)
    <3>1. (\A i \in 0 .. D - 1 : High[i] \in Int) /\ (\A j \in 0 .. A - 1 : Deep[j] \in Int)
      BY <1>6, <1>7
    <3>2. \A k \in 0 .. D * A - 1 : Out[k] = High[k \div A] * Deep[k % A]
      BY <1>2, <1>5
    <3> HIDE DEF Out, High, Deep, D, A
    <3> QED
      BY <1>1, <3>1, <3>2 DEF OnGrid
  <2> HIDE DEF Out, High, Deep, D, A
  <2>2. SumFunctionOnSet(Out, 0 .. D * A - 1)
          = SumFunctionOnSet(High, 0 .. D - 1) * SumFunctionOnSet(Deep, 0 .. A - 1)
    BY <2>1, SumOfGrid
  <2> QED
    BY <1>2, <1>8, <1>10, <2>2
<1>13. SumFunctionOnSet(In, TileIds(c))
         = (H * s + D * (c.kh - 1)) * (W * (s * c.ic) + A * ((c.kw - 1) * c.ic))
  <2>1. OnGrid(In, D, A, InHigh, InDeep)
    <3>1. (\A i \in 0 .. D - 1 : InHigh[i] \in Int) /\ (\A j \in 0 .. A - 1 : InDeep[j] \in Int)
      BY <1>6, <1>7
    <3>2. \A k \in 0 .. D * A - 1 : In[k] = InHigh[k \div A] * InDeep[k % A]
      BY <1>2, <1>5
    <3> HIDE DEF In, InHigh, InDeep, D, A
    <3> QED
      BY <1>1, <3>1, <3>2 DEF OnGrid
  <2> HIDE DEF In, InHigh, InDeep, D, A
  <2>2. SumFunctionOnSet(In, 0 .. D * A - 1)
          = SumFunctionOnSet(InHigh, 0 .. D - 1) * SumFunctionOnSet(InDeep, 0 .. A - 1)
    BY <2>1, SumOfGrid
  <2> QED
    BY <1>2, <1>9, <1>11, <2>2
<1>14. SumFunctionOnSet(Ker, TileIds(c)) = (D * A) * K
  <2> DEFINE n == D * A
             P == [k \in 0 .. n |-> k * K]
  <2>0. 0 \in TileIds(c)
    <3>1. D * A \in Nat \ {0}
      BY <1>1
    <3> QED
      BY <1>2, <3>1
  <2>1. K \in Nat /\ n \in Nat
    <3>1. Ker[0] = K /\ Ker[0] \in Nat
      BY <1>5, <2>0
    <3> QED
      BY <1>1, <3>1
  <2>2. \A k \in 0 .. n - 1 : Ker[k] = K
    BY <1>2, <1>5
  <2> HIDE DEF n, Ker, K
  <2>3. \A k \in 0 .. n : P[k] \in Int
    BY <2>1
  <2>4. \A k \in 0 .. n - 1 : Ker[k] = P[k + 1] - P[k]
    <3> SUFFICES ASSUME NEW k \in 0 .. n - 1 PROVE Ker[k] = P[k + 1] - P[k]
      OBVIOUS
    <3>1. (k + 1) * K = k * K + K /\ k * K \in Int
      BY <2>1
    <3>2. P[k + 1] = (k + 1) * K /\ P[k] = k * K
      <4>1. k \in 0 .. n /\ k + 1 \in 0 .. n
        BY <2>1
      <4> QED
        BY <4>1
    <3> QED
      BY <2>1, <2>2, <3>1, <3>2
  <2>5. P[n] = n * K /\ P[0] = 0
    BY <2>1
  <2>6. n * K \in Int
    BY <2>1
  <2> HIDE DEF P
  <2>7. SumFunctionOnSet(Ker, 0 .. n - 1) = P[n] - P[0]
    BY <2>1, <2>3, <2>4, SumTelescopes
  <2> QED
    BY <1>2, <2>5, <2>6, <2>7 DEF n
<1>15. H * (W * C) = Volume(c.out)
  <2>1. Volume(c.out) = H * W * C
    BY DEF Volume
  <2> HIDE DEF H, W, C
  <2> QED
    BY <1>1, <1>3, <2>1
<1>16. \A k \in TileIds(c) : /\ Schedule(c)[k].traffic.output \in Nat \ {0}
                              /\ Schedule(c)[k].traffic.input \in Nat
                              /\ Schedule(c)[k].traffic.kernel \in Nat
                              /\ Schedule(c)[k].passes \in Nat \ {0}
  BY <1>4, <1>5
<1> QED
  BY <1>12, <1>13, <1>14, <1>15, <1>16

LEMMA MachineSizes ==
  ASSUME NEW m \in Machines
  PROVE  /\ m.gbKb \in Nat \ {0} /\ m.elem \in Nat \ {0} /\ m.inKb \in Nat /\ m.wtKb \in Nat /\ m.outKb \in Nat
         /\ m.ports.in \in Nat /\ m.ports.wt \in Nat /\ m.ports.out \in Nat
  BY ExecutionAssumption

\* A tile search finds a tile: the best of some tiles is one of them.
LEMMA BestExists ==
  ASSUME NEW p, NEW T, T # {},
         \A t \in T : /\ TileCount(p, t.h, t.w, t.c) \in Nat /\ t.h * t.w * t.c \in Nat
                      /\ t.c \in Nat /\ t.w \in Nat,
         NEW most \in Nat, \A t \in T : t.h * t.w * t.c <= most
  PROVE  Best(p, T) \in T
<1> DEFINE N(t) == TileCount(p, t.h, t.w, t.c)
           V(t) == t.h * t.w * t.c
           Ns == {N(t) : t \in T}
<1>0. \A t \in T : N(t) \in Nat /\ V(t) \in Nat /\ V(t) <= most /\ t.c \in Nat /\ t.w \in Nat
  OBVIOUS
<1> HIDE DEF N, V
<1>1. PICK n \in Ns : \A k \in Ns : n <= k
  <2>1. Ns \subseteq Nat /\ Ns # {}
    BY <1>0
  <2> HIDE DEF Ns
  <2> QED
    BY <2>1, LeastNatural
<1> DEFINE T1 == {t \in T : N(t) = n}
           Vs == {most - V(t) : t \in T1}
<1>2. T1 # {} /\ \A t \in T : n <= N(t)
  BY <1>1
<1>3. PICK v \in Vs : \A k \in Vs : v <= k
  <2>1. Vs \subseteq Nat /\ Vs # {}
    BY <1>0, <1>2
  <2> HIDE DEF Vs
  <2> QED
    BY <2>1, LeastNatural
<1> DEFINE T2a == {t \in T1 : most - V(t) = v}
           Cs == {t.c : t \in T2a}
<1>4. T2a # {} /\ \A t \in T1 : v <= most - V(t)
  BY <1>3
<1>5. PICK c \in Cs : \A k \in Cs : c <= k
  <2>1. Cs \subseteq Nat /\ Cs # {}
    BY <1>0, <1>4
  <2> HIDE DEF Cs
  <2> QED
    BY <2>1, LeastNatural
<1> DEFINE T3a == {t \in T2a : t.c = c}
           Ws == {t.w : t \in T3a}
<1>6. T3a # {} /\ \A t \in T2a : c <= t.c
  BY <1>5
<1>7. PICK w \in Ws : \A k \in Ws : w <= k
  <2>1. Ws \subseteq Nat /\ Ws # {}
    BY <1>0, <1>6
  <2> HIDE DEF Ws
  <2> QED
    BY <2>1, LeastNatural
<1>8. PICK t \in T3a : t.w = w
  BY <1>7
<1>9. t \in T /\ N(t) = n /\ most - V(t) = v /\ t.c = c /\ t.w = w
  BY <1>8
<1>10. ASSUME NEW u \in T
       PROVE  \/ N(t) < N(u)
              \/ N(t) = N(u) /\ V(t) > V(u)
              \/ N(t) = N(u) /\ V(t) = V(u) /\ (t.c < u.c \/ (t.c = u.c /\ t.w <= u.w))
  <2>0. /\ N(u) \in Nat /\ V(u) \in Nat /\ u.c \in Nat /\ u.w \in Nat
        /\ N(t) \in Nat /\ V(t) \in Nat /\ t.c \in Nat /\ t.w \in Nat
    BY <1>0, <1>9
  <2>1. n <= N(u)
    BY <1>2
  <2>2. N(u) = n => u \in T1 /\ v <= most - V(u)
    BY <1>4
  <2>3. N(u) = n /\ most - V(u) = v => u \in T2a /\ c <= u.c
    BY <1>6, <2>2
  <2>4. N(u) = n /\ most - V(u) = v /\ u.c = c => w <= u.w
    BY <1>7, <2>3
  <2> HIDE DEF T1, T2a, T3a, Ns, Vs, Cs, Ws
  <2>5. CASE N(u) # n
    <3>1. N(t) = n
      BY <1>9
    <3>2. N(t) < N(u)
      BY <2>0, <2>1, <2>5, <3>1
    <3> QED
      BY <3>2
  <2>6. CASE N(u) = n /\ most - V(u) # v
    BY <1>9, <2>0, <2>2, <2>6
  <2>7. CASE N(u) = n /\ most - V(u) = v
    BY <1>9, <2>0, <2>3, <2>4, <2>7
  <2> QED
    BY <2>5, <2>6, <2>7
<1>11. \E x \in T : \A u \in T :
         LET nn == TileCount(p, x.h, x.w, x.c)  mm == TileCount(p, u.h, u.w, u.c)
             xx == x.h * x.w * x.c              yy == u.h * u.w * u.c
         IN  \/ nn < mm
             \/ nn = mm /\ xx > yy
             \/ nn = mm /\ xx = yy /\ (x.c < u.c \/ (x.c = u.c /\ x.w <= u.w))
  BY <1>9, <1>10 DEF N, V
<1> QED
  BY <1>11 DEF Best

LEMMA TallestNat ==
  ASSUME NEW limit \in Int, NEW one \in Int, NEW two \in Int, NEW height \in Nat
  PROVE  Tallest(limit, one, two, height) \in 0 .. height
<1> DEFINE a == IF two > one THEN two - one ELSE 1
           b == IF one > a THEN one - a ELSE 0
<1>1. a \in Nat \ {0} /\ b \in Nat
  OBVIOUS
<1>2. Tallest(limit, one, two, height) = IF limit <= b THEN 0 ELSE Least(height, (limit - b) \div a)
  BY DEF Tallest
<1> HIDE DEF a, b
<1>3. CASE limit <= b
  BY <1>2, <1>3
<1>4. CASE ~(limit <= b)
  <2>1. limit - b \in Nat
    BY <1>1, <1>4
  <2>2. (limit - b) \div a \in Nat
    BY <1>1, <2>1, DivMod
  <2> QED
    BY <1>2, <1>4, <2>2 DEF Least
<1> QED
  BY <1>3, <1>4

\* A search problem with an output, an input, a kernel and a buffer.
ProblemOK(p) ==
  /\ {p.out.h, p.out.w, p.out.c, p.ic, p.kh, p.kw, p.stride, p.elem, p.gb, p.cap, p.buffers} \subseteq Nat \ {0}

LEMMA Products ==
  /\ \A x, y \in Nat : x * y \in Nat
  /\ \A x, y \in Nat \ {0} : x * y \in Nat \ {0}
  /\ \A x, y, z \in Nat \ {0} : x * y * z \in Nat \ {0}
OBVIOUS

LEMMA CostsAre ==
  ASSUME NEW p, ProblemOK(p), NEW h \in Nat \ {0}, NEW w \in Nat \ {0}, NEW c \in Nat
  PROVE  Footprint(p, h, w) \in Nat /\ WorkingSet(p, h, w, c) \in Nat
<1>1. /\ p.ic \in Nat /\ p.kh \in Nat \ {0} /\ p.kw \in Nat \ {0} /\ p.stride \in Nat \ {0}
      /\ p.elem \in Nat /\ p.buffers \in Nat
  BY DEF ProblemOK
<1>2. ASSUME NEW t \in Nat \ {0}, NEW k \in Nat \ {0} PROVE InputExtent(t, p, k) \in Nat
  <2>1. t * p.stride \in Nat \ {0}
    BY <1>1
  <2> QED
    BY <1>1, <2>1 DEF InputExtent
<1> DEFINE a == InputExtent(h, p, p.kh)  b == InputExtent(w, p, p.kw)
<1>3. a \in Nat /\ b \in Nat
  BY <1>1, <1>2
<1>4. Footprint(p, h, w) = a * b * p.ic * p.elem
  BY DEF Footprint
<1> HIDE DEF a, b
<1>5. a * b \in Nat
  BY <1>3
<1>6. a * b * p.ic \in Nat
  BY <1>1, <1>5
<1>7. Footprint(p, h, w) \in Nat
  BY <1>1, <1>4, <1>6
<1> DEFINE x == h * w * c * p.elem  y == p.buffers * Footprint(p, h, w)  z == p.kh * p.kw * p.ic * c * p.elem
<1>8. x \in Nat
  <2>1. h * w \in Nat
    OBVIOUS
  <2>2. h * w * c \in Nat
    BY <2>1
  <2> QED
    BY <1>1, <2>2
<1>9. y \in Nat
  BY <1>1, <1>7
<1>10. z \in Nat
  <2>1. p.kh * p.kw \in Nat
    BY <1>1
  <2>2. p.kh * p.kw * p.ic \in Nat
    BY <1>1, <2>1
  <2>3. p.kh * p.kw * p.ic * c \in Nat
    BY <2>2
  <2> QED
    BY <1>1, <2>3
<1>11. WorkingSet(p, h, w, c) = (x + y) + z
  BY DEF WorkingSet
<1> HIDE DEF x, y, z
<1> QED
  BY <1>7, <1>8, <1>9, <1>10, <1>11

LEMMA CountNat ==
  ASSUME NEW p, ProblemOK(p), NEW h \in Nat \ {0}, NEW w \in Nat \ {0}, NEW c \in Nat \ {0}
  PROVE  TileCount(p, h, w, c) \in Nat
<1>1. p.out.h \in Nat \ {0} /\ p.out.w \in Nat \ {0} /\ p.out.c \in Nat \ {0}
  BY DEF ProblemOK
<1>2. CeilDiv(p.out.h, h) \in Nat /\ CeilDiv(p.out.w, w) \in Nat /\ CeilDiv(p.out.c, c) \in Nat
  BY <1>1, CeilDivNat
<1>3. CeilDiv(p.out.h, h) * CeilDiv(p.out.w, w) \in Nat
  BY <1>2
<1> QED
  BY <1>2, <1>3 DEF TileCount

\* The best of some tiles no larger than the output.
LEMMA BestIsOne ==
  ASSUME NEW p, ProblemOK(p), NEW T, T # {},
         \A t \in T : t.h \in 1 .. p.out.h /\ t.w \in 1 .. p.out.w /\ t.c \in 1 .. p.out.c
  PROVE  Best(p, T).h \in Nat /\ Best(p, T).w \in Nat
<1>1. p.out.h \in Nat /\ p.out.w \in Nat /\ p.out.c \in Nat
  BY DEF ProblemOK
<1> DEFINE most == p.out.h * p.out.w * p.out.c
<1>2. most \in Nat
  <2>1. p.out.h * p.out.w \in Nat
    BY <1>1
  <2> QED
    BY <1>1, <2>1
<1>3. ASSUME NEW t \in T
      PROVE  /\ TileCount(p, t.h, t.w, t.c) \in Nat /\ t.h * t.w * t.c \in Nat
             /\ t.c \in Nat /\ t.w \in Nat /\ t.h \in Nat /\ t.h * t.w * t.c <= most
  <2>1. /\ t.h \in Nat \ {0} /\ t.w \in Nat \ {0} /\ t.c \in Nat \ {0}
        /\ t.h <= p.out.h /\ t.w <= p.out.w /\ t.c <= p.out.c
    BY <1>1
  <2>2. TileCount(p, t.h, t.w, t.c) \in Nat
    BY <2>1, CountNat
  <2>3. t.h * t.w <= p.out.h * p.out.w
    <3>1. t.h * t.w <= t.h * p.out.w
      BY <1>1, <2>1
    <3>2. p.out.w * t.h <= p.out.w * p.out.h
      BY <1>1, <2>1, TimesMono
    <3>3. t.h * t.w \in Nat /\ t.h * p.out.w \in Nat /\ p.out.h * p.out.w \in Nat
          /\ p.out.w * t.h = t.h * p.out.w /\ p.out.w * p.out.h = p.out.h * p.out.w
      BY <1>1, <2>1
    <3> QED
      BY <3>1, <3>2, <3>3
  <2> DEFINE a == t.h * t.w  b == p.out.h * p.out.w
  <2>4. a \in Nat /\ b \in Nat
    BY <1>1, <2>1
  <2>5. a <= b
    BY <2>3
  <2> HIDE DEF a, b
  <2>6. a * t.c <= b * p.out.c /\ a * t.c \in Nat
    <3>1. a * t.c <= a * p.out.c
      BY <1>1, <2>1, <2>4
    <3>2. p.out.c * a <= p.out.c * b
      BY <1>1, <2>4, <2>5, TimesMono
    <3>3. a * t.c \in Nat /\ a * p.out.c \in Nat /\ b * p.out.c \in Nat
          /\ p.out.c * a = a * p.out.c /\ p.out.c * b = b * p.out.c
      BY <1>1, <2>1, <2>4
    <3> QED
      BY <3>1, <3>2, <3>3
  <2> QED
    BY <2>1, <2>2, <2>6 DEF a, b
<1> HIDE DEF most
<1>4. Best(p, T) \in T
  BY <1>2, <1>3, BestExists
<1> QED
  BY <1>3, <1>4

\* What is searched for is a tile.
LEMMA FoundTile ==
  ASSUME NEW p, ProblemOK(p), NEW strategy
  PROVE  SearchOutputTile(p, strategy).h \in Nat /\ SearchOutputTile(p, strategy).w \in Nat
<1>1. /\ p.out.h \in Nat \ {0} /\ p.out.w \in Nat \ {0} /\ p.out.c \in Nat \ {0} /\ p.gb \in Nat \ {0}
      /\ p.elem \in Nat \ {0} /\ p.cap \in Nat \ {0}
  BY DEF ProblemOK
<1>2. ASSUME NEW T, \A t \in T : /\ t.h \in 0 .. p.out.h /\ t.w \in 1 .. p.out.w /\ t.c \in 1 .. p.out.c
      PROVE  \A t \in {x \in T : x.h >= 1} : t.h \in 1 .. p.out.h /\ t.w \in 1 .. p.out.w /\ t.c \in 1 .. p.out.c
  BY <1>1, <1>2
<1>3. CASE strategy = "min_tiles"
  <2> DEFINE Height(w, c) == Tallest(p.gb, WorkingSet(p, 1, w, c), WorkingSet(p, 2, w, c), p.out.h)
             tiles == {[h |-> Height(w, c), w |-> w, c |-> c] : w \in 1 .. p.out.w, c \in 1 .. p.out.c}
             usable == {t \in tiles : t.h >= 1}
             tried  == {t \in usable : \A u \in usable :
                          u.c < t.c => CeilDiv(p.out.c, t.c) < TileCount(p, u.h, u.w, u.c)}
             best   == Best(p, tried)
  <2>1. \A w \in 1 .. p.out.w, c \in 1 .. p.out.c : Height(w, c) \in 0 .. p.out.h
    <3> SUFFICES ASSUME NEW w \in 1 .. p.out.w, NEW c \in 1 .. p.out.c PROVE Height(w, c) \in 0 .. p.out.h
      OBVIOUS
    <3>1. w \in Nat \ {0} /\ c \in Nat /\ 1 \in Nat \ {0} /\ 2 \in Nat \ {0}
      BY <1>1
    <3>2. WorkingSet(p, 1, w, c) \in Nat /\ WorkingSet(p, 2, w, c) \in Nat
      BY <3>1, CostsAre
    <3>3. /\ p.gb \in Int /\ WorkingSet(p, 1, w, c) \in Int /\ WorkingSet(p, 2, w, c) \in Int
          /\ p.out.h \in Nat
      BY <1>1, <3>2
    <3> QED
      BY <3>3, TallestNat
  <2>2. \A t \in tiles : t.h \in 0 .. p.out.h /\ t.w \in 1 .. p.out.w /\ t.c \in 1 .. p.out.c
    <3> HIDE DEF Height
    <3> QED
      BY <2>1
  <2> HIDE DEF tiles
  <2>3. \A t \in usable : t.h \in 1 .. p.out.h /\ t.w \in 1 .. p.out.w /\ t.c \in 1 .. p.out.c
    BY <1>2, <2>2
  <2> HIDE DEF usable
  <2>4. usable # {} => tried # {}
    <3> SUFFICES ASSUME usable # {} PROVE tried # {}
      OBVIOUS
    <3> DEFINE Cs == {t.c : t \in usable}
    <3>1. Cs \subseteq Nat /\ Cs # {}
      BY <1>1, <2>3
    <3>2. PICK c \in Cs : \A k \in Cs : c <= k
      <4> HIDE DEF Cs
      <4> QED
        BY <3>1, LeastNatural
    <3>3. PICK t \in usable : t.c = c
      BY <3>2
    <3>4. \A u \in usable : ~(u.c < t.c)
      <4> SUFFICES ASSUME NEW u \in usable PROVE ~(u.c < t.c)
        OBVIOUS
      <4>1. u.c \in Cs /\ u.c \in Nat /\ c \in Nat
        BY <3>1, <3>2
      <4>2. c <= u.c
        BY <3>2, <4>1
      <4> QED
        BY <3>3, <4>1, <4>2
    <3> QED
      BY <3>3, <3>4
  <2>5. usable # {} => best.h \in Nat /\ best.w \in Nat
    <3>1. \A t \in tried : t.h \in 1 .. p.out.h /\ t.w \in 1 .. p.out.w /\ t.c \in 1 .. p.out.c
      BY <2>3
    <3> HIDE DEF tried
    <3> QED
      BY <2>4, <3>1, BestIsOne
  <2>6. SearchMinTiles(p) = IF p.gb = 0 THEN WholeLayer(p)
          ELSE IF usable = {}
          THEN Found(p, 1, 1, 1, WorkingSet(p, 1, 1, 1), Volume(p.out), FALSE)
          ELSE Found(p, best.h, best.w, best.c, WorkingSet(p, best.h, best.w, best.c),
                     TileCount(p, best.h, best.w, best.c), TRUE)
    BY DEF SearchMinTiles, usable, tiles
  <2> HIDE DEF best
  <2>7. SearchMinTiles(p).h \in Nat /\ SearchMinTiles(p).w \in Nat
    <3>1. p.gb # 0
      BY <1>1
    <3>2. CASE usable = {}
      BY <2>6, <3>1, <3>2 DEF Found
    <3>3. CASE usable # {}
      BY <2>5, <2>6, <3>1, <3>3 DEF Found
    <3> QED
      BY <3>2, <3>3
  <2> QED
    BY <1>3, <2>7 DEF SearchOutputTile
<1>4. CASE strategy # "min_tiles"
  <2> DEFINE cap == ResidentCap(p)
  <2>1. cap \in Nat \ {0}
    BY <1>1 DEF ResidentCap
  <2> HIDE DEF cap
  <2>2. SearchOutputStationary(p, cap).h \in Nat /\ SearchOutputStationary(p, cap).w \in Nat
    <3> DEFINE budget == cap \div p.elem
               c == Most(1, Least(p.out.c, budget))
               w == Most(1, Least(p.out.w, budget \div c))
               h == Most(1, Least(p.out.h, budget \div (c * w)))
    <3>1. budget \in Nat
      BY <1>1, <2>1, DivMod
    <3>2. SearchOutputStationary(p, cap).h = h /\ SearchOutputStationary(p, cap).w = w
      BY DEF SearchOutputStationary, Found
    <3> HIDE DEF budget
    <3>3. c \in Nat \ {0}
      BY <1>1, <3>1 DEF Most, Least
    <3> HIDE DEF c
    <3>4. budget \div c \in Nat
      BY <3>1, <3>3, DivMod
    <3>5. w \in Nat \ {0}
      BY <1>1, <3>4 DEF Most, Least
    <3> HIDE DEF w
    <3>6. c * w \in Nat \ {0}
      BY <3>3, <3>5
    <3>7. budget \div (c * w) \in Nat
      BY <3>1, <3>6, DivMod
    <3>8. h \in Nat
      BY <1>1, <3>7 DEF Most, Least
    <3> QED
      BY <3>2, <3>5, <3>8
  <2>3. SearchWeightStationary(p, cap).h = p.out.h /\ SearchWeightStationary(p, cap).w = p.out.w
    BY DEF SearchWeightStationary, Found
  <2>4. SearchInputStationary(p, cap).h \in Nat /\ SearchInputStationary(p, cap).w \in Nat
    <3> DEFINE Height(w) == Tallest(cap, Footprint(p, 1, w), Footprint(p, 2, w), p.out.h)
               tiles == {[h |-> Tallest(cap, Footprint(p, 1, w), Footprint(p, 2, w), p.out.h),
                          w |-> w, c |-> p.out.c] : w \in 1 .. p.out.w}
               usable == {t \in tiles : t.h >= 1}
               best   == Best(p, usable)
    <3>1. \A w \in 1 .. p.out.w : Height(w) \in 0 .. p.out.h
      <4> SUFFICES ASSUME NEW w \in 1 .. p.out.w PROVE Height(w) \in 0 .. p.out.h
        OBVIOUS
      <4>1. w \in Nat \ {0} /\ 1 \in Nat \ {0} /\ 2 \in Nat \ {0} /\ 0 \in Nat
        BY <1>1
      <4>2. Footprint(p, 1, w) \in Nat /\ Footprint(p, 2, w) \in Nat
        BY <4>1, CostsAre
      <4>3. cap \in Int /\ Footprint(p, 1, w) \in Int /\ Footprint(p, 2, w) \in Int /\ p.out.h \in Nat
        BY <1>1, <2>1, <4>2
      <4> QED
        BY <4>3, TallestNat
    <3>2. \A t \in tiles : t.h \in 0 .. p.out.h /\ t.w \in 1 .. p.out.w /\ t.c \in 1 .. p.out.c
      <4>1. p.out.c \in 1 .. p.out.c
        BY <1>1
      <4>2. \A t \in tiles : \E w \in 1 .. p.out.w : t = [h |-> Height(w), w |-> w, c |-> p.out.c]
        OBVIOUS
      <4> HIDE DEF Height, tiles
      <4> QED
        BY <3>1, <4>1, <4>2
    <3> HIDE DEF tiles
    <3>3. \A t \in usable : t.h \in 1 .. p.out.h /\ t.w \in 1 .. p.out.w /\ t.c \in 1 .. p.out.c
      BY <1>2, <3>2
    <3>4. usable # {} => best.h \in Nat /\ best.w \in Nat
      <4> HIDE DEF usable
      <4> QED
        BY <3>3, BestIsOne
    <3>5. SearchInputStationary(p, cap) =
            IF usable = {}
            THEN Found(p, 1, 1, p.out.c, Footprint(p, 1, 1), p.out.h * p.out.w, FALSE)
            ELSE Found(p, best.h, best.w, p.out.c, Footprint(p, best.h, best.w),
                       TileCount(p, best.h, best.w, p.out.c), TRUE)
      BY DEF SearchInputStationary, tiles
    <3> HIDE DEF usable, best
    <3>6. CASE usable = {}
      BY <3>5, <3>6 DEF Found
    <3>7. CASE usable # {}
      BY <3>4, <3>5, <3>7 DEF Found
    <3> QED
      BY <3>6, <3>7
  <2>5. SearchDataflow(p) \in {WholeLayer(p), SearchOutputStationary(p, cap),
                               SearchWeightStationary(p, cap), SearchInputStationary(p, cap)}
    <3>1. CASE p.dataflow = "OS"
      BY <2>1, <3>1 DEF SearchDataflow, cap
    <3>2. CASE p.dataflow = "WS"
      BY <2>1, <3>2 DEF SearchDataflow, cap
    <3>3. CASE p.dataflow \notin {"OS", "WS"}
      BY <2>1, <3>3 DEF SearchDataflow, cap
    <3> QED
      BY <3>1, <3>2, <3>3
  <2>6. WholeLayer(p).h = p.out.h /\ WholeLayer(p).w = p.out.w
    BY DEF WholeLayer, Found
  <2>7. SearchDataflow(p).h \in Nat /\ SearchDataflow(p).w \in Nat
    BY <1>1, <2>2, <2>3, <2>4, <2>5, <2>6
  <2> QED
    BY <1>4, <2>7 DEF SearchOutputTile
<1> QED
  BY <1>3, <1>4

LEMMA NonEmptyIs ==
  ASSUME NEW s, s.h \in Nat, s.w \in Nat, s.c \in Nat
  PROVE  /\ NonEmpty(s).h \in Nat \ {0} /\ NonEmpty(s).w \in Nat \ {0} /\ NonEmpty(s).c \in Nat \ {0}
         /\ s.h > 0 => NonEmpty(s).h = s.h
         /\ s.w > 0 => NonEmpty(s).w = s.w
         /\ s.c > 0 => NonEmpty(s).c = s.c
BY DEF NonEmpty, Shape, Most

\* The shape, the stride and the tile of a loaded layer.
LEMMA LayerSizes ==
  ASSUME NEW l, LayerOK(l)
  PROVE  /\ l.input.shape.h \in Nat /\ l.input.shape.w \in Nat /\ l.input.shape.c \in Nat
         /\ l.weight.shape.h \in Nat /\ l.weight.shape.w \in Nat /\ l.weight.shape.c \in Nat
         /\ l.output.shape.h \in Nat /\ l.output.shape.w \in Nat /\ l.output.shape.c \in Nat
         /\ l.input.words \in Nat /\ l.weight.words \in Nat /\ l.output.words \in Nat
         /\ l.input.words = Volume(l.input.shape) /\ l.output.words = Volume(l.output.shape)
         /\ l.stride \in Nat /\ l.tile.r \in Nat /\ l.tile.c \in Nat
         /\ l.lat.fW \in Nat /\ l.lat.fO \in Nat /\ l.lat.nMin \in Nat /\ l.lat.nMax \in Nat
<1>1. TensorOK(l.input) /\ TensorOK(l.weight) /\ TensorOK(l.output)
  BY DEF LayerOK
<1>2. ASSUME NEW t, TensorOK(t)
      PROVE  t.words \in Nat /\ t.shape.h \in Nat /\ t.shape.w \in Nat /\ t.shape.c \in Nat
  BY <1>2 DEF TensorOK
<1>3. /\ l.input.words = Volume(l.input.shape) /\ l.output.words = Volume(l.output.shape)
      /\ l.stride \in Nat /\ l.tile.r \in Nat /\ l.tile.c \in Nat
      /\ l.lat.fW \in Nat /\ l.lat.fO \in Nat /\ l.lat.nMin \in Nat /\ l.lat.nMax \in Nat
  BY DEF LayerOK
<1> QED
  BY <1>1, <1>2, <1>3

LEMMA RequestNat ==
  ASSUME NEW m \in Machines, NEW l, LayerOK(l)
  PROVE  TileRequest(m, l).h \in Nat /\ TileRequest(m, l).w \in Nat
<1> DEFINE p == SearchProblem(m, l)
           out == NonEmpty(l.output.shape)
<1>1. out.h \in Nat \ {0} /\ out.w \in Nat \ {0} /\ out.c \in Nat \ {0}
  BY LayerSizes, NonEmptyIs
<1>2. /\ l.tile.r \in Nat /\ l.tile.c \in Nat /\ l.stride \in Nat /\ l.input.shape.c \in Nat
      /\ l.weight.shape.h \in Nat /\ l.weight.shape.w \in Nat
  BY LayerSizes
<1>3. m.elem \in Nat \ {0} /\ GbBytes(m) \in Nat \ {0}
  BY MachineSizes, Sizes
<1>4. ASSUME NEW n \in Nat PROVE Most(1, n) \in Nat \ {0}
  BY DEF Most
<1>5. ProblemOK(p)
  <2>1. /\ Most(1, l.input.shape.c) \in Nat \ {0} /\ Most(1, l.weight.shape.h) \in Nat \ {0}
        /\ Most(1, l.weight.shape.w) \in Nat \ {0} /\ Most(1, l.stride) \in Nat \ {0}
    BY <1>2, <1>4
  <2>2. /\ p.out = out /\ p.ic = Most(1, l.input.shape.c) /\ p.kh = Most(1, l.weight.shape.h)
        /\ p.kw = Most(1, l.weight.shape.w) /\ p.stride = Most(1, l.stride) /\ p.elem = m.elem
        /\ p.cap = GbBytes(m) /\ p.gb = GbBytes(m) /\ p.buffers = 2
    BY DEF SearchProblem
  <2> HIDE DEF p, out
  <2> QED
    BY <1>1, <1>3, <2>1, <2>2 DEF ProblemOK
<1> HIDE DEF p
<1>6. SearchOutputTile(p, m.strategy).h \in Nat /\ SearchOutputTile(p, m.strategy).w \in Nat
  BY <1>5, FoundTile
<1> DEFINE found == SearchOutputTile(p, m.strategy)
<1>7. TileRequest(m, l) = IF m.spill /\ m.strategy \in {"dataflow", "min_tiles"}
                           THEN [h |-> found.h, w |-> found.w]
                           ELSE [h |-> IF l.tile.r > 0 THEN l.tile.r ELSE out.h,
                                 w |-> IF l.tile.c > 0 THEN l.tile.c ELSE out.w]
  BY DEF TileRequest, p
<1> HIDE DEF found, out
<1>8. CASE m.spill /\ m.strategy \in {"dataflow", "min_tiles"}
  BY <1>6, <1>7, <1>8 DEF found
<1>9. CASE ~(m.spill /\ m.strategy \in {"dataflow", "min_tiles"})
  BY <1>1, <1>2, <1>7, <1>9
<1> QED
  BY <1>8, <1>9

\* The cut a loaded layer is run with is a legal one.
LEMMA RunCutOK ==
  ASSUME NEW m \in Machines, NEW l, LayerOK(l)
  PROVE  CutOK(RunCut(m, l))
<1> DEFINE c == RunCut(m, l)
           out == NonEmpty(l.output.shape)
           tile == TileRequest(m, l)
<1>1. out.h \in Nat \ {0} /\ out.w \in Nat \ {0} /\ out.c \in Nat \ {0}
  BY LayerSizes, NonEmptyIs
<1>2. /\ l.stride \in Nat /\ l.input.shape.c \in Nat
      /\ l.weight.shape.h \in Nat /\ l.weight.shape.w \in Nat
  BY LayerSizes
<1>3. tile.h \in Nat /\ tile.w \in Nat
  BY RequestNat
<1>4. m.gbKb \in Nat /\ m.inKb \in Nat /\ m.wtKb \in Nat /\ m.outKb \in Nat
  BY MachineSizes
<1>5. ASSUME NEW n \in Nat PROVE Most(1, n) \in Nat \ {0}
  BY DEF Most
<1>6. /\ Most(1, l.input.shape.c) \in Nat \ {0} /\ Most(1, l.weight.shape.h) \in Nat \ {0}
      /\ Most(1, l.weight.shape.w) \in Nat \ {0} /\ Most(1, l.stride) \in Nat \ {0}
  BY <1>2, <1>5
<1> DEFINE dw == l.type = "DepthwiseConv2D"
<1>7. /\ c.out = out /\ c.ic = Most(1, l.input.shape.c) /\ c.kh = Most(1, l.weight.shape.h)
      /\ c.kw = Most(1, l.weight.shape.w) /\ c.stride = Most(1, l.stride) /\ c.kb = m.gbKb
      /\ c.th = tile.h /\ c.tw = tile.w /\ c.inKb = m.inKb /\ c.wtKb = m.wtKb /\ c.outKb = m.outKb
      /\ c.depthwise = dw
  BY DEF RunCut
<1>8. dw \in BOOLEAN
  OBVIOUS
<1> HIDE DEF c, out, tile, dw
<1>9. {c.out.h, c.out.w, c.out.c, c.ic, c.kh, c.kw, c.stride} \subseteq Nat \ {0}
  BY <1>1, <1>6, <1>7
<1>10. {c.kb, c.th, c.tw, c.inKb, c.wtKb, c.outKb} \subseteq Nat
  BY <1>3, <1>4, <1>7
<1>11. c.depthwise \in BOOLEAN
  BY <1>7, <1>8, Zenon
<1>12. CutOK(c)
  BY <1>9, <1>10, <1>11, Zenon DEF CutOK
<1> QED
  BY <1>12 DEF c

\* A tile's transaction before and after what does not change its operations.
LEMMA TxnIs ==
  ASSUME NEW entry, NEW k, NEW res, NEW inTotal, NEW wtTotal, NEW elem, NEW passes, NEW m, NEW l, NEW cut,
         NEW low, low = TileTxn(entry, k, res, inTotal, wtTotal, elem, passes),
         NEW t, t = Spilled(m, cut, entry, Boundary(m, l, low))
  PROVE  /\ t.inOps = low.inOps /\ t.wtOps = low.wtOps
         /\ (l.skip = 0 \/ m.sparsity # "remove") => t.outOps = low.outOps
         /\ l.skip = 0 /\ m.ratio = [in |-> 1, wt |-> 1, out |-> 1] =>
              t.inBytes = low.inBytes /\ t.wtBytes = low.wtBytes /\ t.outBytes = low.outBytes
<1> DEFINE in  == StreamedOperands(res.input, k, inTotal, entry.traffic.input)
           wt  == StreamedOperands(res.weight, k, wtTotal, entry.traffic.kernel)
           out == entry.traffic.output
           s == [low EXCEPT !.inBytes = Squeezed(@, m.ratio.in), !.wtBytes = Squeezed(@, m.ratio.wt),
                            !.outBytes = Squeezed(@, m.ratio.out)]
           kp == [s EXCEPT !.inBytes = Kept(l, @)]
           b == Boundary(m, l, low)
<1>1. low = [inOps |-> in, wtOps |-> wt, outOps |-> out * Most(1, passes),
             passes |-> entry.passes,
             inBytes |-> in * Most(1, elem), wtBytes |-> wt * Most(1, elem),
             outBytes |-> out * Most(1, elem), spillRd |-> 0, spillWr |-> 0]
  BY DEF TileTxn
<1> HIDE DEF in, wt, out
<1>2. /\ s.inOps = low.inOps /\ s.wtOps = low.wtOps /\ s.outOps = low.outOps
      /\ s.inBytes = Squeezed(low.inBytes, m.ratio.in)
      /\ s.wtBytes = Squeezed(low.wtBytes, m.ratio.wt)
      /\ s.outBytes = Squeezed(low.outBytes, m.ratio.out)
      /\ DOMAIN s = {"inOps", "wtOps", "outOps", "passes", "inBytes", "wtBytes", "outBytes", "spillRd", "spillWr"}
  BY <1>1
<1> HIDE DEF s
<1>3. /\ kp.inOps = low.inOps /\ kp.wtOps = low.wtOps /\ kp.outOps = low.outOps
      /\ DOMAIN kp = DOMAIN s
  BY <1>2
<1> HIDE DEF kp
<1>4. b = IF l.skip = 0 THEN s
          ELSE IF m.sparsity # "remove" THEN kp
          ELSE [kp EXCEPT !.wtBytes = Kept(l, @), !.outOps = Kept(l, @)]
  BY DEF Boundary, s, kp
<1>5. /\ b.inOps = low.inOps /\ b.wtOps = low.wtOps
      /\ (l.skip = 0 \/ m.sparsity # "remove") => b.outOps = low.outOps
      /\ l.skip = 0 => b = s
      /\ DOMAIN b = {"inOps", "wtOps", "outOps", "passes", "inBytes", "wtBytes", "outBytes", "spillRd", "spillWr"}
  <2> HIDE DEF b
  <2>1. CASE l.skip = 0
    BY <1>2, <1>4, <2>1
  <2>2. CASE l.skip # 0 /\ m.sparsity # "remove"
    BY <1>2, <1>3, <1>4, <2>2
  <2>3. CASE l.skip # 0 /\ m.sparsity = "remove"
    BY <1>2, <1>3, <1>4, <2>3
  <2> QED
    BY <2>1, <2>2, <2>3
<1> HIDE DEF b
<1>6. /\ t.inOps = b.inOps /\ t.wtOps = b.wtOps /\ t.outOps = b.outOps
      /\ t.inBytes = b.inBytes /\ t.wtBytes = b.wtBytes /\ t.outBytes = b.outBytes
  BY <1>5 DEF Spilled, b
<1>7. l.skip = 0 /\ m.ratio = [in |-> 1, wt |-> 1, out |-> 1] =>
        t.inBytes = low.inBytes /\ t.wtBytes = low.wtBytes /\ t.outBytes = low.outBytes
  BY <1>2, <1>5, <1>6 DEF Squeezed
<1> QED
  BY <1>5, <1>6, <1>7

\* The schedule a loaded layer is run with.
LEMMA RunScheduleIs ==
  ASSUME NEW m, NEW l, NEW held, NEW cut, cut = RunCut(m, l), NEW sched, sched = Schedule(cut),
         NEW ws, ws = KernelWorkingSet(m, cut, sched),
         NEW kept, kept = KeptResidency(m, l, InputWorkingSet(m, cut, sched), ws),
         NEW txns, txns = Transactions(m, l, cut, sched, kept),
         NEW s, s = LayerSchedule(m, l, held)
  PROVE  s = Forwarded(txns, Forwardable(m, l, held, kept, ws))
<1>1. \A f : Tabulated(f) = f
  BY DEF Tabulated
<1>2. s = ScheduleOf(m, l, held, cut, Tabulated(Schedule(cut)))
  BY DEF LayerSchedule
<1>3. s = ScheduleOf(m, l, held, cut, sched)
  BY <1>1, <1>2
<1>4. s = ScheduleKeeping(m, l, held, cut, sched, kept)
  BY <1>3 DEF ScheduleOf
<1>5. Tabulated(txns) = txns
  BY <1>1
<1> QED
  BY <1>4, <1>5 DEF ScheduleKeeping

\* The greatest of three numbers.
LEMMA MaxOfThree ==
  ASSUME NEW x \in Nat, NEW y \in Nat, NEW z \in Nat
  PROVE  Max({x, y, z}) \in Nat
<1> DEFINE b == x + y + z
<1>1. b \in Int /\ {x, y, z} \subseteq 0 .. b /\ {x, y, z} # {} /\ 0 \in Int
  OBVIOUS
<1>2. Max({x, y, z}) \in {x, y, z}
  BY <1>1, MaxIn
<1> QED
  BY <1>2

\* The rounded-up quotient is no more than the dividend, and falls with the divisor.
LEMMA CeilDivFalls ==
  ASSUME NEW a \in Nat \ {0}, NEW b \in Nat \ {0}, NEW c \in Nat \ {0}, b <= c
  PROVE  CeilDiv(a, b) <= a /\ CeilDiv(a, c) <= CeilDiv(a, b)
<1> DEFINE q == CeilDiv(a, b)
<1>1. q \in Nat \ {0} /\ a <= b * q /\ \A n \in Nat : a <= b * n => q <= n
  BY CeilDivEnough
<1>2. \A n \in Nat : a <= c * n => CeilDiv(a, c) <= n
  BY CeilDivEnough
<1> HIDE DEF q
<1>3. a <= b * a
  <2>1. a * 1 <= a * b
    BY TimesMono
  <2> QED
    BY <2>1
<1>4. a <= c * q
  <2>1. q * b <= q * c /\ q * b = b * q /\ q * c = c * q /\ b * q \in Int /\ c * q \in Int
    BY <1>1, TimesMono
  <2> QED
    BY <1>1, <2>1
<1>5. q <= a
  BY <1>1, <1>3
<1>6. CeilDiv(a, c) <= q
  BY <1>1, <1>2, <1>4
<1> QED
  BY <1>5, <1>6 DEF q

\* A tile emits at least its outputs at the issue width and at most one at a time.
LEMMA EmissionBounds ==
  ASSUME NEW m \in Machines, NEW lat, lat.nMin \in Nat, lat.nMax \in Nat,
         NEW t, t.inOps \in Nat, t.wtOps \in Nat, t.outOps \in Nat \ {0}
  PROVE  /\ Emissions(m, lat, t) \in Nat /\ Emissions(m, lat, t) <= t.outOps
         /\ t.outOps <= Most(1, lat.nMax) * Emissions(m, lat, t)
<1> DEFINE wide  == Most(1, lat.nMax)
           ideal == CeilDiv(t.outOps, wide)
           fIn == PortCycles(t.inOps, m.ports.in)
           fWt == PortCycles(t.wtOps, m.ports.wt)
           fOut == PortCycles(t.outOps, m.ports.out)
           feed == Max({fIn, fWt, fOut})
           floor == EmitFloor(m, lat)
           e == Emissions(m, lat, t)
<1>1. wide \in Nat \ {0} /\ floor \in Nat \ {0}
  <2>1. Most(1, lat.nMax) \in Nat \ {0} /\ Most(1, lat.nMin) \in Nat \ {0}
    BY DEF Most
  <2> QED
    BY <2>1 DEF EmitFloor
<1>2. feed \in Nat
  <2>1. m.ports.in \in Nat /\ m.ports.wt \in Nat /\ m.ports.out \in Nat
    BY MachineSizes
  <2>2. \A ops, port \in Nat : PortCycles(ops, port) \in Nat
    <3>1. ASSUME NEW ops \in Nat, NEW port \in Nat PROVE PortCycles(ops, port) \in Nat
      <4>1. CASE port = 0
        BY <4>1 DEF PortCycles
      <4>2. CASE port # 0
        BY <4>2, CeilDivNat DEF PortCycles
      <4> QED
        BY <4>1, <4>2
    <3> QED
      BY <3>1
  <2>3. fIn \in Nat /\ fWt \in Nat /\ fOut \in Nat
    BY <2>1, <2>2
  <2> HIDE DEF fIn, fWt, fOut
  <2> QED
    BY <2>3, MaxOfThree
<1>3. e = IF feed > ideal /\ floor < wide THEN Least(feed, CeilDiv(t.outOps, floor)) ELSE ideal
  BY DEF Emissions
<1>4. ideal \in Nat \ {0} /\ t.outOps <= wide * ideal
  BY <1>1, CeilDivEnough
<1>5. ideal <= t.outOps
  BY <1>1, CeilDivFalls
<1> HIDE DEF feed, floor, wide
<1>6. floor < wide => /\ CeilDiv(t.outOps, floor) \in Nat \ {0}
                      /\ CeilDiv(t.outOps, floor) <= t.outOps
                      /\ ideal <= CeilDiv(t.outOps, floor)
  <2> SUFFICES ASSUME floor < wide
               PROVE  /\ CeilDiv(t.outOps, floor) \in Nat \ {0}
                      /\ CeilDiv(t.outOps, floor) <= t.outOps
                      /\ ideal <= CeilDiv(t.outOps, floor)
    OBVIOUS
  <2> HIDE DEF floor
  <2>1. floor <= wide
    BY <1>1
  <2>2. CeilDiv(t.outOps, floor) \in Nat \ {0}
    BY <1>1, CeilDivEnough
  <2>3. CeilDiv(t.outOps, floor) <= t.outOps /\ ideal <= CeilDiv(t.outOps, floor)
    BY <1>1, <2>1, CeilDivFalls
  <2> QED
    BY <2>2, <2>3
<1> DEFINE most == CeilDiv(t.outOps, floor)
<1> HIDE DEF ideal, e, most
<1>7. e \in Nat /\ e <= t.outOps /\ ideal <= e
  <2>1. CASE feed > ideal /\ floor < wide
    <3>1. e = Least(feed, most) /\ most \in Nat \ {0} /\ most <= t.outOps /\ ideal <= most
      BY <1>3, <1>6, <2>1 DEF most
    <3> QED
      BY <1>2, <1>4, <2>1, <3>1 DEF Least
  <2>2. CASE ~(feed > ideal /\ floor < wide)
    BY <1>3, <1>4, <1>5, <2>2
  <2> QED
    BY <2>1, <2>2
<1>8. wide * ideal <= wide * e /\ wide * ideal \in Int /\ wide * e \in Int
  BY <1>1, <1>4, <1>7, TimesMono
<1>9. t.outOps <= wide * e
  BY <1>4, <1>7, <1>8
<1> QED
  BY <1>7, <1>9 DEF e, wide

\* What a layer's tiles move and emit, operand by operand.
LEMMA TotalIs ==
  ASSUME NEW lat, NEW s
  PROVE  /\ Total(lat, s).forwarded = s.forwarded
         /\ Total(lat, s).in = SumFunction([k \in DOMAIN s.txns |-> s.txns[k].inBytes])
         /\ Total(lat, s).wt = SumFunction([k \in DOMAIN s.txns |-> s.txns[k].wtBytes])
         /\ Total(lat, s).out = SumFunction([k \in DOMAIN s.txns |-> s.txns[k].outBytes])
         /\ Total(lat, s).emits = SumFunction([k \in DOMAIN s.txns |-> Emissions(machine, lat, s.txns[k])])
BY DEF Total, TxnTotal

LEMMA ForwardedIs ==
  ASSUME NEW txns, NEW forward
  PROVE  LET s == Forwarded(txns, forward)
         IN  /\ DOMAIN s.txns = DOMAIN txns
             /\ s.txns = IF forward THEN [k \in DOMAIN txns |-> [txns[k] EXCEPT !.inBytes = 0]] ELSE txns
             /\ s.forwarded = IF forward THEN SumFunction([k \in DOMAIN txns |-> txns[k].inBytes]) ELSE 0
BY DEF Forwarded, TxnTotal

\* The fields of one transaction of a loaded layer.
LEMMA TxnFields ==
  ASSUME NEW m \in Machines, NEW l, LayerOK(l), NEW cut, cut = RunCut(m, l),
         NEW sched, sched = Schedule(cut), NEW kept, NEW txns, txns = Transactions(m, l, cut, sched, kept),
         NEW passes, passes = Most(1, l.lat.fO \div Volume(cut.out)),
         NEW k \in TileIds(cut),
         NEW in, in = StreamedOperands(kept.input, k, l.input.words, sched[k].traffic.input),
         NEW wt, wt = StreamedOperands(kept.weight, k, l.lat.fW, sched[k].traffic.kernel)
  PROVE  /\ DOMAIN txns = TileIds(cut)
         /\ txns[k].inOps = in /\ txns[k].wtOps = wt /\ in \in Nat /\ wt \in Nat
         /\ (l.skip = 0 \/ m.sparsity # "remove") =>
              txns[k].outOps = passes * sched[k].traffic.output
         /\ l.skip = 0 /\ m.ratio = [in |-> 1, wt |-> 1, out |-> 1] =>
              /\ txns[k].inBytes = m.elem * in /\ txns[k].wtBytes = m.elem * wt
              /\ txns[k].outBytes = m.elem * sched[k].traffic.output
         /\ passes \in Nat \ {0} /\ sched[k].traffic.output \in Nat \ {0}
<1> DEFINE out == sched[k].traffic.output
           low == TileTxn(sched[k], k, kept, l.input.words, l.lat.fW, m.elem, passes)
<1>1. CutOK(cut)
  BY RunCutOK
<1>2. DOMAIN sched = TileIds(cut)
  BY DEF Schedule
<1>3. /\ out \in Nat \ {0} /\ sched[k].traffic.input \in Nat /\ sched[k].traffic.kernel \in Nat
  BY <1>1, ScheduleMoves
<1>4. /\ l.input.words \in Nat /\ l.lat.fW \in Nat /\ l.lat.fO \in Nat
  BY LayerSizes
<1>5. in \in Nat /\ wt \in Nat
  BY <1>3, <1>4 DEF StreamedOperands
<1>6. passes \in Nat \ {0} /\ Most(1, passes) = passes
  <2>1. Volume(cut.out) \in Nat \ {0}
    <3>1. cut.out.h \in Nat \ {0} /\ cut.out.w \in Nat \ {0} /\ cut.out.c \in Nat \ {0}
      BY <1>1 DEF CutOK
    <3> QED
      BY <3>1, Products DEF Volume
  <2>2. l.lat.fO \div Volume(cut.out) \in Nat
    BY <1>4, <2>1
  <2> QED
    BY <2>2 DEF Most
<1>7. m.elem \in Nat \ {0} /\ Most(1, m.elem) = m.elem
  BY MachineSizes DEF Most
<1>8. /\ low.inOps = in /\ low.wtOps = wt /\ low.outOps = out * passes
      /\ low.inBytes = in * m.elem /\ low.wtBytes = wt * m.elem /\ low.outBytes = out * m.elem
  BY <1>6, <1>7 DEF TileTxn
<1>9. txns[k] = Spilled(m, cut, sched[k], Boundary(m, l, low)) /\ DOMAIN txns = TileIds(cut)
  BY <1>2 DEF Transactions, Lower
<1> HIDE DEF low
<1>10. low = TileTxn(sched[k], k, kept, l.input.words, l.lat.fW, m.elem, passes)
  BY DEF low
<1>11. /\ txns[k].inOps = low.inOps /\ txns[k].wtOps = low.wtOps
       /\ (l.skip = 0 \/ m.sparsity # "remove") => txns[k].outOps = low.outOps
       /\ l.skip = 0 /\ m.ratio = [in |-> 1, wt |-> 1, out |-> 1] =>
            txns[k].inBytes = low.inBytes /\ txns[k].wtBytes = low.wtBytes /\ txns[k].outBytes = low.outBytes
  BY <1>9, <1>10, TxnIs
<1> HIDE DEF out
<1>12. out * passes = passes * out /\ in * m.elem = m.elem * in /\ wt * m.elem = m.elem * wt /\ out * m.elem = m.elem * out
  BY <1>3, <1>5, <1>6, <1>7
<1> QED
  <2>1. out = sched[k].traffic.output
    BY DEF out
  <2> QED
    BY <1>3, <1>5, <1>6, <1>8, <1>9, <1>11, <1>12, <2>1

LEMMA TilesFinite ==
  ASSUME NEW c, CutOK(c)
  PROVE  IsFiniteSet(TileIds(c)) /\ 0 \in TileIds(c) /\ TileIds(c) \subseteq Nat
<1> DEFINE D == TilesDown(c)  A == TilesAcross(c)
<1>1. D \in Nat \ {0} /\ A \in Nat \ {0}
  BY TileSizes
<1>2. TileIds(c) = 0 .. D * A - 1
  BY DEF TileIds
<1> HIDE DEF D, A
<1>3. D * A \in Nat \ {0}
  BY <1>1, Products
<1>4. D * A - 1 \in Nat
  BY <1>3
<1> QED
  BY <1>2, <1>4, FS_Interval

\* s.txns are txns, or that without the input's bytes: then they are what is forwarded.
SentAs(s, txns, D) ==
  /\ DOMAIN txns = D /\ DOMAIN s.txns = D
  /\ \A k \in D : /\ s.txns[k].inOps = txns[k].inOps /\ s.txns[k].wtOps = txns[k].wtOps
                  /\ s.txns[k].outOps = txns[k].outOps /\ s.txns[k].outBytes = txns[k].outBytes
                  /\ s.txns[k].wtBytes = txns[k].wtBytes
  /\ \/ s.forwarded = 0 /\ \A k \in D : s.txns[k].inBytes = txns[k].inBytes
     \/ /\ s.forwarded = SumFunction([k \in DOMAIN txns |-> txns[k].inBytes])
        /\ \A k \in D : s.txns[k].inBytes = 0

\* The transactions a loaded layer is run with: forwarding changes only the bytes of the input.
LEMMA RunTxns ==
  ASSUME NEW m \in Machines, NEW l, LayerOK(l), NEW held, NEW cut, cut = RunCut(m, l),
         NEW sched, sched = Schedule(cut),
         NEW passes, passes = Most(1, l.lat.fO \div Volume(cut.out)),
         NEW s, s = LayerSchedule(m, l, held),
         NEW ws, ws = KernelWorkingSet(m, cut, sched),
         NEW kept, kept = KeptResidency(m, l, InputWorkingSet(m, cut, sched), ws),
         NEW txns, txns = Transactions(m, l, cut, sched, kept)
  PROVE  SentAs(s, txns, TileIds(cut))
<1> DEFINE forward == Forwardable(m, l, held, kept, ws)
<1>1. s = Forwarded(txns, forward)
  BY RunScheduleIs
<1>2. DOMAIN txns = TileIds(cut)
  BY DEF Transactions, Schedule
<1>3. ASSUME NEW k \in TileIds(cut)
      PROVE  txns[k] = [x \in DOMAIN txns[k] |-> txns[k][x]] /\ "inBytes" \in DOMAIN txns[k]
  <2> DEFINE lowered == Lower(sched, kept, l.input.words, l.lat.fW, m.elem, passes)
  <2>1. txns[k] = Spilled(m, cut, sched[k], Boundary(m, l, lowered[k]))
    BY DEF Transactions, Schedule
  <2> DEFINE b == Boundary(m, l, lowered[k])
  <2>2. DOMAIN lowered[k] = {"inOps", "wtOps", "outOps", "passes", "inBytes", "wtBytes", "outBytes", "spillRd", "spillWr"}
    BY DEF Lower, TileTxn, Schedule
  <2> HIDE DEF lowered
  <2>3. b = [x \in DOMAIN lowered[k] |-> b[x]]
    BY DEF Boundary
  <2> HIDE DEF b
  <2>4. txns[k] = [x \in DOMAIN b |-> txns[k][x]] /\ DOMAIN txns[k] = DOMAIN b
    BY <2>1 DEF Spilled, b
  <2> QED
    BY <2>2, <2>3, <2>4
<1>4. /\ DOMAIN s.txns = DOMAIN txns
      /\ s.txns = IF forward THEN [j \in DOMAIN txns |-> [txns[j] EXCEPT !.inBytes = 0]] ELSE txns
      /\ s.forwarded = IF forward THEN SumFunction([k \in DOMAIN txns |-> txns[k].inBytes]) ELSE 0
  <2> HIDE DEF forward
  <2> QED
    BY <1>1, ForwardedIs
<1> HIDE DEF forward
<1>5. ASSUME NEW k \in TileIds(cut)
      PROVE  /\ s.txns[k].inOps = txns[k].inOps /\ s.txns[k].wtOps = txns[k].wtOps
             /\ s.txns[k].outOps = txns[k].outOps /\ s.txns[k].outBytes = txns[k].outBytes
             /\ s.txns[k].wtBytes = txns[k].wtBytes
             /\ s.txns[k].inBytes = IF forward THEN 0 ELSE txns[k].inBytes
  <2>1. CASE forward
    <3>1. s.txns[k] = [txns[k] EXCEPT !.inBytes = 0]
      BY <1>2, <1>4, <2>1
    <3> DEFINE t == txns[k]
    <3>2. s.txns[k] = [t EXCEPT !.inBytes = 0] /\ t = [x \in DOMAIN t |-> t[x]] /\ "inBytes" \in DOMAIN t
      BY <1>3, <3>1
    <3> HIDE DEF t
    <3>3. /\ s.txns[k].inOps = t.inOps /\ s.txns[k].wtOps = t.wtOps
          /\ s.txns[k].outOps = t.outOps /\ s.txns[k].outBytes = t.outBytes
          /\ s.txns[k].wtBytes = t.wtBytes /\ s.txns[k].inBytes = 0
      BY <3>2
    <3> QED
      BY <2>1, <3>3 DEF t
  <2>2. CASE ~forward
    BY <1>4, <2>2
  <2> QED
    BY <2>1, <2>2
<1>6. CASE forward
  BY <1>2, <1>4, <1>5, <1>6 DEF SentAs
<1>7. CASE ~forward
  BY <1>2, <1>4, <1>5, <1>7 DEF SentAs
<1> QED
  BY <1>6, <1>7

\* The emissions of a loaded layer: at most one for each write, enough for all of them.
LEMMA EmissionsOfLayer ==
  ASSUME NEW m \in Machines, m = machine, NEW l, LayerOK(l), NEW held,
         NEW out, out = Volume(NonEmpty(l.output.shape)), l.lat.fO >= out, l.lat.fO % out = 0,
         l.skip = 0 \/ m.sparsity # "remove",
         NEW e, e = Total(l.lat, LayerSchedule(m, l, held)).emits
  PROVE  e <= l.lat.fO /\ l.lat.fO <= e * Most(1, l.lat.nMax)
<1> DEFINE cut == RunCut(m, l)
           sched == Schedule(cut)
           s == LayerSchedule(m, l, held)
           kept == KeptResidency(m, l, InputWorkingSet(m, cut, sched), KernelWorkingSet(m, cut, sched))
           txns == Transactions(m, l, cut, sched, kept)
           D == TileIds(cut)
           passes == Most(1, l.lat.fO \div Volume(cut.out))
           wide == Most(1, l.lat.nMax)
           emit == [k \in D |-> Emissions(m, l.lat, s.txns[k])]
           ops == [k \in D |-> passes * sched[k].traffic.output]
           all == [k \in D |-> wide * emit[k]]
           words == [k \in D |-> sched[k].traffic.output]
<1>1. CutOK(cut) /\ IsFiniteSet(D) /\ 0 \in D
  BY RunCutOK, TilesFinite
<1>2. SentAs(s, txns, D)
  <2>1. cut = RunCut(m, l) /\ sched = Schedule(cut)
    OBVIOUS
  <2> HIDE DEF cut, sched, s, kept, txns
  <2> QED
    BY <2>1, RunTxns DEF s, kept, txns
<1>3. SumFunctionOnSet(words, D) = Volume(cut.out) /\ \A k \in D : words[k] \in Nat \ {0}
  BY <1>1, ScheduleMoves
<1>4. Volume(cut.out) = out
  BY DEF RunCut
<1>5. out \in Nat \ {0} /\ l.lat.fO \in Nat /\ l.lat.nMin \in Nat /\ l.lat.nMax \in Nat
  <2>1. cut.out.h \in Nat \ {0} /\ cut.out.w \in Nat \ {0} /\ cut.out.c \in Nat \ {0}
    BY <1>1 DEF CutOK
  <2>2. Volume(cut.out) \in Nat \ {0}
    BY <2>1, Products DEF Volume
  <2> QED
    BY <1>4, <2>2, LayerSizes
<1>6. wide \in Nat \ {0}
  BY <1>5 DEF Most
<1>7. passes \in Nat /\ passes * out = l.lat.fO
  <2> HIDE DEF cut
  <2> DEFINE f == l.lat.fO
             q == f \div out
  <2>0. f \in Nat /\ out \in Nat \ {0} /\ f >= out /\ f % out = 0
    BY <1>5
  <2>2. passes = Most(1, q)
    BY <1>4
  <2> HIDE DEF f, passes
  <2>1. q \in Nat /\ f = out * q + (f % out)
    BY <2>0, DivMod
  <2> HIDE DEF q
  <2>3. f = out * q /\ f >= out /\ out * q = q * out
    BY <2>0, <2>1
  <2>4. q # 0
    BY <2>0, <2>1, <2>3
  <2>5. passes = q
    BY <2>1, <2>2, <2>4 DEF Most
  <2> QED
    BY <2>1, <2>3, <2>5 DEF f
<1> HIDE DEF txns, kept, s
<1>8. DOMAIN s.txns = D
  BY <1>2 DEF SentAs
<1>9. ASSUME NEW k \in D
      PROVE  /\ s.txns[k].outOps = ops[k] /\ ops[k] \in Nat \ {0}
             /\ s.txns[k].inOps \in Nat /\ s.txns[k].wtOps \in Nat
  <2> DEFINE in == StreamedOperands(kept.input, k, l.input.words, sched[k].traffic.input)
             wt == StreamedOperands(kept.weight, k, l.lat.fW, sched[k].traffic.kernel)
  <2>1. /\ txns[k].inOps = in /\ txns[k].wtOps = wt /\ in \in Nat /\ wt \in Nat
        /\ txns[k].outOps = passes * sched[k].traffic.output
        /\ passes \in Nat \ {0} /\ sched[k].traffic.output \in Nat \ {0}
    <3>1. txns = Transactions(m, l, cut, sched, kept)
      BY DEF txns
    <3> HIDE DEF cut, sched, passes, s
    <3>2. cut = RunCut(m, l) /\ sched = Schedule(cut) /\ passes = Most(1, l.lat.fO \div Volume(cut.out))
      BY DEF cut, sched, passes
    <3> QED
      BY <3>1, <3>2, TxnFields
  <2>3. /\ s.txns[k].outOps = txns[k].outOps /\ s.txns[k].inOps = txns[k].inOps
        /\ s.txns[k].wtOps = txns[k].wtOps
    BY <1>2 DEF SentAs
  <2>4. ops[k] = passes * sched[k].traffic.output
    OBVIOUS
  <2> HIDE DEF s, D, ops, passes, sched
  <2>5. passes * sched[k].traffic.output \in Nat \ {0}
    BY <2>1, Products
  <2> QED
    BY <2>1, <2>3, <2>4, <2>5
<1>10. ASSUME NEW k \in D
       PROVE  emit[k] \in Nat /\ emit[k] <= ops[k] /\ ops[k] <= all[k] /\ all[k] \in Int /\ ops[k] \in Int
  <2> DEFINE t == s.txns[k]
  <2>1. emit[k] = Emissions(m, l.lat, t) /\ all[k] = wide * emit[k]
    OBVIOUS
  <2> HIDE DEF s, D, ops, emit, all, wide
  <2>2. t.outOps = ops[k] /\ ops[k] \in Nat \ {0} /\ t.inOps \in Nat /\ t.wtOps \in Nat
    BY <1>9
  <2> HIDE DEF t
  <2>3. Emissions(m, l.lat, t) \in Nat /\ Emissions(m, l.lat, t) <= t.outOps
        /\ t.outOps <= Most(1, l.lat.nMax) * Emissions(m, l.lat, t)
    BY <1>5, <2>2, EmissionBounds
  <2>4. wide * emit[k] \in Int
    BY <1>6, <2>1, <2>3
  <2> QED
    BY <2>1, <2>2, <2>3, <2>4 DEF wide
<1>11. e = SumFunctionOnSet(emit, D)
  <2>0. e = Total(l.lat, s).emits
    BY DEF s
  <2> HIDE DEF s
  <2>1. e = SumFunction([k \in DOMAIN s.txns |-> Emissions(machine, l.lat, s.txns[k])])
    BY <2>0, TotalIs
  <2>2. e = SumFunction(emit)
    BY <1>8, <2>1
  <2>3. DOMAIN emit = D
    OBVIOUS
  <2> HIDE DEF emit, D
  <2> QED
    BY <2>2, <2>3 DEF SumFunction
<1> HIDE DEF s
<1>12. SumFunctionOnSet(ops, D) = passes * SumFunctionOnSet(words, D)
  <2>1. \A k \in D : ops[k] = passes * words[k]
    OBVIOUS
  <2> HIDE DEF ops, words, D, passes
  <2> QED
    BY <1>1, <1>3, <1>7, <2>1, SumScales
<1>13. SumFunctionOnSet(all, D) = wide * SumFunctionOnSet(emit, D)
  <2>1. \A k \in D : all[k] = wide * emit[k]
    OBVIOUS
  <2> HIDE DEF all, emit, D, wide
  <2> QED
    BY <1>1, <1>6, <1>10, <2>1, SumScales
<1> HIDE DEF ops, words, emit, all, D, passes, wide
<1>14. SumFunctionOnSet(emit, D) <= SumFunctionOnSet(ops, D)
  <2>1. \A k \in D : emit[k] \in Int /\ ops[k] \in Int /\ emit[k] <= ops[k]
    BY <1>10
  <2> QED
    BY <1>1, <2>1, SumMono
<1>15. SumFunctionOnSet(ops, D) <= SumFunctionOnSet(all, D)
  <2>1. \A k \in D : all[k] \in Int /\ ops[k] \in Int /\ ops[k] <= all[k]
    BY <1>10
  <2> QED
    BY <1>1, <2>1, SumMono
<1>16. SumFunctionOnSet(ops, D) = l.lat.fO
  BY <1>3, <1>4, <1>7, <1>12
<1>17. e \in Nat
  BY <1>1, <1>10, <1>11, SumNat
<1>18. wide * e = e * wide
  BY <1>6, <1>17
<1> QED
  BY <1>11, <1>13, <1>14, <1>15, <1>16, <1>18 DEF wide

LEMMA ProductMono ==
  ASSUME NEW a \in Nat, NEW b \in Nat, NEW c \in Nat, NEW d \in Nat, a <= c, b <= d
  PROVE  a * b <= c * d
<1>1. a * b <= a * d
  BY TimesMono
<1>2. d * a <= d * c /\ a * d = d * a /\ d * c = c * d
  BY TimesMono
<1>3. a * b \in Int /\ a * d \in Int /\ c * d \in Int
  OBVIOUS
<1> QED
  BY <1>1, <1>2, <1>3

\* The rows (or columns) of the input are those the windows of all the tiles read.
LEMMA HaloCovers ==
  ASSUME NEW ih \in Nat, NEW wh \in Nat, NEW s \in Nat \ {0}, NEW h \in Nat \ {0},
         h = (ih - wh) \div s + 1, NEW kh \in Nat \ {0}, wh <= kh, NEW d \in Nat \ {0}
  PROVE  ih <= h * s + d * (kh - 1)
<1> DEFINE a == ih - wh
           q == a \div s
<1>1. a \in Int /\ q = h - 1
  OBVIOUS
<1>2. a = s * q + (a % s) /\ a % s \in 0 .. s - 1
  BY <1>1
<1>3. h * s = s * (h - 1) + s
  OBVIOUS
<1>4. 1 * (kh - 1) <= d * (kh - 1) /\ d * (kh - 1) \in Int
  <2>1. kh - 1 \in Nat /\ 1 \in Nat /\ d \in Nat /\ 1 <= d
    OBVIOUS
  <2> QED
    BY <2>1, ProductMono
<1> DEFINE p == h * s  r == d * (kh - 1)  u == s * (h - 1)
<1> HIDE DEF q
<1>5. p \in Int /\ u \in Int
  OBVIOUS
<1>6. a < u + s
  BY <1>1, <1>2
<1> HIDE DEF p, r, u
<1>7. p = u + s /\ kh - 1 <= r /\ r \in Int
  BY <1>3, <1>4 DEF p, r, u
<1>8. ih < p + wh
  BY <1>5, <1>6, <1>7
<1> QED
  BY <1>5, <1>7, <1>8 DEF p, r

\* What is kept is streamed once, with the first tile.
LEMMA KeptOnce ==
  ASSUME NEW D, IsFiniteSet(D), 0 \in D, NEW total \in Nat, NEW F,
         \A k \in D : F[k] = IF k = 0 THEN total ELSE 0
  PROVE  SumFunctionOnSet(F, D) >= total
<1>1. \A x \in D : F[x] \in Nat /\ F[x] \in Int
  OBVIOUS
<1>2. SumFunctionOnSet(F, D) = F[0] + SumFunctionOnSet(F, D \ {0})
  BY <1>1, SumTakes
<1>3. IsFiniteSet(D \ {0})
  BY FS_RemoveElement
<1>4. SumFunctionOnSet(F, D \ {0}) \in Nat
  BY <1>1, <1>3, SumNat
<1> QED
  BY <1>1, <1>2, <1>4

\* The input the tiles read is at least the whole input.
LEMMA InputCovered ==
  ASSUME NEW h \in Nat \ {0}, NEW w \in Nat \ {0}, NEW s \in Nat \ {0}, NEW kh \in Nat \ {0},
         NEW kw \in Nat \ {0}, NEW ic \in Nat \ {0}, NEW d \in Nat \ {0}, NEW a \in Nat \ {0},
         NEW ih \in Nat, NEW iw \in Nat, NEW c \in Nat, c <= ic,
         ih <= h * s + d * (kh - 1), iw <= w * s + a * (kw - 1)
  PROVE  ih * iw * c <= (h * s + d * (kh - 1)) * (w * (s * ic) + a * ((kw - 1) * ic))
<1> DEFINE p == h * s + d * (kh - 1)
           q == w * s + a * (kw - 1)
<1>1. p \in Nat /\ q \in Nat
  <2>1. h * s \in Nat /\ w * s \in Nat /\ kh - 1 \in Nat /\ kw - 1 \in Nat
    OBVIOUS
  <2>2. d * (kh - 1) \in Nat /\ a * (kw - 1) \in Nat
    BY <2>1
  <2> QED
    BY <2>1, <2>2
<1>2. w * (s * ic) + a * ((kw - 1) * ic) = q * ic
  <2>1. \A x, y \in Nat : (x + y) * ic = x * ic + y * ic
    OBVIOUS
  <2>2. \A x, y \in Nat : (x * y) * ic = x * (y * ic)
    OBVIOUS
  <2>3. w * s \in Nat /\ kw - 1 \in Nat
    OBVIOUS
  <2>4. a * (kw - 1) \in Nat
    BY <2>3
  <2>5. (w * s) * ic = w * (s * ic)
    BY <2>2
  <2>6. (a * (kw - 1)) * ic = a * ((kw - 1) * ic)
    BY <2>2, <2>3
  <2>7. q * ic = (w * s) * ic + (a * (kw - 1)) * ic
    BY <2>1, <2>3, <2>4
  <2> QED
    BY <2>5, <2>6, <2>7
<1>3. ih <= p /\ iw <= q
  OBVIOUS
<1> HIDE DEF p, q
<1>4. ih * iw \in Nat /\ p * q \in Nat /\ ic \in Nat /\ ih * iw <= p * q
  BY <1>1, <1>3, ProductMono
<1>5. (ih * iw) * c <= (p * q) * ic
  BY <1>4, ProductMono
<1>6. (p * q) * ic = p * (q * ic)
  BY <1>1
<1> QED
  BY <1>2, <1>5, <1>6 DEF p

\* F are the transfers of an operand of so many elements: all of it with the first tile,
\* or what every tile needs of it.
Moves(F, D, elem, total, per) ==
  \/ \A k \in D : F[k] = elem * (IF k = 0 THEN total ELSE 0)
  \/ \A k \in D : F[k] = elem * per[k]

LEMMA OperandSum ==
  ASSUME NEW D, IsFiniteSet(D), 0 \in D, NEW elem \in Nat, NEW total \in Nat, NEW per,
         \A k \in D : per[k] \in Nat, NEW F, Moves(F, D, elem, total, per),
         NEW least \in Nat, least <= total, least <= SumFunctionOnSet(per, D)
  PROVE  SumFunctionOnSet(F, D) >= least * elem
<1> DEFINE once == [k \in D |-> IF k = 0 THEN total ELSE 0]
<1>1. ASSUME NEW G, \A k \in D : G[k] \in Int, least <= SumFunctionOnSet(G, D),
             \A k \in D : F[k] = elem * G[k]
      PROVE  SumFunctionOnSet(F, D) >= least * elem
  <2>1. SumFunctionOnSet(G, D) \in Int /\ elem \in Int
    BY <1>1, SumInt
  <2>2. SumFunctionOnSet(F, D) = elem * SumFunctionOnSet(G, D)
    BY <1>1, <2>1, SumScales
  <2>3. elem * least <= elem * SumFunctionOnSet(G, D) /\ elem * least = least * elem
    BY <1>1, <2>1, TimesMono
  <2> QED
    BY <2>1, <2>2, <2>3
<1>2. CASE \A k \in D : F[k] = elem * (IF k = 0 THEN total ELSE 0)
  <2>1. \A k \in D : once[k] \in Int /\ F[k] = elem * once[k] /\ once[k] = IF k = 0 THEN total ELSE 0
    BY <1>2
  <2> HIDE DEF once
  <2>2. SumFunctionOnSet(once, D) >= total /\ SumFunctionOnSet(once, D) \in Int
    BY <2>1, KeptOnce, SumInt
  <2>3. least <= SumFunctionOnSet(once, D)
    BY <2>2
  <2> QED
    BY <1>1, <2>1, <2>3
<1>3. CASE \A k \in D : F[k] = elem * per[k]
  <2>1. \A k \in D : per[k] \in Int
    OBVIOUS
  <2> QED
    BY <1>1, <1>3, <2>1
<1> QED
  BY <1>2, <1>3 DEF Moves

\* What of a shape is known when its volume is positive.
LEMMA PositiveShape ==
  ASSUME NEW s, s.h \in Nat, s.w \in Nat, s.c \in Nat, Volume(s) > 0
  PROVE  s.h > 0 /\ s.w > 0 /\ s.c > 0
<1> DEFINE h == s.h  w == s.w  c == s.c
<1>1. h \in Nat /\ w \in Nat /\ c \in Nat /\ h * w * c > 0
  BY DEF Volume
<1> HIDE DEF h, w, c
<1>2. h = 0 => h * w * c = 0
  BY <1>1
<1>3. w = 0 => h * w * c = 0
  BY <1>1
<1>4. c = 0 => h * w * c = 0
  BY <1>1
<1> QED
  BY <1>1, <1>2, <1>3, <1>4 DEF h, w, c

\* The tiles of a layer whose windows the descriptor describes move its tensors.
LEMMA CutMoves ==
  ASSUME NEW m \in Machines, NEW l, LayerOK(l), Plainly(m, l), NEW c, c = RunCut(m, l)
  PROVE  /\ Volume(c.out) = l.output.words
         /\ l.input.words <= SumFunctionOnSet([k \in TileIds(c) |-> Schedule(c)[k].traffic.input], TileIds(c))
         /\ KernelAsRead(l) =>
              l.weight.words <= SumFunctionOnSet([k \in TileIds(c) |-> Schedule(c)[k].traffic.kernel], TileIds(c))
<1> DEFINE o == l.output.shape  i == l.input.shape  q == l.weight.shape
           D == TilesDown(c)  A == TilesAcross(c)
<1>1. /\ o.h \in Nat /\ o.w \in Nat /\ o.c \in Nat /\ i.h \in Nat /\ i.w \in Nat /\ i.c \in Nat
      /\ q.h \in Nat /\ q.w \in Nat /\ l.weight.words \in Nat
      /\ l.input.words = Volume(i) /\ l.output.words = Volume(o)
  BY LayerSizes
<1>2. /\ l.stride > 0 /\ l.output.words > 0 /\ l.stride \in Nat
      /\ o.h = (i.h - q.h) \div l.stride + 1
      /\ o.w = (i.w - q.w) \div l.stride + 1
  BY LayerSizes DEF Plainly
<1>3. o.h > 0 /\ o.w > 0 /\ o.c > 0
  BY <1>1, <1>2, PositiveShape
<1>4. NonEmpty(o).h = o.h /\ NonEmpty(o).w = o.w /\ NonEmpty(o).c = o.c
  BY <1>1, <1>3, NonEmptyIs
<1> DEFINE dw == l.type = "DepthwiseConv2D"
<1>5. /\ c.out = NonEmpty(o) /\ c.ic = Most(1, i.c) /\ c.kh = Most(1, q.h) /\ c.kw = Most(1, q.w)
      /\ c.stride = Most(1, l.stride) /\ c.depthwise = dw
  BY DEF RunCut
<1>6. CutOK(c)
  BY RunCutOK
<1>7. /\ c.out.h = o.h /\ c.out.w = o.w /\ c.out.c = o.c
      /\ c.ic \in Nat \ {0} /\ i.c <= c.ic
      /\ c.kh \in Nat \ {0} /\ q.h <= c.kh /\ c.kw \in Nat \ {0} /\ q.w <= c.kw
      /\ c.stride = l.stride
  BY <1>1, <1>2, <1>4, <1>5 DEF Most
<1>8. D \in Nat \ {0} /\ A \in Nat \ {0}
  BY <1>6, TileSizes
<1>9. /\ SumFunctionOnSet([k \in TileIds(c) |-> Schedule(c)[k].traffic.input], TileIds(c))
           = (c.out.h * c.stride + D * (c.kh - 1))
             * (c.out.w * (c.stride * c.ic) + A * ((c.kw - 1) * c.ic))
      /\ SumFunctionOnSet([k \in TileIds(c) |-> Schedule(c)[k].traffic.kernel], TileIds(c))
           = (D * A) * (KernelWordsPerChannel(c) * c.ic)
  BY <1>6, ScheduleMoves
<1>10. Volume(c.out) = l.output.words
  BY <1>1, <1>7 DEF Volume
<1>11. l.input.words <= SumFunctionOnSet([k \in TileIds(c) |-> Schedule(c)[k].traffic.input], TileIds(c))
  <2> DEFINE ih == i.h  iw == i.w  ic == i.c  h == o.h  w == o.w  s == l.stride  kh == c.kh  kw == c.kw
             wh == q.h  ww == q.w  n == c.ic
  <2>1. /\ ih \in Nat /\ iw \in Nat /\ ic \in Nat /\ h \in Nat \ {0} /\ w \in Nat \ {0} /\ s \in Nat \ {0}
        /\ kh \in Nat \ {0} /\ kw \in Nat \ {0} /\ wh \in Nat /\ ww \in Nat /\ n \in Nat \ {0}
        /\ wh <= kh /\ ww <= kw /\ ic <= n
        /\ h = (ih - wh) \div s + 1 /\ w = (iw - ww) \div s + 1
    BY <1>1, <1>2, <1>3, <1>7
  <2>2. l.input.words = ih * iw * ic
    BY <1>1 DEF Volume
  <2>3. SumFunctionOnSet([k \in TileIds(c) |-> Schedule(c)[k].traffic.input], TileIds(c))
          = (h * s + D * (kh - 1)) * (w * (s * n) + A * ((kw - 1) * n))
    BY <1>7, <1>9
  <2> HIDE DEF ih, iw, ic, h, w, s, kh, kw, wh, ww, n, D, A
  <2>4. ih <= h * s + D * (kh - 1) /\ iw <= w * s + A * (kw - 1)
    BY <1>8, <2>1, HaloCovers
  <2>5. ih * iw * ic <= (h * s + D * (kh - 1)) * (w * (s * n) + A * ((kw - 1) * n))
    BY <1>8, <2>1, <2>4, InputCovered
  <2> QED
    BY <2>2, <2>3, <2>5
<1>12. ASSUME KernelAsRead(l)
       PROVE  l.weight.words <= SumFunctionOnSet([k \in TileIds(c) |-> Schedule(c)[k].traffic.kernel], TileIds(c))
  <2> DEFINE many == IF l.type = "DepthwiseConv2D" THEN 1 ELSE o.c
             K == KernelWordsPerChannel(c)
             h == q.h  w == q.w  kh == c.kh  kw == c.kw  ic == i.c  n == c.ic
  <2>1. many \in Nat
    BY <1>1
  <2>2. K = kh * kw * many
    BY <1>5, <1>7 DEF KernelWordsPerChannel
  <2>3. l.weight.words <= h * w * ic * many
    BY <1>12 DEF KernelAsRead
  <2>4. /\ h \in Nat /\ w \in Nat /\ ic \in Nat /\ kh \in Nat /\ kw \in Nat /\ n \in Nat
        /\ h <= kh /\ w <= kw /\ ic <= n
    BY <1>1, <1>7
  <2>5. SumFunctionOnSet([k \in TileIds(c) |-> Schedule(c)[k].traffic.kernel], TileIds(c)) = (D * A) * (K * n)
    BY <1>9
  <2> HIDE DEF many, K, h, w, kh, kw, ic, n, D, A
  <2>6. h * w \in Nat /\ kh * kw \in Nat /\ h * w <= kh * kw
    BY <2>4, ProductMono
  <2>7. (h * w) * ic <= (kh * kw) * n /\ (h * w) * ic \in Nat /\ (kh * kw) * n \in Nat
    BY <2>4, <2>6, ProductMono
  <2>8. ((h * w) * ic) * many <= ((kh * kw) * n) * many
    BY <2>1, <2>7, ProductMono
  <2>9. ((kh * kw) * n) * many = K * n
    BY <2>1, <2>2, <2>4, <2>6
  <2>10. K * n \in Nat /\ D * A \in Nat \ {0}
    BY <1>8, <2>1, <2>7, <2>9, Products
  <2>11. 1 * (K * n) <= (D * A) * (K * n)
    <3>1. 1 \in Nat /\ D * A \in Nat /\ 1 <= D * A
      BY <2>10
    <3> QED
      BY <2>10, <3>1, ProductMono
  <2>12. 1 * (K * n) = K * n /\ (D * A) * (K * n) \in Nat /\ ((h * w) * ic) * many \in Nat
    BY <2>1, <2>7, <2>10, Products
  <2> QED
    BY <1>1, <2>3, <2>5, <2>8, <2>9, <2>10, <2>11, <2>12
<1> QED
  BY <1>10, <1>11, <1>12

\* A loaded layer's tiles move all of it.
LEMMA LayerComplete ==
  ASSUME NEW m \in Machines, NEW l, LayerOK(l), Plainly(m, l), NEW held,
         NEW lat, lat = l.lat, NEW x, x = Total(lat, LayerSchedule(m, l, held))
  PROVE  /\ x.out = Physical(m, l.output.words)
         /\ x.in + x.forwarded >= Physical(m, l.input.words)
         /\ KernelAsRead(l) => x.wt >= Physical(m, l.weight.words)
<1> DEFINE cut == RunCut(m, l)
           sched == Schedule(cut)
           s == LayerSchedule(m, l, held)
           kept == KeptResidency(m, l, InputWorkingSet(m, cut, sched), KernelWorkingSet(m, cut, sched))
           txns == Transactions(m, l, cut, sched, kept)
           D == TileIds(cut)
           passes == Most(1, l.lat.fO \div Volume(cut.out))
           words == [k \in D |-> sched[k].traffic.output]
           perIn == [k \in D |-> sched[k].traffic.input]
           perWt == [k \in D |-> sched[k].traffic.kernel]
           out == [k \in D |-> s.txns[k].outBytes]
           in == [k \in D |-> txns[k].inBytes]
           wt == [k \in D |-> txns[k].wtBytes]
<1>1. CutOK(cut) /\ IsFiniteSet(D) /\ 0 \in D
  BY RunCutOK, TilesFinite
<1>2. SentAs(s, txns, D)
  <2>1. cut = RunCut(m, l) /\ sched = Schedule(cut)
    OBVIOUS
  <2> HIDE DEF cut, sched, s, kept, txns
  <2> QED
    BY <2>1, RunTxns DEF s, kept, txns
<1>3. /\ SumFunctionOnSet(words, D) = Volume(cut.out)
      /\ \A k \in D : words[k] \in Nat /\ perIn[k] \in Nat /\ perWt[k] \in Nat
  BY <1>1, ScheduleMoves
<1>4. /\ Volume(cut.out) = l.output.words
      /\ l.input.words <= SumFunctionOnSet(perIn, D)
      /\ KernelAsRead(l) => l.weight.words <= SumFunctionOnSet(perWt, D)
  BY CutMoves
<1>5. m.elem \in Nat
  BY MachineSizes
<1> HIDE DEF txns, s
<1>6. ASSUME NEW k \in D
      PROVE  /\ txns[k].inBytes = m.elem * StreamedOperands(kept.input, k, l.input.words, perIn[k])
             /\ txns[k].wtBytes = m.elem * StreamedOperands(kept.weight, k, l.lat.fW, perWt[k])
             /\ txns[k].outBytes = m.elem * words[k]
  <2>1. /\ cut = RunCut(m, l) /\ sched = Schedule(cut) /\ passes = Most(1, l.lat.fO \div Volume(cut.out))
        /\ txns = Transactions(m, l, cut, sched, kept)
        /\ perIn[k] = sched[k].traffic.input /\ perWt[k] = sched[k].traffic.kernel
        /\ words[k] = sched[k].traffic.output
    BY DEF txns
  <2>2. l.skip = 0 /\ m.ratio = [in |-> 1, wt |-> 1, out |-> 1]
    BY DEF Plainly
  <2> HIDE DEF cut, sched, passes, kept, perIn, perWt, words
  <2> DEFINE a == StreamedOperands(kept.input, k, l.input.words, sched[k].traffic.input)
             b == StreamedOperands(kept.weight, k, l.lat.fW, sched[k].traffic.kernel)
  <2>3. /\ txns[k].inBytes = m.elem * a /\ txns[k].wtBytes = m.elem * b
        /\ txns[k].outBytes = m.elem * sched[k].traffic.output
    BY <2>1, <2>2, TxnFields
  <2> QED
    BY <2>1, <2>3
<1>7. l.input.words \in Nat /\ l.weight.words \in Nat /\ l.lat.fW \in Nat
  BY LayerSizes
<1>8. DOMAIN s.txns = D /\ DOMAIN txns = D
  BY <1>2 DEF SentAs
<1>9. \A k \in D : in[k] \in Nat /\ wt[k] \in Nat
  <2> SUFFICES ASSUME NEW k \in D PROVE in[k] \in Nat /\ wt[k] \in Nat
    OBVIOUS
  <2> DEFINE a == StreamedOperands(kept.input, k, l.input.words, perIn[k])
             b == StreamedOperands(kept.weight, k, l.lat.fW, perWt[k])
  <2>1. in[k] = m.elem * a /\ wt[k] = m.elem * b
    BY <1>6
  <2>2. a \in Nat /\ b \in Nat
    BY <1>3, <1>7 DEF StreamedOperands
  <2> HIDE DEF a, b, in, wt
  <2> QED
    BY <1>5, <2>1, <2>2, Products
<1>10. SumFunctionOnSet(out, D) = Physical(m, l.output.words)
  <2>1. \A k \in D : out[k] = m.elem * words[k]
    BY <1>2, <1>6 DEF SentAs
  <2> HIDE DEF out, words, D
  <2>2. SumFunctionOnSet(out, D) = m.elem * SumFunctionOnSet(words, D)
    BY <1>1, <1>3, <1>5, <2>1, SumScales
  <2>3. l.output.words \in Nat
    BY LayerSizes
  <2> QED
    BY <1>3, <1>4, <1>5, <2>2, <2>3 DEF Physical
<1>11. SumFunctionOnSet(in, D) >= Physical(m, l.input.words)
  <2>1. Moves(in, D, m.elem, l.input.words, perIn)
    <3>1. \A k \in D : in[k] = m.elem * StreamedOperands(kept.input, k, l.input.words, perIn[k])
      BY <1>6
    <3> HIDE DEF in, perIn, D, kept
    <3>2. CASE kept.input
      BY <3>1, <3>2 DEF Moves, StreamedOperands
    <3>3. CASE ~kept.input
      BY <3>1, <3>3 DEF Moves, StreamedOperands
    <3> QED
      BY <3>2, <3>3
  <2> HIDE DEF in, perIn, D
  <2>2. SumFunctionOnSet(in, D) >= l.input.words * m.elem
    BY <1>1, <1>3, <1>4, <1>5, <1>7, <2>1, OperandSum
  <2> QED
    BY <2>2 DEF Physical
<1>12. ASSUME KernelAsRead(l) PROVE SumFunctionOnSet(wt, D) >= Physical(m, l.weight.words)
  <2>1. Moves(wt, D, m.elem, l.lat.fW, perWt)
    <3>1. \A k \in D : wt[k] = m.elem * StreamedOperands(kept.weight, k, l.lat.fW, perWt[k])
      BY <1>6
    <3> HIDE DEF wt, perWt, D, kept
    <3>2. CASE kept.weight
      BY <3>1, <3>2 DEF Moves, StreamedOperands
    <3>3. CASE ~kept.weight
      BY <3>1, <3>3 DEF Moves, StreamedOperands
    <3> QED
      BY <3>2, <3>3
  <2>2. l.weight.words <= l.lat.fW
    BY <1>12 DEF KernelAsRead
  <2> HIDE DEF wt, perWt, D
  <2>3. SumFunctionOnSet(wt, D) >= l.weight.words * m.elem
    BY <1>1, <1>3, <1>4, <1>5, <1>7, <1>12, <2>1, <2>2, OperandSum
  <2> QED
    BY <2>3 DEF Physical
<1>13. x.out = SumFunctionOnSet(out, D)
  <2>1. x = Total(lat, s)
    BY DEF s
  <2>0. Total(lat, s).out = SumFunction([k \in DOMAIN s.txns |-> s.txns[k].outBytes])
    BY TotalIs
  <2>2. x.out = SumFunction([k \in DOMAIN s.txns |-> s.txns[k].outBytes])
    BY <2>0, <2>1
  <2>3. x.out = SumFunction(out) /\ DOMAIN out = D
    BY <1>8, <2>2
  <2> HIDE DEF out, D
  <2> QED
    BY <2>3 DEF SumFunction
<1>14. x.wt = SumFunctionOnSet(wt, D)
  <2>1. x = Total(lat, s)
    BY DEF s
  <2>0. Total(lat, s).wt = SumFunction([k \in DOMAIN s.txns |-> s.txns[k].wtBytes])
    BY TotalIs
  <2>2. x.wt = SumFunction([k \in DOMAIN s.txns |-> s.txns[k].wtBytes])
    BY <2>0, <2>1
  <2>3. [k \in DOMAIN s.txns |-> s.txns[k].wtBytes] = wt /\ DOMAIN wt = D
    BY <1>2, <1>8 DEF SentAs
  <2> HIDE DEF wt, D
  <2> QED
    BY <2>2, <2>3 DEF SumFunction
<1>15. x.in + x.forwarded = SumFunctionOnSet(in, D)
  <2> DEFINE read == [k \in D |-> s.txns[k].inBytes]
  <2>1. x = Total(lat, s)
    BY DEF s
  <2>00. Total(lat, s).in = SumFunction([k \in DOMAIN s.txns |-> s.txns[k].inBytes])
    BY TotalIs
  <2>01. Total(lat, s).forwarded = s.forwarded
    BY DEF Total
  <2>0. Total(lat, s).in = SumFunction([k \in DOMAIN s.txns |-> s.txns[k].inBytes]) /\ Total(lat, s).forwarded = s.forwarded
    BY <2>00, <2>01
  <2>2. x.in = SumFunction([k \in DOMAIN s.txns |-> s.txns[k].inBytes]) /\ x.forwarded = s.forwarded
    BY <2>0, <2>1
  <2>3. x.in = SumFunction(read) /\ DOMAIN read = D /\ DOMAIN in = D
    BY <1>8, <2>2
  <2>4. SumFunction([k \in DOMAIN txns |-> txns[k].inBytes]) = SumFunction(in)
    BY <1>8
  <2>5. \/ x.forwarded = 0 /\ \A k \in D : read[k] = in[k]
        \/ x.forwarded = SumFunction(in) /\ \A k \in D : read[k] = 0
    BY <1>2, <2>2, <2>4 DEF SentAs
  <2> HIDE DEF read, in, D
  <2>6. x.in = SumFunctionOnSet(read, D) /\ SumFunction(in) = SumFunctionOnSet(in, D)
    BY <2>3 DEF SumFunction
  <2>7. SumFunctionOnSet(in, D) \in Int
    <3>1. \A k \in D : in[k] \in Int
      BY <1>9
    <3> QED
      BY <1>1, <3>1, SumInt
  <2>8. CASE x.forwarded = 0 /\ \A k \in D : read[k] = in[k]
    <3>1. \A k \in D : read[k] \in Int
      BY <1>9, <2>8
    <3>2. SumFunctionOnSet(read, D) = SumFunctionOnSet(in, D)
      BY <1>1, <2>8, <3>1, SumSame
    <3> QED
      BY <2>6, <2>7, <2>8, <3>2
  <2>9. CASE x.forwarded = SumFunction(in) /\ \A k \in D : read[k] = 0
    <3>1. \A k \in D : read[k] = 0 * in[k] /\ in[k] \in Int
      BY <1>9, <2>9
    <3>2. SumFunctionOnSet(read, D) = 0 * SumFunctionOnSet(in, D)
      BY <1>1, <3>1, SumScales
    <3> QED
      BY <2>6, <2>7, <2>9, <3>2
  <2> QED
    BY <2>5, <2>8, <2>9
<1> QED
  BY <1>10, <1>11, <1>12, <1>13, <1>14, <1>15

\* A history stays one when something is appended.
LEMMA Appended ==
  ASSUME NEW t, t \in Seq(Range(t)), NEW e, NEW u, u = Append(t, e)
  PROVE  u \in Seq(Range(u)) /\ Range(u) \subseteq Range(t) \cup {e}
<1> DEFINE S == Range(t) \cup {e}
           n == Len(t)
<1>1. t \in Seq(S) /\ e \in S
  <2>1. Range(t) \subseteq S /\ e \in S
    OBVIOUS
  <2> HIDE DEF S
  <2> QED
    BY <2>1
<1> HIDE DEF S
<1>2. /\ u \in Seq(S) /\ n \in Nat /\ Len(u) = n + 1 /\ u[n + 1] = e
      /\ \A i \in 1 .. n : u[i] = t[i]
  BY <1>1, AppendQueue
<1>3. DOMAIN u = 1 .. n + 1 /\ DOMAIN t = 1 .. n
  BY <1>1, <1>2
<1>4. u \in Seq(Range(u))
  <2>1. \A i \in 1 .. Len(u) : u[i] \in Range(u)
    BY <1>2, <1>3 DEF Range
  <2> QED
    BY <1>2, <1>3, <2>1
<1>5. Range(u) \subseteq S
  BY <1>2, <1>3 DEF Range
<1> QED
  BY <1>4, <1>5 DEF S

\* What a tiled layer's packet did.
CompleteEntry(e) ==
  LET l == loader[e.first]
  IN  Tiled(e) /\ Plainly(machine, l) =>
        /\ e.out = Physical(machine, l.output.words)
        /\ e.in + e.rolled >= Physical(machine, l.input.words)
        /\ l.type # "Pooling" /\ KernelAsRead(l) => e.wt >= Physical(machine, l.weight.words)
WideEntry(e) ==
  LET l == loader[e.first]  out == Volume(NonEmpty(l.output.shape))
  IN  Tiled(e) /\ l.lat.fO >= out /\ l.lat.fO % out = 0
        /\ (l.skip = 0 \/ machine.sparsity # "remove") =>
          e.emits <= l.lat.fO /\ l.lat.fO <= e.emits * Most(1, l.lat.nMax)
EntriesRight ==
  /\ npu = "off" => trace = <<>>
  /\ trace \in Seq(Range(trace))
  /\ LoaderOK => \A e \in Range(trace) : CompleteEntry(e) /\ WideEntry(e)

LEMMA EntriesRightMeans ==
  EntriesRight => (LoaderOK => TiledLayersAreComplete) /\ (LoaderOK => EmissionsWithinWidth)
<1>1. ASSUME EntriesRight, LoaderOK PROVE TiledLayersAreComplete
  BY <1>1 DEF EntriesRight, CompleteEntry, TiledLayersAreComplete
<1>2. ASSUME EntriesRight, LoaderOK PROVE EmissionsWithinWidth
  BY <1>2 DEF EntriesRight, WideEntry, EmissionsWithinWidth
<1> QED
  BY <1>1, <1>2

LEMMA EntryAdded ==
  ASSUME EntriesRight, npu' # "off", machine' = machine, loader' = loader,
         NEW e, trace' = Append(trace, e),
         LoaderOK => CompleteEntry(e) /\ WideEntry(e)
  PROVE  EntriesRight'
<1>1. trace' \in Seq(Range(trace')) /\ Range(trace') \subseteq Range(trace) \cup {e}
  BY Appended DEF EntriesRight
<1>2. LoaderOK' <=> LoaderOK
  BY DEF LoaderOK
<1>3. ASSUME NEW x \in Range(trace'), LoaderOK PROVE CompleteEntry(x) /\ WideEntry(x)
  BY <1>1, <1>3 DEF EntriesRight
<1>4. ASSUME NEW x, CompleteEntry(x), WideEntry(x) PROVE CompleteEntry(x)' /\ WideEntry(x)'
  BY <1>4 DEF CompleteEntry, WideEntry
<1>5. LoaderOK' => \A x \in Range(trace') : CompleteEntry(x)' /\ WideEntry(x)'
  BY <1>2, <1>3, <1>4
<1> QED
  BY <1>1, <1>5 DEF EntriesRight

LEMMA ExecuteKeepsEntries ==
  ASSUME Contained, EntriesRight, Execute \/ StartRun(image)
  PROVE  EntriesRight'
<1>1. ASSUME NEW m \in Machines, PowerOn(m) PROVE EntriesRight'
  <2>1. trace' = <<>>
    BY <1>1 DEF PowerOn, EntriesRight
  <2> QED
    BY <2>1 DEF EntriesRight, Range
<1>2. CASE Reset \/ Finish
  <2>1. npu' # "off" /\ npu # "off" /\ UNCHANGED <<machine, loader, trace>>
    BY <1>2 DEF Reset, Finish
  <2> QED
    BY <2>1 DEF EntriesRight, LoaderOK, CompleteEntry, WideEntry
<1>3. CASE StartRun(image)
  <2>1. trace' = <<>>
    BY <1>3 DEF StartRun
  <2> QED
    BY <2>1 DEF EntriesRight, Range
<1>4. CASE RunFused
  <2> DEFINE e == [[Unmoved EXCEPT !.source = "fused"]
                     EXCEPT !.first = next, !.last = GroupEnd(loader, next)]
  <2>1. e.source = "fused"
    BY DEF Unmoved
  <2>2. trace' = Append(trace, e) /\ npu' # "off" /\ machine' = machine /\ loader' = loader
    BY <1>4 DEF RunFused, Visit, Running
  <2> HIDE DEF e
  <2>3. CompleteEntry(e) /\ WideEntry(e)
    BY <2>1 DEF CompleteEntry, WideEntry, Tiled
  <2> QED
    BY <2>2, <2>3, EntryAdded
<1>5. CASE RunTiled
  <2>1. PICK x \in {Total(Current.lat, LayerSchedule(machine, Current, retained))} :
          Visit([Unmoved EXCEPT !.source = IF x.forwarded > 0 THEN "buffer" ELSE "tiles",
                                !.in = x.in, !.wt = x.wt, !.out = x.out,
                                !.rolled = x.forwarded, !.emits = x.emits])
    BY <1>5 DEF RunTiled
  <2> DEFINE u == [Unmoved EXCEPT !.source = IF x.forwarded > 0 THEN "buffer" ELSE "tiles",
                                  !.in = x.in, !.wt = x.wt, !.out = x.out,
                                  !.rolled = x.forwarded, !.emits = x.emits]
             e == [u EXCEPT !.first = next, !.last = GroupEnd(loader, next)]
  <2>2. /\ e.first = next /\ e.in = x.in /\ e.wt = x.wt /\ e.out = x.out /\ e.rolled = x.forwarded
        /\ e.emits = x.emits
    BY DEF Unmoved
  <2>3. trace' = Append(trace, e) /\ npu' # "off" /\ machine' = machine /\ loader' = loader
    BY <1>5, <2>1 DEF RunTiled, Visit, Running
  <2> HIDE DEF e, u
  <2>4. ASSUME LoaderOK PROVE CompleteEntry(e) /\ WideEntry(e)
    <3> DEFINE l == loader[next]
    <3>1. machine \in Machines /\ Running
      BY <1>5 DEF Contained, RunTiled, Running
    <3>2. next \in 1 .. Len(loader)
      BY <2>4, <3>1, LoadedLayers DEF Contained, Running
    <3>3. LayerOK(l)
      BY <2>4, <3>2, LoadedLayers
    <3>4. x = Total(l.lat, LayerSchedule(machine, l, retained)) /\ loader[e.first] = l
      BY <2>2 DEF Current
    <3> HIDE DEF l
    <3>5. CompleteEntry(e)
      <4> SUFFICES ASSUME Plainly(machine, l)
                   PROVE  /\ e.out = Physical(machine, l.output.words)
                          /\ e.in + e.rolled >= Physical(machine, l.input.words)
                          /\ l.type # "Pooling" /\ KernelAsRead(l) => e.wt >= Physical(machine, l.weight.words)
        BY <3>4 DEF CompleteEntry
      <4> QED
        BY <2>2, <3>1, <3>3, <3>4, LayerComplete
    <3>6. WideEntry(e)
      <4> DEFINE out == Volume(NonEmpty(l.output.shape))
      <4> SUFFICES ASSUME l.lat.fO >= out, l.lat.fO % out = 0, l.skip = 0 \/ machine.sparsity # "remove"
                   PROVE  e.emits <= l.lat.fO /\ l.lat.fO <= e.emits * Most(1, l.lat.nMax)
        BY <3>4 DEF WideEntry
      <4>1. x.emits = Total(l.lat, LayerSchedule(machine, l, retained)).emits
        BY <3>4
      <4> HIDE DEF out
      <4>2. out = Volume(NonEmpty(l.output.shape))
        BY DEF out
      <4>3. x.emits <= l.lat.fO /\ l.lat.fO <= x.emits * Most(1, l.lat.nMax)
        BY <3>1, <3>3, <4>1, <4>2, EmissionsOfLayer
      <4> QED
        BY <2>2, <4>3
    <3> QED
      BY <3>5, <3>6
  <2> QED
    BY <2>3, <2>4, EntryAdded
<1>6. ASSUME NEW r, RunStreamed(r) PROVE EntriesRight'
  <2> DEFINE Streamed(in, out, served, skip) ==
        [Unmoved EXCEPT !.source = IF Current.i1FromPacket THEN "packet" ELSE "stream",
                        !.in = in, !.out = out, !.served = served, !.skipped = skip]
  <2>1. PICK in, out, served, skip : Visit(Streamed(in, out, served, skip))
    BY <1>6 DEF RunStreamed
  <2> DEFINE e == [Streamed(in, out, served, skip)
                     EXCEPT !.first = next, !.last = GroupEnd(loader, next)]
  <2>2. e.source \in {"packet", "stream"}
    BY DEF Unmoved
  <2>3. trace' = Append(trace, e)
    BY <2>1 DEF Visit
  <2>4. npu' # "off" /\ machine' = machine /\ loader' = loader
    BY <1>6 DEF RunStreamed
  <2> HIDE DEF e, Streamed
  <2>5. CompleteEntry(e) /\ WideEntry(e)
    BY <2>2 DEF CompleteEntry, WideEntry, Tiled
  <2> QED
    BY <2>3, <2>4, <2>5, EntryAdded
<1> QED
  BY <1>1, <1>2, <1>3, <1>4, <1>5, <1>6 DEF Execute

----------------------------------------------------------------------------
(* Regrouping keeps the multipliers *)

\* The greatest divisor up to a bound divides, and what is left of the quotient is
\* shared out evenly but for less than a share.
LEMMA Regrouped ==
  ASSUME NEW base, {base.k, base.g, base.s} \subseteq Nat \ {0},
         DOMAIN base = {"type", "k", "g", "s", "psumKb"},
         NEW spec, OpsPerOutput(spec) \in Int, NEW pe, pe = AdaptedPe(base, spec)
  PROVE  /\ pe.k * (pe.s * pe.g) <= base.k * (base.s * base.g)
         /\ base.k * (base.s * base.g) - pe.k * (pe.s * pe.g) < pe.k * pe.g
<1> DEFINE total  == base.k * MaxWidth(base)
           target == Most(1, Least(base.k, OpsPerOutput(spec)))
           T      == {n \in 1 .. target : total % n = 0}
           k      == Max(T)
           units  == total \div k
           lanes  == Most(1, CeilDiv(OpsPerOutput(spec), k))
           g      == Least(Least(base.g, lanes), units)
           s      == Most(1, units \div g)
<1>1. pe.k = k /\ pe.g = g /\ pe.s = s
  BY DEF AdaptedPe
<1>2. total = base.k * (base.s * base.g) /\ total \in Nat \ {0}
  <2>1. base.k \in Nat \ {0} /\ base.s \in Nat \ {0} /\ base.g \in Nat \ {0}
    OBVIOUS
  <2>2. base.s * base.g \in Nat \ {0}
    BY <2>1
  <2>3. base.k * (base.s * base.g) \in Nat \ {0}
    BY <2>1, <2>2
  <2> QED
    BY <2>3 DEF MaxWidth
<1>3. target \in Nat \ {0}
  BY DEF Most, Least
<1> HIDE DEF total, target
<1>4. k \in Nat \ {0} /\ total % k = 0
  <2>1. total % 1 = 0
    BY <1>2
  <2>2. 1 \in T /\ T \subseteq 1 .. target
    BY <2>1, <1>3
  <2>3. k \in T
    <3> HIDE DEF T
    <3>1. 1 \in Int /\ target \in Int
      BY <1>3
    <3> QED
      BY <2>2, <3>1, MaxIn
  <2> HIDE DEF k
  <2> QED
    BY <2>3, <1>3
<1> HIDE DEF T, k
<1>5. units \in Nat \ {0} /\ total = k * units
  <2>1. units \in Nat /\ total = k * units + (total % k)
    BY <1>2, <1>4, DivMod
  <2> HIDE DEF units
  <2>2. k * units \in Int /\ total = k * units
    BY <2>1, <1>4, <1>2
  <2>3. units # 0
    BY <2>2, <1>2, <1>4
  <2> QED
    BY <2>1, <2>2, <2>3
<1>6. lanes \in Nat \ {0}
  <2>1. CeilDiv(OpsPerOutput(spec), k) \in Int
    BY <1>4 DEF CeilDiv
  <2> QED
    BY <2>1 DEF Most
<1> HIDE DEF units, lanes
<1>7. g \in Nat \ {0} /\ g <= units
  BY <1>5, <1>6 DEF Least
<1> HIDE DEF g
<1>8. /\ s \in Nat /\ g * s <= units /\ units - g * s < g /\ g * s \in Nat
  <2> DEFINE q == units \div g
             r == units % g
  <2>1. q \in Nat /\ r \in 0 .. g - 1 /\ units = g * q + r
    BY <1>5, <1>7, DivMod
  <2>2. s = Most(1, q)
    OBVIOUS
  <2> HIDE DEF q, r, s
  <2>3. q # 0
    <3>1. q = 0 => g * q = 0
      BY <1>7
    <3> QED
      BY <2>1, <3>1, <1>7, <1>5
  <2>4. s = q
    BY <2>1, <2>2, <2>3 DEF Most
  <2>5. g * q \in Nat
    BY <2>1, <1>7
  <2> QED
    BY <2>1, <2>4, <2>5, <1>7
<1> HIDE DEF s
<1> DEFINE gs == g * s
<1>9. gs \in Nat /\ gs <= units /\ units < gs + g
  BY <1>5, <1>7, <1>8
<1> HIDE DEF gs
<1>10. k * gs <= k * units /\ k * units < k * (gs + g)
  <2>1. k * gs <= k * units
    BY <1>4, <1>5, <1>9, TimesMono
  <2>2. k * (units + 1) <= k * (gs + g)
    BY <1>4, <1>5, <1>7, <1>9, TimesMono
  <2>3. k * (units + 1) = k * units + k /\ {k * units, k * (gs + g)} \subseteq Int
    BY <1>4, <1>5, <1>7, <1>9
  <2> QED
    BY <2>1, <2>2, <2>3, <1>4
<1>11. /\ k * (s * g) = k * gs /\ k * (gs + g) = k * gs + k * g
       /\ {k * gs, k * g} \subseteq Int
  <2>1. s * g = gs
    BY <1>7, <1>8 DEF gs
  <2> QED
    BY <2>1, <1>4, <1>7, <1>9
<1> QED
  BY <1>1, <1>2, <1>5, <1>10, <1>11

\* The steps the networks are made of, and what a generator keeps of them.
GeneratorSteps ==
  [type : {"Conv2D", "DepthwiseConv2D", "Pooling", "FullyConnected"}, k : Nat,
   stride : Nat \ {0}, pad : Nat, n : Nat, expand : Nat,
   chained : BOOLEAN, aside : BOOLEAN, filters : BOOLEAN]
Generating ==
  /\ "pe" \in DOMAIN gen /\ gen.pe \in ProcessingElements
  /\ todo \in Seq(GeneratorSteps)
  /\ {net.at.h, net.at.w, net.at.c} \subseteq Int
  /\ net.layers \in Seq(Range(net.layers))
  /\ \A l \in Range(net.layers) : OpsPerOutput(l.spec) \in Int

LEMMA StepsAre ==
  /\ \A k \in Nat, stride \in Nat \ {0}, pad \in Nat, n \in Nat :
       /\ Conv(k, stride, pad, n) \in GeneratorSteps
       /\ [Conv(k, stride, pad, n) EXCEPT !.aside = TRUE] \in GeneratorSteps
  /\ \A n \in Nat : /\ Expand(n) \in GeneratorSteps /\ Fc(n) \in GeneratorSteps
                    /\ Chained(Fc(n)) \in GeneratorSteps
  /\ \A stride \in Nat \ {0} : Depthwise(stride) \in GeneratorSteps
  /\ MaxPool \in GeneratorSteps /\ GlobalPool \in GeneratorSteps /\ ChainedPool \in GeneratorSteps
<1>1. ASSUME NEW k \in Nat, NEW stride \in Nat \ {0}, NEW pad \in Nat, NEW n \in Nat
      PROVE  /\ Conv(k, stride, pad, n) \in GeneratorSteps
             /\ [Conv(k, stride, pad, n) EXCEPT !.aside = TRUE] \in GeneratorSteps
  BY DEF Conv, Step, GeneratorSteps
<1>a. \A s \in GeneratorSteps, n \in Nat :
        /\ [s EXCEPT !.expand = n] \in GeneratorSteps
        /\ [s EXCEPT !.chained = TRUE] \in GeneratorSteps
        /\ [s EXCEPT !.filters = TRUE] \in GeneratorSteps
  BY DEF GeneratorSteps
<1>2. ASSUME NEW n \in Nat PROVE Expand(n) \in GeneratorSteps
  <2>1. Conv(1, 1, 0, 0) \in GeneratorSteps
    BY DEF Conv, Step, GeneratorSteps
  <2> QED
    BY <2>1, <1>a, Zenon DEF Expand
<1>3. ASSUME NEW n \in Nat PROVE Fc(n) \in GeneratorSteps /\ Chained(Fc(n)) \in GeneratorSteps
  <2>1. Fc(n) \in GeneratorSteps
    BY DEF Fc, Step, GeneratorSteps
  <2>2. 0 \in Nat
    OBVIOUS
  <2> QED
    BY <2>1, <2>2, <1>a, Zenon DEF Chained
<1>4. ASSUME NEW stride \in Nat \ {0} PROVE Depthwise(stride) \in GeneratorSteps
  BY DEF Depthwise, Step, GeneratorSteps
<1>5. MaxPool \in GeneratorSteps /\ GlobalPool \in GeneratorSteps
  BY DEF MaxPool, GlobalPool, Step, GeneratorSteps
<1>6. ChainedPool \in GeneratorSteps
  <2> DEFINE pool == Step("Pooling", 2, 2, 0, 0)
             chained == [pool EXCEPT !.chained = TRUE]
  <2>1. pool \in GeneratorSteps /\ 0 \in Nat
    BY DEF Step, GeneratorSteps
  <2>2. ChainedPool = [chained EXCEPT !.filters = TRUE]
    BY DEF ChainedPool
  <2> HIDE DEF pool
  <2>3. chained \in GeneratorSteps
    BY <2>1, <1>a, Zenon
  <2> HIDE DEF chained
  <2> QED
    BY <2>1, <2>2, <2>3, <1>a, Zenon
<1> QED
  BY <1>1, <1>2, <1>3, <1>4, <1>5, <1>6

\* Steps that read a region of their own, and lists in which a step that is chained
\* follows one whose output is what it reads.
FreshSteps == {x \in GeneratorSteps : ~x.chained}
StepLists ==
  {p \in Seq(GeneratorSteps) : \A i \in DOMAIN p : p[i].chained => i > 1 /\ ~p[i - 1].aside}

LEMMA FreshAre ==
  /\ \A k \in Nat, stride \in Nat \ {0}, pad \in Nat, n \in Nat :
       /\ Conv(k, stride, pad, n) \in FreshSteps /\ ~Conv(k, stride, pad, n).aside
       /\ [Conv(k, stride, pad, n) EXCEPT !.aside = TRUE] \in FreshSteps
  /\ \A n \in Nat : Expand(n) \in FreshSteps /\ Fc(n) \in FreshSteps
  /\ \A stride \in Nat \ {0} : Depthwise(stride) \in FreshSteps
  /\ MaxPool \in FreshSteps /\ GlobalPool \in FreshSteps /\ ~ChainedPool.aside
<1>1. \A k, stride, pad, n : /\ ~Conv(k, stride, pad, n).chained /\ ~Conv(k, stride, pad, n).aside
                             /\ ~[Conv(k, stride, pad, n) EXCEPT !.aside = TRUE].chained
  BY DEF Conv, Step
<1>2. \A n : ~Expand(n).chained /\ ~Fc(n).chained
  BY DEF Expand, Fc, Conv, Step
<1>3. \A stride : ~Depthwise(stride).chained
  BY DEF Depthwise, Step
<1>4. ~MaxPool.chained /\ ~GlobalPool.chained /\ ~ChainedPool.aside
  BY DEF MaxPool, GlobalPool, ChainedPool, Step
<1> QED
  BY <1>1, <1>2, <1>3, <1>4, StepsAre DEF FreshSteps

LEMMA FreshLists ==
  ASSUME NEW p \in Seq(FreshSteps)
  PROVE  p \in StepLists
<1>1. p \in Seq(GeneratorSteps) /\ \A i \in DOMAIN p : ~p[i].chained
  BY DEF FreshSteps
<1> QED
  BY <1>1 DEF StepLists

LEMMA ListsJoin ==
  ASSUME NEW p \in StepLists, NEW q \in StepLists
  PROVE  p \o q \in StepLists
<1>1. /\ p \in Seq(GeneratorSteps) /\ \A i \in DOMAIN p : p[i].chained => i > 1 /\ ~p[i - 1].aside
      /\ q \in Seq(GeneratorSteps) /\ \A i \in DOMAIN q : q[i].chained => i > 1 /\ ~q[i - 1].aside
  BY DEF StepLists
<1> DEFINE r == p \o q
           m == Len(p)
           n == Len(q)
<1>2. /\ m \in Nat /\ n \in Nat /\ DOMAIN r = 1 .. m + n /\ DOMAIN p = 1 .. m /\ DOMAIN q = 1 .. n
      /\ r \in Seq(GeneratorSteps) /\ \A i \in 1 .. m : r[i] = p[i]
      /\ \A i \in m + 1 .. m + n : r[i] = q[i - m]
  BY <1>1
<1> HIDE DEF r, m, n
<1> SUFFICES ASSUME NEW i \in 1 .. m + n, r[i].chained PROVE i > 1 /\ ~r[i - 1].aside
  BY <1>2 DEF StepLists, r
<1>3. CASE i \in 1 .. m
  <2>1. p[i].chained
    BY <1>2, <1>3
  <2>2. i > 1 /\ ~p[i - 1].aside
    BY <1>1, <1>2, <1>3, <2>1
  <2>3. i - 1 \in 1 .. m
    BY <1>2, <1>3, <2>2
  <2> QED
    BY <1>2, <2>2, <2>3
<1>4. CASE i \in m + 1 .. m + n
  <2>1. q[i - m].chained /\ i - m \in 1 .. n
    BY <1>2, <1>4
  <2>2. i - m > 1 /\ ~q[(i - m) - 1].aside
    BY <1>1, <1>2, <2>1
  <2>3. i - 1 \in m + 1 .. m + n /\ (i - 1) - m = (i - m) - 1 /\ i > 1
    BY <1>2, <1>4, <2>2
  <2>4. r[i - 1] = q[(i - 1) - m]
    BY <1>2, <2>3
  <2> QED
    BY <2>2, <2>3, <2>4
<1> QED
  BY <1>2, <1>3, <1>4

\* A chained step behind a list whose last step reads what it wrote.
LEMMA ChainBehind ==
  ASSUME NEW p \in StepLists, p # <<>>, ~p[Len(p)].aside, NEW x \in GeneratorSteps
  PROVE  p \o <<x>> \in StepLists
<1>1. p \in Seq(GeneratorSteps) /\ \A i \in DOMAIN p : p[i].chained => i > 1 /\ ~p[i - 1].aside
  BY DEF StepLists
<1> DEFINE r == p \o <<x>>
           m == Len(p)
<1>2. /\ m \in Nat \ {0} /\ DOMAIN r = 1 .. m + 1 /\ DOMAIN p = 1 .. m
      /\ r \in Seq(GeneratorSteps) /\ \A i \in 1 .. m : r[i] = p[i]
  BY <1>1
<1>3. ~p[m].aside
  OBVIOUS
<1> HIDE DEF r, m
<1> SUFFICES ASSUME NEW i \in 1 .. m + 1, r[i].chained PROVE i > 1 /\ ~r[i - 1].aside
  BY <1>2 DEF StepLists, r
<1>4. CASE i \in 1 .. m
  <2>1. i > 1 /\ ~p[i - 1].aside
    BY <1>1, <1>2, <1>4
  <2>2. i - 1 \in 1 .. m
    BY <1>2, <1>4, <2>1
  <2> QED
    BY <1>2, <2>1, <2>2
<1>5. CASE i = m + 1
  BY <1>2, <1>3, <1>5
<1> QED
  BY <1>2, <1>4, <1>5

\* Two chained steps, each reading the output before it.
LEMMA ChainedPair ==
  ASSUME NEW x \in FreshSteps, NEW y \in GeneratorSteps, NEW z \in GeneratorSteps,
         ~x.aside, ~y.aside
  PROVE  <<x, y, z>> \in StepLists
<1> DEFINE T == GeneratorSteps
           p == <<x, y, z>>
<1>1. x \in T /\ ~x.chained
  BY DEF FreshSteps
<1> HIDE DEF T
<1>2. p \in Seq(T) /\ DOMAIN p = {1, 2, 3} /\ p[1] = x /\ p[2] = y /\ p[3] = z
  BY <1>1 DEF T
<1> HIDE DEF p
<1>3. ASSUME NEW i \in DOMAIN p, p[i].chained PROVE i > 1 /\ ~p[i - 1].aside
  <2>1. i # 1
    BY <1>1, <1>2, <1>3
  <2>2. CASE i = 2
    BY <1>2, <2>2
  <2>3. CASE i = 3
    BY <1>2, <2>3
  <2> QED
    BY <1>2, <2>1, <2>2, <2>3
<1>4. p \in StepLists
  BY <1>2, <1>3 DEF StepLists, T
<1> QED
  BY <1>4 DEF p

LEMMA ShortLists ==
  /\ <<>> \in StepLists /\ \A x \in FreshSteps : <<x>> \in StepLists
  /\ \A x, y \in FreshSteps : <<x, y>> \in StepLists
  /\ \A x, y, z \in FreshSteps : <<x, y, z>> \in StepLists
  /\ \A p, q \in StepLists : p \o q \in StepLists
<1>1. /\ <<>> \in Seq(FreshSteps) /\ \A x \in FreshSteps : <<x>> \in Seq(FreshSteps)
      /\ \A x, y \in FreshSteps : <<x, y>> \in Seq(FreshSteps)
      /\ \A x, y, z \in FreshSteps : <<x, y, z>> \in Seq(FreshSteps)
  OBVIOUS
<1> QED
  BY <1>1, FreshLists, ListsJoin

LEMMA ListsFlatten ==
  ASSUME NEW ss \in Seq(StepLists)
  PROVE  FlattenSeq(ss) \in StepLists
<1>1. Concatenates(StepLists) /\ <<>> \in StepLists
  BY ShortLists DEF Concatenates
<1> QED
  BY <1>1, FlattenedOf

LEMMA TimesAre ==
  ASSUME NEW n \in Nat, NEW steps \in StepLists
  PROVE  Times(n, steps) \in StepLists
<1>1. [i \in 1 .. n |-> steps] \in Seq(StepLists)
  OBVIOUS
<1> QED
  BY <1>1, ListsFlatten DEF Times, Concat

\* A step repeated ends with that step.
LEMMA RepeatedStep ==
  ASSUME NEW n \in Nat \ {0}, NEW x \in FreshSteps, ~x.aside, NEW p, p = Times(n, <<x>>)
  PROVE  p \in StepLists /\ p # <<>> /\ ~p[Len(p)].aside
<1> DEFINE T == {y \in FreshSteps : ~y.aside}
           S == Seq(T) \ {<<>>}
           ss == [i \in 1 .. n |-> <<x>>]
<1>1. Concatenates(S)
  <2>1. \A u, v \in Seq(T) : u # <<>> => u \o v \in Seq(T) /\ u \o v # <<>>
    <3> HIDE DEF T
    <3> QED
      OBVIOUS
  <2> QED
    BY <2>1 DEF Concatenates
<1>2. <<x>> \in S
  BY DEF T
<1> HIDE DEF S
<1>3. ss \in Seq(S) /\ ss # <<>>
  BY <1>2
<1>4. p = FlattenSeq(ss)
  BY DEF Times, Concat
<1> HIDE DEF ss
<1>5. p \in S
  BY <1>1, <1>3, <1>4, FlattenedOf
<1>6. p \in Seq(T) /\ p # <<>>
  BY <1>5 DEF S
<1>7. p[Len(p)] \in T
  <2> HIDE DEF T
  <2> QED
    BY <1>6
<1>8. p \in Seq(FreshSteps)
  BY <1>6 DEF T
<1> QED
  BY <1>6, <1>7, <1>8, FreshLists DEF T

LEMMA BlocksAre ==
  ASSUME NEW n \in Nat \ {0}, NEW channels \in Nat, NEW stride \in Nat \ {0}, NEW factor \in Nat,
         NEW downsample \in BOOLEAN
  PROVE  /\ VggBlock(n, channels) \in StepLists
         /\ SeparableBlock(channels, stride) \in StepLists
         /\ InvertedBlock(factor, channels, stride) \in StepLists
         /\ ResidualBlock(channels, downsample) \in StepLists
<1>0. {0, 1, 3} \subseteq Nat /\ 1 \in Nat \ {0} /\ 2 \in Nat \ {0}
  OBVIOUS
<1>a. ASSUME NEW k \in {1, 3}, NEW st \in Nat \ {0}, NEW pad \in {0, 1}
      PROVE  /\ Conv(k, st, pad, channels) \in FreshSteps
             /\ [Conv(k, st, pad, channels) EXCEPT !.aside = TRUE] \in FreshSteps
  <2>1. k \in Nat /\ pad \in Nat
    OBVIOUS
  <2> QED
    BY <2>1, FreshAre, Zenon
<1>b. Depthwise(stride) \in FreshSteps /\ Expand(factor) \in FreshSteps
  BY FreshAre, Zenon
<1>1. VggBlock(n, channels) \in StepLists
  <2> DEFINE x == Conv(3, 1, 1, channels)
             p == Times(n, <<x>>)
  <2>1. x \in FreshSteps /\ ~x.aside
    <3>1. 1 \in Nat /\ 3 \in Nat /\ 1 \in Nat \ {0}
      OBVIOUS
    <3> QED
      BY <3>1, FreshAre, Zenon
  <2>2. ChainedPool \in GeneratorSteps
    BY StepsAre
  <2>3. VggBlock(n, channels) = p \o <<ChainedPool>>
    BY DEF VggBlock
  <2> HIDE DEF x
  <2>4. p \in StepLists /\ p # <<>> /\ ~p[Len(p)].aside
    BY <2>1, RepeatedStep
  <2> HIDE DEF p
  <2> QED
    BY <2>2, <2>3, <2>4, ChainBehind
<1>2. /\ <<Depthwise(stride), Conv(1, 1, 0, channels)>> \in StepLists
      /\ <<Expand(factor)>> \in StepLists
  BY <1>0, <1>a, <1>b, ShortLists
<1>3. InvertedBlock(factor, channels, stride) \in StepLists
  <2>1. (IF factor > 1 THEN <<Expand(factor)>> ELSE <<>>) \in StepLists
    BY <1>2, ShortLists, Zenon
  <2> QED
    BY <2>1, <1>2, ShortLists, Zenon DEF InvertedBlock
<1>4. ResidualBlock(channels, downsample) \in StepLists
  <2> DEFINE st == IF downsample THEN 2 ELSE 1
             first == <<[Conv(1, st, 0, channels) EXCEPT !.aside = TRUE]>>
             rest  == <<Conv(3, st, 1, channels), Conv(3, 1, 1, channels)>>
  <2>1. st \in Nat \ {0}
    OBVIOUS
  <2>2. ResidualBlock(channels, downsample) = (IF downsample THEN first ELSE <<>>) \o rest
    BY DEF ResidualBlock
  <2> HIDE DEF st
  <2>3. first \in StepLists
    BY <2>1, <1>a, ShortLists
  <2>4. rest \in StepLists
    BY <2>1, <1>0, <1>a, ShortLists
  <2> HIDE DEF first, rest
  <2>5. (IF downsample THEN first ELSE <<>>) \in StepLists
    BY <2>3, ShortLists, Zenon
  <2> QED
    BY <2>2, <2>4, <2>5, ShortLists, Zenon
<1> QED
  BY <1>1, <1>2, <1>3, <1>4 DEF SeparableBlock

LEMMA StagesAre ==
  ASSUME NEW factor \in Nat, NEW channels \in Nat, NEW n \in Nat, n >= 1, NEW stride \in Nat \ {0}
  PROVE  InvertedStage(factor, channels, n, stride) \in StepLists
<1>1. 1 \in Nat \ {0} /\ n - 1 \in Nat /\ TRUE \in BOOLEAN
  OBVIOUS
<1>2. /\ InvertedBlock(factor, channels, stride) \in StepLists
      /\ InvertedBlock(factor, channels, 1) \in StepLists
  BY <1>1, BlocksAre
<1>3. Times(n - 1, InvertedBlock(factor, channels, 1)) \in StepLists
  BY <1>1, <1>2, TimesAre
<1> QED
  BY <1>2, <1>3, ShortLists, Zenon DEF InvertedStage

LEMMA NetworksAre ==
  ASSUME NEW name, NEW classes \in Nat
  PROVE  Steps(name, classes) \in StepLists /\ Steps(name, classes) \in Seq(GeneratorSteps)
<1> DEFINE S == StepLists
<1>a. 1 \in Nat /\ 1 \in Nat \ {0} /\ TRUE \in BOOLEAN /\ FALSE \in BOOLEAN
  OBVIOUS
<1>b. \A n \in Nat \ {0}, channels \in Nat : VggBlock(n, channels) \in S
  BY <1>a, BlocksAre, Zenon
<1>c. \A channels \in Nat, stride \in Nat \ {0} : SeparableBlock(channels, stride) \in S
  BY <1>a, BlocksAre, Zenon
<1>d. \A channels \in Nat : ResidualBlock(channels, TRUE) \in S /\ ResidualBlock(channels, FALSE) \in S
  BY <1>a, BlocksAre, Zenon
<1>e. \A k \in Nat, stride \in Nat \ {0}, pad \in Nat, n \in Nat : Conv(k, stride, pad, n) \in FreshSteps
  BY FreshAre
<1>f. \A n \in Nat : Fc(n) \in FreshSteps
  BY FreshAre
<1>h. \A factor \in Nat, channels \in Nat, n \in Nat \ {0}, stride \in Nat \ {0} :
        InvertedStage(factor, channels, n, stride) \in S
  BY StagesAre
<1>g. MaxPool \in FreshSteps /\ GlobalPool \in FreshSteps
  BY FreshAre
<1>1. Vgg16(classes) \in S
  <2> HIDE DEF S
  <2>1. /\ VggBlock(2, 64) \in S /\ VggBlock(2, 128) \in S /\ VggBlock(3, 256) \in S
        /\ VggBlock(3, 512) \in S
    BY <1>b
  <2>2. <<Fc(4096), Fc(4096), Fc(classes)>> \in S
    <3>1. Fc(4096) \in FreshSteps /\ Fc(classes) \in FreshSteps
      BY <1>e, <1>f, <1>g
    <3> QED
      BY <3>1, ShortLists DEF S
  <2> DEFINE ss == <<VggBlock(2, 64), VggBlock(2, 128), VggBlock(3, 256), VggBlock(3, 512),
                     VggBlock(3, 512), <<Fc(4096), Fc(4096), Fc(classes)>>>>
  <2>3. ss \in Seq(S)
    BY <2>1, <2>2
  <2>5. Vgg16(classes) = FlattenSeq(ss)
    BY DEF Vgg16, Concat
  <2> HIDE DEF ss
  <2> QED
    BY <2>3, <2>5, ListsFlatten DEF S
<1>2. MobileNetV1(classes) \in S
  <2> HIDE DEF S
  <2>1. /\ SeparableBlock(64, 1) \in S
        /\ SeparableBlock(128, 2) \in S /\ SeparableBlock(128, 1) \in S
        /\ SeparableBlock(256, 2) \in S /\ SeparableBlock(256, 1) \in S
        /\ SeparableBlock(512, 2) \in S /\ SeparableBlock(512, 1) \in S
        /\ SeparableBlock(1024, 2) \in S /\ SeparableBlock(1024, 1) \in S
    BY <1>c
  <2>2. Times(5, SeparableBlock(512, 1)) \in S
    BY <2>1, TimesAre DEF S
  <2>3. <<Conv(3, 2, 1, 32)>> \in S /\ <<GlobalPool, Fc(classes)>> \in S
    <3>1. Conv(3, 2, 1, 32) \in FreshSteps /\ GlobalPool \in FreshSteps /\ Fc(classes) \in FreshSteps
      BY <1>e, <1>f, <1>g
    <3> QED
      BY <3>1, ShortLists DEF S
  <2> DEFINE ss == <<<<Conv(3, 2, 1, 32)>>, SeparableBlock(64, 1),
                     SeparableBlock(128, 2), SeparableBlock(128, 1),
                     SeparableBlock(256, 2), SeparableBlock(256, 1),
                     SeparableBlock(512, 2), Times(5, SeparableBlock(512, 1)),
                     SeparableBlock(1024, 2), SeparableBlock(1024, 1),
                     <<GlobalPool, Fc(classes)>>>>
  <2>4. ss \in Seq(S)
    BY <2>1, <2>2, <2>3
  <2>5. MobileNetV1(classes) = FlattenSeq(ss)
    BY DEF MobileNetV1, Concat
  <2> HIDE DEF ss
  <2> QED
    BY <2>4, <2>5, ListsFlatten DEF S
<1>3. MobileNetV2(classes) \in S
  <2> HIDE DEF S
  <2>1. /\ InvertedStage(1, 16, 1, 1) \in S /\ InvertedStage(6, 24, 2, 2) \in S
        /\ InvertedStage(6, 32, 3, 2) \in S /\ InvertedStage(6, 64, 4, 2) \in S
        /\ InvertedStage(6, 96, 3, 1) \in S /\ InvertedStage(6, 160, 3, 2) \in S
        /\ InvertedStage(6, 320, 1, 1) \in S
    BY <1>h
  <2>2. <<Conv(3, 2, 1, 32)>> \in S /\ <<Conv(1, 1, 0, 1280), GlobalPool, Fc(classes)>> \in S
    <3>1. /\ Conv(3, 2, 1, 32) \in FreshSteps /\ Conv(1, 1, 0, 1280) \in FreshSteps
          /\ GlobalPool \in FreshSteps /\ Fc(classes) \in FreshSteps
      BY <1>e, <1>f, <1>g
    <3> QED
      BY <3>1, ShortLists DEF S
  <2> DEFINE ss == <<<<Conv(3, 2, 1, 32)>>,
                     InvertedStage(1, 16, 1, 1), InvertedStage(6, 24, 2, 2), InvertedStage(6, 32, 3, 2),
                     InvertedStage(6, 64, 4, 2), InvertedStage(6, 96, 3, 1), InvertedStage(6, 160, 3, 2),
                     InvertedStage(6, 320, 1, 1),
                     <<Conv(1, 1, 0, 1280), GlobalPool, Fc(classes)>>>>
  <2>3. ss \in Seq(S)
    BY <2>1, <2>2
  <2>5. MobileNetV2(classes) = FlattenSeq(ss)
    BY DEF MobileNetV2, Concat
  <2> HIDE DEF ss
  <2> QED
    BY <2>3, <2>5, ListsFlatten DEF S
<1>4. ResNet18(classes) \in S
  <2> DEFINE Halving(channels) == ResidualBlock(channels, TRUE)
             Keeping(channels) == ResidualBlock(channels, FALSE)
  <2>0. \A channels \in Nat : Halving(channels) \in S /\ Keeping(channels) \in S
    BY <1>d
  <2> HIDE DEF S, Halving, Keeping
  <2>1. /\ Keeping(64) \in S
        /\ Halving(128) \in S /\ Keeping(128) \in S
        /\ Halving(256) \in S /\ Keeping(256) \in S
        /\ Halving(512) \in S /\ Keeping(512) \in S
    BY <2>0
  <2>2. Times(2, Keeping(64)) \in S
    BY <2>1, TimesAre DEF S
  <2>3. <<Conv(7, 2, 3, 64), MaxPool>> \in S /\ <<GlobalPool, Fc(classes)>> \in S
    <3>1. /\ Conv(7, 2, 3, 64) \in FreshSteps /\ MaxPool \in FreshSteps
          /\ GlobalPool \in FreshSteps /\ Fc(classes) \in FreshSteps
      BY <1>e, <1>f, <1>g
    <3> QED
      BY <3>1, ShortLists DEF S
  <2> DEFINE ss == <<<<Conv(7, 2, 3, 64), MaxPool>>, Times(2, Keeping(64)),
                     Halving(128), Keeping(128),
                     Halving(256), Keeping(256),
                     Halving(512), Keeping(512),
                     <<GlobalPool, Fc(classes)>>>>
  <2>4. ss \in Seq(S)
    BY <2>1, <2>2, <2>3
  <2>5. ResNet18(classes) = FlattenSeq(ss)
    BY DEF ResNet18, Concat, Halving, Keeping
  <2> HIDE DEF ss
  <2> QED
    BY <2>4, <2>5, ListsFlatten DEF S
<1>5. <<Conv(3, 1, 1, classes)>> \in S
  BY <1>e, ShortLists
<1>6. TestNetwork(classes) \in S
  <2> DEFINE x == Conv(3, 1, 1, 32)
             y == ChainedPool
             z == Chained(Fc(classes))
  <2>1. x \in FreshSteps /\ ~x.aside
    <3>1. 1 \in Nat /\ 3 \in Nat /\ 32 \in Nat /\ 1 \in Nat \ {0}
      OBVIOUS
    <3> QED
      BY <3>1, FreshAre, Zenon
  <2>3. ~y.aside /\ y \in GeneratorSteps /\ z \in GeneratorSteps
    BY FreshAre, StepsAre, Zenon
  <2>2. TestNetwork(classes) = <<x, y, z>>
    BY DEF TestNetwork
  <2> HIDE DEF x, y, z
  <2> QED
    BY <2>1, <2>2, <2>3, ChainedPair
<1>7. Steps(name, classes) \in StepLists
  BY <1>1, <1>2, <1>3, <1>4, <1>5, <1>6 DEF Steps
<1> QED
  BY <1>7 DEF StepLists

\* A layer placed: its operations per output are counted, and so is the shape the
\* next one reads.
LEMMA LayerPlaced ==
  ASSUME NEW g, NEW n, {n.at.h, n.at.w, n.at.c} \subseteq Int, NEW step \in GeneratorSteps
  PROVE  LET after == AddStep(g, n, step)
         IN  /\ {after.at.h, after.at.w, after.at.c} \subseteq Int
             /\ \E l : after.layers = Append(n.layers, l) /\ OpsPerOutput(l.spec) \in Int
<1> DEFINE spec == StepSpec(step, n.at)
           shape == CompilerOutputShape(spec)
           after == AddStep(g, n, step)
<1>1. /\ step.type \in {"Conv2D", "DepthwiseConv2D", "Pooling", "FullyConnected"}
      /\ step.k \in Nat /\ step.stride \in Nat \ {0} /\ step.pad \in Nat /\ step.n \in Nat
      /\ step.expand \in Nat
  BY DEF GeneratorSteps
<1>2. /\ spec.type = step.type /\ spec.stride = step.stride /\ spec.pad = step.pad /\ spec.dil = 1
      /\ spec.ih = n.at.h /\ spec.iw = n.at.w /\ spec.ic = n.at.c
      /\ spec.kh = (IF step.k = 0 THEN n.at.h ELSE step.k)
      /\ spec.kw = (IF step.k = 0 THEN n.at.w ELSE step.k)
      /\ spec.kn = (IF step.type = "Pooling" /\ step.filters THEN n.at.c
                    ELSE IF step.expand > 0 THEN n.at.c * step.expand ELSE step.n)
  BY DEF StepSpec
<1> HIDE DEF spec
<1>3. {spec.ih, spec.iw, spec.ic, spec.kh, spec.kw, spec.kn} \subseteq Int
  <2>1. n.at.c * step.expand \in Int
    BY <1>1
  <2> QED
    BY <1>1, <1>2, <2>1
<1>4. OpsPerOutput(spec) \in Int
  <2>1. spec.kh * spec.kw \in Int /\ spec.kh * spec.kw * spec.ic \in Int
    BY <1>3
  <2> QED
    BY <1>1, <1>2, <1>3, <2>1 DEF OpsPerOutput
<1>5. {shape.h, shape.w, shape.c} \subseteq Int
  <2>1. ASSUME NEW extent \in Int, NEW k \in Int PROVE WindowCount(extent, k, spec) \in Int
    <3>1. EffectiveKernel(k, spec.dil) \in Int
      BY <1>2 DEF EffectiveKernel
    <3>2. extent + 2 * spec.pad - EffectiveKernel(k, spec.dil) \in Int /\ spec.stride \in Nat \ {0}
      BY <3>1, <1>1, <1>2
    <3>3. (extent + 2 * spec.pad - EffectiveKernel(k, spec.dil)) \div spec.stride \in Int
      BY <3>2
    <3> QED
      BY <3>3 DEF WindowCount
  <2>2. CASE spec.type \in Windowed
    <3>1. shape = WindowShape(spec, WindowChannels(spec))
      BY <2>2 DEF CompilerOutputShape, Windowed
    <3>2. WindowChannels(spec) \in Int
      BY <1>3 DEF WindowChannels
    <3>3. /\ shape.h = WindowCount(spec.ih, spec.kh, spec)
          /\ shape.w = WindowCount(spec.iw, spec.kw, spec) /\ shape.c = WindowChannels(spec)
      BY <3>1 DEF WindowShape, Shape
    <3> QED
      BY <3>2, <3>3, <2>1, <1>3
  <2>3. CASE spec.type \notin Windowed
    <3>1. spec.type = "FullyConnected"
      BY <2>3, <1>1, <1>2 DEF Windowed
    <3>2. shape = Shape(1, 1, spec.kn)
      BY <2>3, <3>1 DEF CompilerOutputShape
    <3> QED
      BY <3>2, <1>3 DEF Shape
  <2> QED
    BY <2>2, <2>3
<1> HIDE DEF shape
<1>6. after.at = n.at \/ after.at = shape
  BY DEF AddStep, spec, shape
<1>7. \E l : after.layers = Append(n.layers, l) /\ l.spec = spec
  BY DEF AddStep, spec
<1> QED
  BY <1>4, <1>5, <1>6, <1>7

\* Regrouping the processing elements of any hardware for any layer of any built-in
\* network uses no more multipliers than there are and leaves fewer than a group idle
\* (AdaptiveByOps of resolve_pe_for_layer).
THEOREM RegroupingKeepsBudget == Spec => []PeBudgetKept
<1>1. Init => Generating
  <2> SUFFICES ASSUME Init PROVE Generating
    OBVIOUS
  <2>1. gen = NewGenerator(hw) /\ net = Start(0, 1, 1, 1) /\ todo = <<>>
    BY DEF Init
  <2>2. "pe" \in DOMAIN gen /\ gen.pe \in ProcessingElements
    BY <2>1 DEF NewGenerator, DefaultPe, ProcessingElements
  <2>3. net.at.h = 1 /\ net.at.w = 1 /\ net.at.c = 1 /\ net.layers = <<>>
    BY <2>1 DEF Start, Shape
  <2>4. Range(net.layers) = {} /\ net.layers \in Seq(Range(net.layers))
    BY <2>3 DEF Range
  <2> QED
    BY <2>1, <2>2, <2>3, <2>4 DEF Generating
<1>2. Generating /\ [Next]_vars => Generating'
  <2> SUFFICES ASSUME Generating, [Next]_vars PROVE Generating'
    OBVIOUS
  <2>1. CASE UNCHANGED <<gen, net, todo>>
    BY <2>1 DEF Generating
  <2>2. ASSUME NEW pe \in PeChoices, NEW d, Configure(pe, d) PROVE Generating'
    <3>1. pe \in ProcessingElements
      BY CompilerAssumption DEF ProcessingElements
    <3>2. gen' = [gen EXCEPT !.configured = TRUE, !.pe = pe, !.dataflow = d] /\ UNCHANGED <<net, todo>>
      BY <2>2 DEF Configure, GeneratorCall
    <3>3. "pe" \in DOMAIN gen' /\ gen'.pe = pe
      BY <3>2 DEF Generating
    <3> QED
      BY <3>1, <3>2, <3>3 DEF Generating
  <2>3. ASSUME DOMAIN gen' = DOMAIN gen, gen'.pe = gen.pe, UNCHANGED <<net, todo>> PROVE Generating'
    BY <2>3 DEF Generating
  <2>4. CASE ResetConfig \/ ClearTypePe \/ ClearIndexPe \/ \E a \in BOOLEAN : SetPeGroupingMode(a)
    BY <2>3, <2>4 DEF Generating, ResetConfig, ClearTypePe, ClearIndexPe, SetPeGroupingMode, GeneratorCall
  <2>5. ASSUME NEW a, NEW b, SetTypePe(a, b) \/ SetIndexPe(a, b) PROVE Generating'
    BY <2>3, <2>5 DEF Generating, SetTypePe, SetIndexPe, GeneratorCall
  <2>6. ASSUME NEW name \in Networks, NEW cfg \in NetConfigs, Generate(name, cfg) PROVE Generating'
    <3>1. net' = StartOf(name, cfg) /\ todo' = Steps(name, cfg.classes) /\ gen' = gen
      BY <2>6 DEF Generate
    <3>2. {cfg.h, cfg.w, cfg.c, cfg.classes} \subseteq Nat
      BY CompilerAssumption
    <3>3. todo' \in Seq(GeneratorSteps)
      BY <3>1, <3>2, NetworksAre
    <3>4. net'.at.h = cfg.h /\ net'.at.w = cfg.w /\ net'.at.c = cfg.c /\ net'.layers = <<>>
      BY <3>1 DEF StartOf, Start, Shape
    <3>5. Range(net'.layers) = {} /\ net'.layers \in Seq(Range(net'.layers))
      BY <3>4 DEF Range
    <3> QED
      BY <3>1, <3>2, <3>3, <3>4, <3>5 DEF Generating
  <2>7. CASE GenerateLayer
    <3>1. net' = AddStep(gen, net, Head(todo)) /\ todo' = Tail(todo) /\ gen' = gen /\ todo # <<>>
      BY <2>7 DEF GenerateLayer
    <3>2. Head(todo) \in GeneratorSteps /\ todo' \in Seq(GeneratorSteps)
      BY <3>1 DEF Generating
    <3>3. {net'.at.h, net'.at.w, net'.at.c} \subseteq Int
      BY <3>1, <3>2, LayerPlaced DEF Generating
    <3>4. PICK l : net'.layers = Append(net.layers, l) /\ OpsPerOutput(l.spec) \in Int
      BY <3>1, <3>2, LayerPlaced DEF Generating
    <3> DEFINE S == Range(net.layers) \cup {l}
               before == net.layers
    <3>5. net'.layers \in Seq(Range(net'.layers)) /\ Range(net'.layers) \subseteq S
      <4>1. before \in Seq(Range(before))
        BY DEF Generating
      <4>2. net'.layers = Append(before, l) /\ S = Range(before) \cup {l}
        BY <3>4
      <4> HIDE DEF before, S
      <4>3. before \in Seq(S) /\ l \in S
        BY <4>1, <4>2
      <4>4. net'.layers \in Seq(S)
        BY <4>2, <4>3
      <4> QED
        BY <4>4 DEF Range
    <3>6. \A x \in S : OpsPerOutput(x.spec) \in Int
      BY <3>4 DEF Generating
    <3> QED
      BY <3>1, <3>2, <3>3, <3>5, <3>6 DEF Generating
  <2>8. CASE WriteCsv \/ UseCompiler \/ LoadImage \/ GenerateDone \/ UNCHANGED vars
    <3>1. UNCHANGED <<gen, net, todo>>
      BY <2>8 DEF WriteCsv, WriteRow, GenerateFromCsv, UseCompiler, AddLayer, AddLayerDirect,
           AddLayerDerived, AttachWeights, SetFirstLayerInput, Clear, ApiCall, Compile, LoadImage,
           Load, GenerateDone, vars
    <3> QED
      BY <3>1, <2>1
  <2> QED
    BY <2>2, <2>4, <2>5, <2>6, <2>7, <2>8 DEF Next, UseGenerator
<1>3. Generating => PeBudgetKept
  <2> SUFFICES ASSUME Generating, NEW i \in DOMAIN net.layers, gen.adaptive,
                      i - 1 \notin DOMAIN gen.indexPe,
                      net.layers[i].spec.type \notin DOMAIN gen.typePe
               PROVE  LET spec == net.layers[i].spec
                          base == SanitizePe(gen.pe)
                          pe   == ResolvePe(gen, spec, i - 1)
                          Multipliers(p) == p.k * MaxWidth(p)
                      IN  /\ Multipliers(pe) <= Multipliers(base)
                          /\ Multipliers(base) - Multipliers(pe) < pe.k * pe.g
    BY DEF PeBudgetKept
  <2> DEFINE spec == net.layers[i].spec
             base == SanitizePe(gen.pe)
             pe   == ResolvePe(gen, spec, i - 1)
  <2>1. pe = AdaptedPe(base, spec)
    BY DEF ResolvePe
  <2>2. /\ {base.k, base.g, base.s} \subseteq Nat \ {0}
        /\ DOMAIN base = {"type", "k", "g", "s", "psumKb"}
    BY DEF Generating, ProcessingElements, SanitizePe, Most
  <2>3. OpsPerOutput(spec) \in Int
    BY DEF Generating, Range
  <2> HIDE DEF spec, base, pe
  <2>4. /\ pe.k * (pe.s * pe.g) <= base.k * (base.s * base.g)
        /\ base.k * (base.s * base.g) - pe.k * (pe.s * pe.g) < pe.k * pe.g
    BY <2>1, <2>2, <2>3, Regrouped
  <2> QED
    BY <2>4 DEF MaxWidth, spec, base, pe
<1> QED
  BY <1>1, <1>2, <1>3, PTL DEF Spec

----------------------------------------------------------------------------
(* Sorting by rank *)

\* A strict total order on the domain, as the elements before each.
Orders(before, S) ==
  /\ \A x \in S : before[x] \subseteq S /\ x \notin before[x]
  /\ \A x, y \in S : x = y \/ x \in before[y] \/ y \in before[x]
  /\ \A x, y \in S : x \in before[y] => before[x] \subseteq before[y]

LEMMA ArrangedInOrder ==
  ASSUME NEW before, NEW S, S = DOMAIN before, IsFiniteSet(S), Orders(before, S),
         NEW z, z = Cardinality(S), NEW order, order = Arranged(before)
  PROVE  /\ z \in Nat /\ DOMAIN order = 1 .. z
         /\ \A n \in 1 .. z : order[n] \in S /\ Cardinality(before[order[n]]) = n - 1
         /\ \A x \in S : /\ Cardinality(before[x]) + 1 \in 1 .. z
                         /\ order[Cardinality(before[x]) + 1] = x
         /\ \A m, n \in 1 .. z : m < n => order[m] \in before[order[n]]
<1>1. z \in Nat
  BY FS_CardinalityType
<1>2. ASSUME NEW x \in S
      PROVE  IsFiniteSet(before[x]) /\ Cardinality(before[x]) \in 0 .. z - 1
  <2>1. before[x] \in SUBSET S /\ before[x] # S
    BY DEF Orders
  <2>2. IsFiniteSet(before[x]) /\ Cardinality(before[x]) <= z /\ Cardinality(before[x]) # z
    BY <2>1, FS_Subset
  <2>3. Cardinality(before[x]) \in Nat
    BY <2>2, FS_CardinalityType
  <2> QED
    BY <1>1, <2>2, <2>3
<1>3. ASSUME NEW x \in S, NEW y \in S, x \in before[y]
      PROVE  Cardinality(before[x]) < Cardinality(before[y])
  <2>1. before[x] \in SUBSET before[y] /\ before[x] # before[y]
    BY <1>3 DEF Orders
  <2>2. /\ Cardinality(before[x]) <= Cardinality(before[y])
        /\ Cardinality(before[x]) # Cardinality(before[y])
    BY <1>2, <2>1, FS_Subset
  <2>3. Cardinality(before[x]) \in Int /\ Cardinality(before[y]) \in Int
    BY <1>2
  <2> QED
    BY <2>2, <2>3
<1> DEFINE rank == [x \in S |-> Cardinality(before[x])]
<1>4. rank \in [S -> 0 .. z - 1] /\ \A x, y \in S : rank[x] = rank[y] => x = y
  <2>1. \A x \in S : rank[x] \in 0 .. z - 1
    BY <1>2
  <2>2. ASSUME NEW x \in S, NEW y \in S, rank[x] = rank[y] PROVE x = y
    <3>1. x = y \/ x \in before[y] \/ y \in before[x]
      BY DEF Orders
    <3>2. Cardinality(before[x]) \in Int /\ Cardinality(before[x]) = Cardinality(before[y])
      BY <1>2, <2>2
    <3> QED
      BY <1>3, <3>1, <3>2
  <2> QED
    BY <2>1, <2>2
<1>5. rank \in Injection(S, 0 .. z - 1)
  BY <1>4 DEF Injection, IsInjective
<1>6. IsFiniteSet(0 .. z - 1) /\ Cardinality(0 .. z - 1) = z
  <2>1. 0 \in Int /\ z - 1 \in Int
    BY <1>1
  <2>2. IsFiniteSet(0 .. z - 1) /\ Cardinality(0 .. z - 1) = IF 0 > z - 1 THEN 0 ELSE (z - 1) - 0 + 1
    BY <2>1, FS_Interval
  <2> QED
    BY <1>1, <2>2
<1> HIDE DEF rank
<1>7. rank \in Surjection(S, 0 .. z - 1)
  BY <1>5, <1>6, FS_Injection
<1>8. \A n \in 0 .. z - 1 : \E x \in S : rank[x] = n
  BY <1>7 DEF Surjection
<1>9. DOMAIN order = 1 .. z /\ \A n \in 1 .. z : order[n] = CHOOSE x \in S : Cardinality(before[x]) = n - 1
  BY DEF Arranged
<1>10. ASSUME NEW n \in 1 .. z PROVE order[n] \in S /\ Cardinality(before[order[n]]) = n - 1
  <2>1. n - 1 \in 0 .. z - 1
    BY <1>1
  <2>2. PICK x \in S : rank[x] = n - 1
    BY <1>8, <2>1
  <2>3. x \in S /\ Cardinality(before[x]) = n - 1
    BY <2>2 DEF rank
  <2> QED
    BY <1>9, <2>3
<1>11. ASSUME NEW x \in S
       PROVE  Cardinality(before[x]) + 1 \in 1 .. z /\ order[Cardinality(before[x]) + 1] = x
  <2> DEFINE n == Cardinality(before[x]) + 1
  <2>1. n \in 1 .. z /\ n - 1 = Cardinality(before[x])
    BY <1>1, <1>2
  <2> HIDE DEF n
  <2>2. order[n] \in S /\ Cardinality(before[order[n]]) = n - 1
    BY <1>10, <2>1
  <2>3. rank[order[n]] = rank[x]
    BY <2>1, <2>2 DEF rank
  <2> QED
    BY <1>4, <2>1, <2>2, <2>3 DEF n
<1>12. ASSUME NEW m \in 1 .. z, NEW n \in 1 .. z, m < n PROVE order[m] \in before[order[n]]
  <2>1. /\ order[m] \in S /\ Cardinality(before[order[m]]) = m - 1
        /\ order[n] \in S /\ Cardinality(before[order[n]]) = n - 1
    BY <1>10
  <2>2. order[m] # order[n] /\ ~(order[n] \in before[order[m]])
    BY <1>3, <1>12, <2>1
  <2> QED
    BY <2>1, <2>2 DEF Orders
<1> QED
  BY <1>1, <1>9, <1>10, <1>11, <1>12

----------------------------------------------------------------------------
(* Shapes, and the cut of a layer *)

LEMMA SpecFields ==
  ASSUME NEW s \in LayerSpecs
  PROVE  /\ s.type \in FuncTypes /\ s.stride \in Nat \ {0} /\ s.pad \in Nat /\ s.dil \in Nat \ {0}
         /\ s.ih \in Nat /\ s.iw \in Nat /\ s.ic \in Nat
         /\ s.kh \in Nat /\ s.kw \in Nat /\ s.kc \in Nat /\ s.kn \in Nat
BY DEF LayerSpecs

\* A kernel that fits has at least one window.
LEMMA WindowsAre ==
  ASSUME NEW s \in LayerSpecs, KernelFits(s), s.type \in Windowed
  PROVE  /\ WindowCount(s.ih, s.kh, s) \in Nat \ {0}
         /\ WindowCount(s.iw, s.kw, s) \in Nat \ {0}
<1>1. ASSUME NEW extent \in Nat, NEW k \in Nat, extent + 2 * s.pad >= EffectiveKernel(k, s.dil)
      PROVE  WindowCount(extent, k, s) \in Nat \ {0}
  <2> DEFINE room == (extent + 2 * s.pad) - EffectiveKernel(k, s.dil)
  <2>1. EffectiveKernel(k, s.dil) \in Int
    <3>1. (k - 1) * (s.dil - 1) \in Int
      BY SpecFields
    <3> QED
      BY <3>1 DEF EffectiveKernel
  <2>2. room \in Nat /\ s.stride \in Nat \ {0}
    BY <1>1, <2>1, SpecFields
  <2>3. WindowCount(extent, k, s) = (room \div s.stride) + 1
    BY <2>1, SpecFields DEF WindowCount
  <2> HIDE DEF room
  <2>4. room \div s.stride \in Nat
    BY <2>2
  <2> QED
    BY <2>3, <2>4
<1> QED
  BY <1>1, SpecFields DEF KernelFits

ShapeOK(o) == {o.h, o.w, o.c} \subseteq Nat

LEMMA ShapeVolume == ASSUME NEW o, ShapeOK(o) PROVE Volume(o) \in Nat
<1>1. o.h \in Nat /\ o.w \in Nat /\ o.c \in Nat
  BY DEF ShapeOK
<1>2. o.h * o.w \in Nat
  BY <1>1
<1>3. o.h * o.w * o.c \in Nat
  BY <1>1, <1>2
<1> QED
  BY <1>3 DEF Volume

LEMMA ShapesAre ==
  ASSUME NEW s \in LayerSpecs, KernelFits(s)
  PROVE  /\ ShapeOK(InputShape(s)) /\ ShapeOK(CompilerOutputShape(s)) /\ ShapeOK(OutputShape(s))
         /\ s.type \in Windowed => /\ OutputShape(s) = CompilerOutputShape(s)
                                   /\ {OutputShape(s).h, OutputShape(s).w} \subseteq Nat \ {0}
<1>1. ShapeOK(InputShape(s)) /\ ShapeOK(Shape(1, 1, s.kn)) /\ ShapeOK(Shape(s.ih, s.iw, 1))
  BY SpecFields DEF ShapeOK, InputShape, Shape
<1>2. ASSUME s.type \in Windowed
      PROVE  /\ ShapeOK(CompilerOutputShape(s))
             /\ {CompilerOutputShape(s).h, CompilerOutputShape(s).w} \subseteq Nat \ {0}
  <2>1. CompilerOutputShape(s) = WindowShape(s, WindowChannels(s))
    BY <1>2 DEF CompilerOutputShape, Windowed
  <2>2. WindowChannels(s) \in Nat
    BY SpecFields DEF WindowChannels
  <2>3. /\ CompilerOutputShape(s).h = WindowCount(s.ih, s.kh, s)
        /\ CompilerOutputShape(s).w = WindowCount(s.iw, s.kw, s)
        /\ CompilerOutputShape(s).c = WindowChannels(s)
    BY <2>1 DEF WindowShape, Shape
  <2> QED
    BY <1>2, <2>2, <2>3, WindowsAre DEF ShapeOK
<1>3. ShapeOK(CompilerOutputShape(s))
  BY <1>1, <1>2 DEF CompilerOutputShape
<1>4. ShapeOK(OutputShape(s))
  <2>1. ShapeOK(Shape(s.ih, s.iw, IF s.kn > 0 THEN s.kn ELSE s.ic))
    BY SpecFields DEF ShapeOK, Shape
  <2> QED
    BY <1>3, <2>1 DEF OutputShape
<1>5. s.type \in Windowed => OutputShape(s) = CompilerOutputShape(s)
  BY DEF OutputShape, Windowed
<1> QED
  BY <1>1, <1>2, <1>3, <1>4, <1>5

\* The cut of a layer that fits is one of a layer with an output, an input and a kernel.
LEMMA LayerCutOK ==
  ASSUME NEW s, LayerFits(s), s.type \in TiledTypes, NEW th \in Nat, NEW tw \in Nat, NEW kb \in Nat
  PROVE  CutOK(LayerCut(s, th, tw, kb))
<1> DEFINE c == LayerCut(s, th, tw, kb)
<1>1. /\ s \in LayerSpecs /\ KernelFits(s) /\ s.ih \in Nat \ {0} /\ s.iw \in Nat \ {0}
      /\ s.ic \in Nat \ {0} /\ s.kh \in Nat \ {0} /\ s.kw \in Nat \ {0}
      /\ OutputShape(s).c \in Nat \ {0}
  BY DEF LayerFits
<1>2. OutputShape(s).h \in Nat \ {0} /\ OutputShape(s).w \in Nat \ {0}
  <2>1. CASE s.type \in Windowed
    BY <1>1, <2>1, ShapesAre
  <2>2. CASE s.type = "FullyConnected"
    <3>1. OutputShape(s) = Shape(1, 1, s.kn)
      BY <2>2 DEF OutputShape, CompilerOutputShape, Windowed
    <3> QED
      BY <3>1 DEF Shape
  <2>3. CASE s.type = "MatMul"
    <3>1. OutputShape(s).h = s.ih /\ OutputShape(s).w = s.iw
      BY <2>3 DEF OutputShape, Shape
    <3> QED
      BY <1>1, <3>1
  <2> QED
    BY <2>1, <2>2, <2>3 DEF TiledTypes
<1>3. /\ c.out = OutputShape(s) /\ c.ic = s.ic /\ c.kh = s.kh /\ c.kw = s.kw /\ c.stride = s.stride
      /\ c.kb = kb /\ c.th = th /\ c.tw = tw /\ c.inKb = 0 /\ c.wtKb = 0 /\ c.outKb = 0
      /\ c.depthwise = (s.type = "DepthwiseConv2D")
  BY DEF LayerCut
<1>4. s.stride \in Nat \ {0} /\ c.depthwise \in BOOLEAN
  BY <1>1, <1>3, SpecFields
<1> HIDE DEF c
<1> QED
  BY <1>1, <1>2, <1>3, <1>4 DEF CutOK, c

LEMMA ScheduleTrafficIs ==
  ASSUME NEW c, CutOK(c)
  PROVE  ScheduleInput(Schedule(c)) \in Nat /\ ScheduleKernel(Schedule(c)) \in Nat
<1> DEFINE S == TileIds(c)
           fi == [k \in S |-> Schedule(c)[k].traffic.input]
           fk == [k \in S |-> Schedule(c)[k].traffic.kernel]
<1>1. \A k \in S : fi[k] \in Nat /\ fk[k] \in Nat
  BY ScheduleMoves
<1>2. IsFiniteSet(S)
  BY TilesFinite
<1>3. DOMAIN Schedule(c) = S
  BY DEF Schedule
<1>4. ScheduleInput(Schedule(c)) = SumFunctionOnSet(fi, S) /\ ScheduleKernel(Schedule(c)) = SumFunctionOnSet(fk, S)
  BY <1>3 DEF ScheduleInput, ScheduleKernel, ScheduleTotal, SumFunction
<1> HIDE DEF S, fi, fk
<1> QED
  BY <1>1, <1>2, <1>4, SumNat

----------------------------------------------------------------------------
(* Latency descriptors *)

\* A latency descriptor that counts what a layer fetches and writes.
LatencyOK(lat) ==
  /\ DOMAIN lat = {"fI", "fW", "fO", "preIn", "preWt", "nMin", "nMax", "issue", "post", "ops"}
  /\ {lat.fW, lat.fO, lat.nMin, lat.nMax} \subseteq Nat /\ lat.fI \in Int

\* Processing elements with none of their dimensions zero.
ElementOK(pe) == {pe.k, pe.g, pe.s} \subseteq Nat \ {0} /\ pe.psumKb \in Nat

LEMMA SanitizedOK ==
  ASSUME NEW pe \in ProcessingElements
  PROVE  /\ ElementOK(SanitizePe(pe))
         /\ DOMAIN SanitizePe(pe) = {"type", "k", "g", "s", "psumKb"}
<1> DEFINE q == SanitizePe(pe)
<1>1. /\ DOMAIN pe = {"type", "k", "g", "s", "psumKb"}
      /\ pe.k \in Nat /\ pe.g \in Nat /\ pe.s \in Nat /\ pe.psumKb \in Nat
  BY DEF ProcessingElements
<1>2. /\ q.k = Most(1, pe.k) /\ q.g = Most(1, pe.g) /\ q.s = Most(1, pe.s) /\ q.psumKb = pe.psumKb
      /\ DOMAIN q = {"type", "k", "g", "s", "psumKb"}
  BY <1>1 DEF SanitizePe
<1>3. \A n \in Nat : Most(1, n) \in Nat \ {0}
  BY DEF Most
<1> HIDE DEF q
<1> QED
  BY <1>1, <1>2, <1>3 DEF ElementOK, q

LEMMA OpsAre ==
  ASSUME NEW s \in LayerSpecs
  PROVE  OpsPerOutput(s) \in Nat
<1>1. s.kh * s.kw \in Nat /\ s.kh * s.kw * s.ic \in Nat
  <2>1. s.kh \in Nat /\ s.kw \in Nat /\ s.ic \in Nat
    BY SpecFields
  <2>2. s.kh * s.kw \in Nat
    BY <2>1
  <2> QED
    BY <2>1, <2>2
<1> QED
  BY <1>1, SpecFields DEF OpsPerOutput

\* Whatever the grouping, each dimension is at least one.
LEMMA AdaptedOK ==
  ASSUME NEW base, ElementOK(base), DOMAIN base = {"type", "k", "g", "s", "psumKb"},
         NEW spec, OpsPerOutput(spec) \in Int
  PROVE  ElementOK(AdaptedPe(base, spec))
<1> DEFINE total  == base.k * MaxWidth(base)
           target == Most(1, Least(base.k, OpsPerOutput(spec)))
           T      == {n \in 1 .. target : total % n = 0}
           k      == Max(T)
           units  == total \div k
           lanes  == Most(1, CeilDiv(OpsPerOutput(spec), k))
           g      == Least(Least(base.g, lanes), units)
           s      == Most(1, units \div g)
           pe     == AdaptedPe(base, spec)
<1>1. pe.k = k /\ pe.g = g /\ pe.s = s /\ pe.psumKb = base.psumKb
  BY DEF AdaptedPe
<1>2. base.k \in Nat \ {0} /\ base.s \in Nat \ {0} /\ base.g \in Nat \ {0} /\ base.psumKb \in Nat
  BY DEF ElementOK
<1>3. total \in Nat \ {0}
  <2>1. base.s * base.g \in Nat \ {0}
    BY <1>2
  <2> HIDE DEF total
  <2> QED
    BY <1>2, <2>1, Products DEF total, MaxWidth
<1>4. target \in Nat \ {0}
  BY <1>2 DEF Most, Least
<1> HIDE DEF total, target
<1>5. k \in Nat \ {0} /\ total % k = 0
  <2>1. total % 1 = 0
    BY <1>3
  <2>2. 1 \in T /\ T \subseteq 1 .. target
    BY <2>1, <1>4
  <2>3. k \in T
    <3> HIDE DEF T
    <3>1. 1 \in Int /\ target \in Int
      BY <1>4
    <3> QED
      BY <2>2, <3>1, MaxIn
  <2> HIDE DEF k
  <2> QED
    BY <2>3, <1>4
<1> HIDE DEF T, k
<1>6. units \in Nat \ {0}
  <2>1. units \in Nat /\ total = k * units + (total % k)
    BY <1>3, <1>5, DivMod
  <2> HIDE DEF units
  <2>2. units # 0
    <3>1. units = 0 => k * units = 0
      BY <1>5
    <3> QED
      BY <2>1, <3>1, <1>3, <1>5
  <2> QED
    BY <2>1, <2>2
<1>7. lanes \in Nat \ {0}
  <2>1. CeilDiv(OpsPerOutput(spec), k) \in Int
    BY <1>5 DEF CeilDiv
  <2> QED
    BY <2>1 DEF Most
<1> HIDE DEF units, lanes
<1>8. g \in Nat \ {0}
  BY <1>2, <1>6, <1>7 DEF Least
<1> HIDE DEF g
<1>9. s \in Nat \ {0}
  <2>1. units \div g \in Int
    BY <1>6, <1>8
  <2> QED
    BY <2>1 DEF Most
<1> HIDE DEF s
<1> QED
  BY <1>1, <1>2, <1>5, <1>8, <1>9 DEF ElementOK

LEMMA WidthsAre ==
  ASSUME NEW pe, ElementOK(pe)
  PROVE  MaxWidth(pe) \in Nat \ {0} /\ MinWidth(pe) \in Nat \ {0}
<1>1. pe.s \in Nat \ {0} /\ pe.g \in Nat \ {0}
  BY DEF ElementOK
<1> QED
  BY <1>1, Products DEF MaxWidth, MinWidth

LEMMA SpillIs ==
  ASSUME NEW pe, ElementOK(pe), NEW passes \in Nat, NEW outputs \in Nat
  PROVE  SpilledWords(passes, outputs, pe) \in Nat
<1> DEFINE capacity   == pe.psumKb * 256
           concurrent == Least(outputs, MaxWidth(pe))
           sums       == (passes - pe.g) * outputs
           excess     == concurrent - capacity
<1>1. pe.g \in Nat \ {0} /\ pe.psumKb \in Nat /\ MaxWidth(pe) \in Nat \ {0}
  BY WidthsAre DEF ElementOK
<1>2. SpilledWords(passes, outputs, pe) =
        IF passes <= pe.g \/ (capacity > 0 /\ excess <= 0) THEN 0
        ELSE IF capacity = 0 THEN sums
        ELSE (sums \div concurrent) * excess + ((sums % concurrent) * excess) \div concurrent
  BY DEF SpilledWords
<1>3. capacity \in Nat /\ concurrent \in Nat
  BY <1>1 DEF Least
<1> HIDE DEF capacity, concurrent
<1>4. passes > pe.g => sums \in Nat
  <2>1. passes > pe.g => passes - pe.g \in Nat
    BY <1>1
  <2> QED
    BY <2>1, Products
<1>5. ASSUME passes > pe.g, capacity > 0, excess > 0
      PROVE  (sums \div concurrent) * excess + ((sums % concurrent) * excess) \div concurrent \in Nat
  <2>1. excess \in Nat /\ concurrent \in Nat \ {0} /\ sums \in Nat
    BY <1>3, <1>4, <1>5
  <2> HIDE DEF excess, sums
  <2>2. sums \div concurrent \in Nat /\ sums % concurrent \in Nat
    BY <2>1
  <2> DEFINE q == sums \div concurrent
             r == sums % concurrent
  <2>3. q * excess \in Nat /\ r * excess \in Nat
    BY <2>1, <2>2, Products
  <2>4. (r * excess) \div concurrent \in Nat
    <3> DEFINE re == r * excess
    <3>1. re \in Nat
      BY <2>3
    <3> HIDE DEF re
    <3>2. re \div concurrent \in Nat
      BY <3>1, <2>1
    <3> QED
      BY <3>2 DEF re
  <2> QED
    BY <2>3, <2>4
<1> HIDE DEF sums, excess
<1>6. CASE passes <= pe.g
  BY <1>2, <1>6
<1>7. CASE passes > pe.g
  <2>1. CASE capacity > 0
    <3>1. excess \in Int /\ capacity # 0
      BY <1>3, <2>1 DEF excess
    <3> QED
      BY <1>1, <1>2, <1>5, <1>7, <2>1, <3>1
  <2>2. CASE capacity = 0
    BY <1>1, <1>2, <1>4, <1>7, <2>2
  <2> QED
    BY <1>3, <2>1, <2>2
<1> QED
  BY <1>1, <1>6, <1>7

LEMMA PassesAre ==
  ASSUME NEW ops \in Nat, NEW k \in Nat \ {0}
  PROVE  CeilDiv(ops, k) \in Nat
<1>1. ops + k - 1 \in Nat
  OBVIOUS
<1> QED
  BY <1>1 DEF CeilDiv

LEMMA DescriptorOK ==
  ASSUME NEW spec \in LayerSpecs, NEW pe, ElementOK(pe), NEW out, ShapeOK(out),
         NEW base, base.in \in Nat, base.wt \in Nat, NEW dataflow
  PROVE  LatencyOK(Descriptor(spec, pe, out, base, dataflow))
<1> DEFINE passes == PassesPerOutput(spec, pe)
           spill  == SpilledWords(passes, Volume(out), pe)
           fetch  == WithSpill(base, dataflow, spill)
           lat    == Descriptor(spec, pe, out, base, dataflow)
<1>1. passes \in Nat /\ Volume(out) \in Nat
  <2>1. pe.k \in Nat \ {0}
    BY DEF ElementOK
  <2> QED
    BY <2>1, OpsAre, PassesAre, ShapeVolume DEF PassesPerOutput
<1>2. spill \in Nat
  <2> HIDE DEF passes
  <2> QED
    BY <1>1, SpillIs
<1>3. /\ DOMAIN lat = {"fI", "fW", "fO", "preIn", "preWt", "nMin", "nMax", "issue", "post", "ops"}
      /\ lat.fI = fetch.in /\ lat.fW = fetch.wt /\ lat.fO = passes * Volume(out)
      /\ lat.nMin = MinWidth(pe) /\ lat.nMax = MaxWidth(pe)
  BY DEF Descriptor
<1> HIDE DEF lat
<1>4. fetch.in \in Nat /\ fetch.wt \in Nat
  <2> HIDE DEF spill
  <2>1. /\ fetch.in = base.in + (IF dataflow \in {"WS", "OS"} THEN spill ELSE 0)
        /\ fetch.wt = base.wt + (IF dataflow \in {"IS", "OS"} THEN spill ELSE 0)
    BY DEF WithSpill
  <2> HIDE DEF fetch
  <2> QED
    BY <1>2, <2>1
<1> HIDE DEF fetch, passes
<1>5. passes * Volume(out) \in Nat
  BY <1>1, Products
<1> QED
  BY <1>3, <1>4, <1>5, WidthsAre DEF LatencyOK, lat

LEMMA UntiledOK ==
  ASSUME NEW spec \in LayerSpecs, KernelFits(spec)
  PROVE  /\ UntiledTraffic(spec).in \in Nat /\ UntiledTraffic(spec).wt \in Nat
         /\ ShapeOK(UntiledShape(spec))
<1>1. Volume(InputShape(spec)) \in Nat
  BY ShapesAre, ShapeVolume
<1>2. spec.kh * spec.kw * spec.kc * spec.kn \in Nat /\ spec.kc * spec.kn \in Nat
  <2>1. spec.kh \in Nat /\ spec.kw \in Nat /\ spec.kc \in Nat /\ spec.kn \in Nat
    BY SpecFields
  <2>2. spec.kh * spec.kw \in Nat
    BY <2>1, Products
  <2>3. spec.kh * spec.kw * spec.kc \in Nat
    BY <2>1, <2>2, Products
  <2> QED
    BY <2>1, <2>3, Products
<1>3. /\ UntiledTraffic(spec).in = Volume(InputShape(spec))
      /\ UntiledTraffic(spec).wt =
           CASE spec.type \in {"Conv2D", "DepthwiseConv2D"} -> spec.kh * spec.kw * spec.kc * spec.kn
             [] spec.type = "FullyConnected"                -> spec.kc * spec.kn
             [] OTHER                                       -> 0
  BY DEF UntiledTraffic
<1>4. UntiledTraffic(spec).wt \in Nat
  BY <1>2, <1>3
<1>5. ShapeOK(UntiledShape(spec))
  BY ShapesAre DEF UntiledShape
<1> QED
  BY <1>1, <1>3, <1>4, <1>5

LEMMA TiledTrafficIs ==
  ASSUME NEW spec, LayerFits(spec), spec.type \in TiledTypes,
         NEW th \in Nat, NEW tw \in Nat, NEW kb \in Nat, NEW dataflow
  PROVE  /\ TiledTraffic(spec, th, tw, kb, dataflow).in \in Nat
         /\ TiledTraffic(spec, th, tw, kb, dataflow).wt \in Nat
<1> DEFINE input   == Volume(InputShape(spec))
           lowered == OutputShape(spec).h * OutputShape(spec).w * spec.ic * spec.kh * spec.kw
           kernel  == spec.kh * spec.kw * spec.kc * spec.kn
           matrix  == spec.ih * spec.kc * spec.kn
           sched   == Schedule(LayerCut(spec, th, tw, kb))
           t      == TiledTraffic(spec, th, tw, kb, dataflow)
<1>1. spec \in LayerSpecs /\ KernelFits(spec)
  BY DEF LayerFits
<1>2. input \in Nat
  BY <1>1, ShapesAre, ShapeVolume
<1>3. /\ spec.kh \in Nat /\ spec.kw \in Nat /\ spec.kc \in Nat /\ spec.kn \in Nat
      /\ spec.ih \in Nat /\ spec.ic \in Nat /\ OutputShape(spec).h \in Nat /\ OutputShape(spec).w \in Nat
  BY <1>1, SpecFields, ShapesAre DEF ShapeOK
<1>4. kernel \in Nat
  <2>1. spec.kh * spec.kw \in Nat
    BY <1>3, Products
  <2>2. spec.kh * spec.kw * spec.kc \in Nat
    BY <1>3, <2>1, Products
  <2> QED
    BY <1>3, <2>2, Products
<1>5. matrix \in Nat
  <2>1. spec.ih * spec.kc \in Nat
    BY <1>3, Products
  <2> QED
    BY <1>3, <2>1, Products
<1>6. lowered \in Nat
  <2>1. OutputShape(spec).h * OutputShape(spec).w \in Nat
    BY <1>3, Products
  <2>2. OutputShape(spec).h * OutputShape(spec).w * spec.ic \in Nat
    BY <1>3, <2>1, Products
  <2>3. OutputShape(spec).h * OutputShape(spec).w * spec.ic * spec.kh \in Nat
    BY <1>3, <2>2, Products
  <2> QED
    BY <1>3, <2>3, Products
<1>7. ScheduleInput(sched) \in Nat /\ ScheduleKernel(sched) \in Nat
  BY LayerCutOK, ScheduleTrafficIs
<1>8. t = IF spec.type = "MatMul"
          THEN [in |-> input, wt |-> IF spec.kc > 0 /\ spec.kn > 0 THEN matrix ELSE input]
          ELSE [in |-> IF dataflow = "IS" THEN lowered ELSE ScheduleInput(sched),
                wt |-> IF dataflow = "WS" THEN kernel ELSE ScheduleKernel(sched)]
  BY DEF TiledTraffic
<1> HIDE DEF input, lowered, kernel, matrix, sched, t
<1>9. t.in \in Nat /\ t.wt \in Nat
  BY <1>2, <1>4, <1>5, <1>6, <1>7, <1>8
<1> QED
  BY <1>9 DEF t

LEMMA LatenciesOK ==
  ASSUME NEW spec, LayerFits(spec), NEW th \in Nat, NEW tw \in Nat, NEW kb \in Nat,
         NEW dataflow, NEW pe \in ProcessingElements, NEW own
  PROVE  LatencyOK(TiledLatency(spec, th, tw, kb, dataflow, pe, own))
<1>1. spec \in LayerSpecs /\ KernelFits(spec) /\ ElementOK(SanitizePe(pe))
  BY SanitizedOK DEF LayerFits
<1>2. CASE spec.type \in TiledTypes
  <2>1. ShapeOK(OutputShape(spec))
    BY <1>1, ShapesAre
  <2> QED
    BY <1>1, <1>2, <2>1, TiledTrafficIs, DescriptorOK DEF TiledLatency
<1>3. CASE spec.type \notin TiledTypes
  BY <1>1, <1>3, UntiledOK, DescriptorOK DEF TiledLatency, DefaultLatency
<1> QED
  BY <1>2, <1>3

LEMMA DefaultLatencyOK ==
  ASSUME NEW spec \in LayerSpecs, KernelFits(spec), NEW pe \in ProcessingElements, NEW dataflow
  PROVE  LatencyOK(DefaultLatency(spec, pe, dataflow))
BY SanitizedOK, UntiledOK, DescriptorOK DEF DefaultLatency

----------------------------------------------------------------------------
(* What the generators announce of a layer *)

\* What a generator is configured with.
GenOK(g) ==
  /\ g.pe \in ProcessingElements /\ g.l2kb \in Nat
  /\ \A i \in DOMAIN g.indexPe : g.indexPe[i] \in ProcessingElements
  /\ \A i \in DOMAIN g.typePe : g.typePe[i] \in ProcessingElements

LEMMA SanitizedIs ==
  ASSUME NEW pe \in ProcessingElements
  PROVE  SanitizePe(pe) \in ProcessingElements
<1>1. /\ Most(1, pe.k) \in Nat /\ Most(1, pe.g) \in Nat /\ Most(1, pe.s) \in Nat
      /\ DOMAIN pe = {"type", "k", "g", "s", "psumKb"}
  BY DEF ProcessingElements, Most
<1>2. SanitizePe(pe) = [pe EXCEPT !.k = Most(1, pe.k), !.g = Most(1, pe.g), !.s = Most(1, pe.s)]
  BY DEF SanitizePe
<1> QED
  BY <1>1, <1>2 DEF ProcessingElements

LEMMA AdaptedIs ==
  ASSUME NEW base \in ProcessingElements, ElementOK(base), NEW spec, OpsPerOutput(spec) \in Int
  PROVE  AdaptedPe(base, spec) \in ProcessingElements
<1> DEFINE pe == AdaptedPe(base, spec)
<1>1. DOMAIN base = {"type", "k", "g", "s", "psumKb"}
  BY DEF ProcessingElements
<1>2. ElementOK(pe)
  BY <1>1, AdaptedOK
<1>3. PICK k, g, s : pe = [base EXCEPT !.k = k, !.g = g, !.s = s]
  BY DEF AdaptedPe
<1> HIDE DEF pe
<1>4. pe.k = k /\ pe.g = g /\ pe.s = s
  BY <1>1, <1>3
<1>5. k \in Nat /\ g \in Nat /\ s \in Nat
  BY <1>2, <1>4 DEF ElementOK
<1> QED
  BY <1>3, <1>5 DEF pe, ProcessingElements

LEMMA ResolvedIs ==
  ASSUME NEW g, GenOK(g), NEW spec, OpsPerOutput(spec) \in Int, NEW index
  PROVE  ResolvePe(g, spec, index) \in ProcessingElements
<1> DEFINE base == SanitizePe(g.pe)
<1>1. base \in ProcessingElements /\ ElementOK(base)
  BY SanitizedIs, SanitizedOK DEF GenOK
<1>2. AdaptedPe(base, spec) \in ProcessingElements
  <2> HIDE DEF base
  <2> QED
    BY <1>1, AdaptedIs
<1>3. index \in DOMAIN g.indexPe => SanitizePe(g.indexPe[index]) \in ProcessingElements
  BY SanitizedIs DEF GenOK
<1>4. spec.type \in DOMAIN g.typePe => SanitizePe(g.typePe[spec.type]) \in ProcessingElements
  BY SanitizedIs DEF GenOK
<1>5. \/ index \in DOMAIN g.indexPe /\ ResolvePe(g, spec, index) = SanitizePe(g.indexPe[index])
      \/ spec.type \in DOMAIN g.typePe /\ ResolvePe(g, spec, index) = SanitizePe(g.typePe[spec.type])
      \/ ResolvePe(g, spec, index) = AdaptedPe(base, spec)
      \/ ResolvePe(g, spec, index) = base
  BY Zenon DEF ResolvePe
<1> QED
  BY <1>1, <1>2, <1>3, <1>4, <1>5

LEMMA GeneratorLatencyOK ==
  ASSUME NEW g, GenOK(g), NEW spec, LayerFits(spec), NEW index
  PROVE  LatencyOK(GeneratorLatency(g, spec, index))
<1>1. spec \in LayerSpecs /\ KernelFits(spec) /\ OpsPerOutput(spec) \in Int
  BY OpsAre DEF LayerFits
<1>2. DefaultPe \in ProcessingElements
  BY DEF DefaultPe, ProcessingElements
<1>3. ResolvePe(g, spec, index) \in ProcessingElements /\ g.l2kb \in Nat /\ 0 \in Nat
  BY <1>1, ResolvedIs DEF GenOK
<1>4. LatencyOK(DefaultLatency(spec, DefaultPe, "WS"))
  BY <1>1, <1>2, DefaultLatencyOK
<1>5. LatencyOK(TiledLatency(spec, 0, 0, g.l2kb, g.dataflow, ResolvePe(g, spec, index), g.dataflow))
  BY <1>3, LatenciesOK
<1> QED
  BY <1>4, <1>5, Zenon DEF GeneratorLatency

\* A layer with an explicit tile.
LEMMA GeometryOK ==
  ASSUME NEW s \in LayerSpecs, KernelFits(s)
  PROVE  ShapeOK(GeometryShape(s)) /\ ReductionExtent(s) \in Nat /\ DerivedOps(s) \in Nat
<1>1. ShapeOK(Shape(s.ih, s.kw, 1))
  BY SpecFields DEF ShapeOK, Shape
<1>2. ShapeOK(GeometryShape(s))
  BY <1>1, ShapesAre DEF GeometryShape
<1> QED
  BY <1>2, SpecFields, OpsAre DEF ReductionExtent, DerivedOps

LEMMA CountsOK ==
  ASSUME NEW s \in LayerSpecs, KernelFits(s), NEW t,
         t.r \in Nat, t.c \in Nat, t.oc \in Nat, t.ic \in Nat, NEW n, n = TileCounts(s, t)
  PROVE  n.r \in Nat /\ n.c \in Nat /\ n.oc \in Nat /\ n.ic \in Nat
<1>1. \A all \in Nat, part \in Nat : (IF part > 0 THEN CeilDiv(all, part) ELSE 1) \in Nat
  BY PassesAre
<1>2. LET o == GeometryShape(s)
      IN  /\ o.h \in Nat /\ o.w \in Nat /\ o.c \in Nat
          /\ n.r = (IF t.r > 0 THEN CeilDiv(o.h, t.r) ELSE 1)
          /\ n.c = (IF t.c > 0 THEN CeilDiv(o.w, t.c) ELSE 1)
          /\ n.oc = (IF t.oc > 0 THEN CeilDiv(o.c, t.oc) ELSE 1)
          /\ n.ic = (IF t.ic > 0 THEN CeilDiv(ReductionExtent(s), t.ic) ELSE 1)
  BY GeometryOK DEF TileCounts, ShapeOK
<1> QED
  BY <1>1, <1>2, GeometryOK

LEMMA AxesOK ==
  ASSUME NEW s \in LayerSpecs, KernelFits(s), NEW tile \in TileRequests, NEW t, t = TileAxes(s, tile)
  PROVE  t.r \in Nat /\ t.c \in Nat /\ t.oc \in Nat /\ t.ic \in Nat
<1>1. tile.r \in Nat /\ tile.c \in Nat /\ tile.oc \in Nat /\ tile.ic \in Nat
  BY DEF TileRequests
<1>2. \A a \in Nat, b \in Nat : OrWhole(a, b) \in Nat
  BY DEF OrWhole
<1>3. LET o == GeometryShape(s)
      IN  /\ t.r = OrWhole(tile.r, o.h) /\ t.c = OrWhole(tile.c, o.w) /\ t.oc = OrWhole(tile.oc, o.c)
          /\ t.ic = IF s.type \in Reducing THEN OrWhole(tile.ic, ReductionExtent(s)) ELSE 0
  BY DEF TileAxes
<1>4. LET o == GeometryShape(s)
      IN  o.h \in Nat /\ o.w \in Nat /\ o.c \in Nat /\ ReductionExtent(s) \in Nat
  BY GeometryOK DEF ShapeOK
<1>5. t.r \in Nat /\ t.c \in Nat /\ t.oc \in Nat
  BY <1>1, <1>2, <1>3, <1>4
<1>6. t.ic \in Nat
  <2>1. CASE s.type \in Reducing
    <3>1. t.ic = OrWhole(tile.ic, ReductionExtent(s))
      BY <1>3, <2>1
    <3> QED
      BY <1>1, <1>2, <1>4, <3>1
  <2>2. CASE s.type \notin Reducing
    <3>1. t.ic = 0
      BY <1>3, <2>2
    <3> QED
      BY <3>1
  <2> QED
    BY <2>1, <2>2
<1> QED
  BY <1>5, <1>6

LEMMA AggregatesOK ==
  ASSUME NEW s \in LayerSpecs, KernelFits(s), NEW t,
         t.r \in Nat, t.c \in Nat, t.oc \in Nat, t.ic \in Nat, NEW v, v = AggregateVolumes(s, t)
  PROVE  v.in \in Int /\ v.wt \in Nat
<1> DEFINE o == GeometryShape(s)
           n == TileCounts(s, t)
           ic == ReductionExtent(s)
           window == s.kh * s.kw
           area == (o.h * s.stride + n.r * (s.kh - 1) * s.dil)
                   * (o.w * s.stride + n.c * (s.kw - 1) * s.dil)
<1>0. /\ o.h \in Nat /\ o.w \in Nat /\ o.c \in Nat /\ ic \in Nat
      /\ n.r \in Nat /\ n.c \in Nat /\ n.oc \in Nat /\ n.ic \in Nat /\ Volume(o) \in Nat
  BY GeometryOK, CountsOK, ShapeVolume DEF ShapeOK
<1>1. /\ s.kh \in Nat /\ s.kw \in Nat /\ s.stride \in Nat /\ s.dil \in Nat
  BY SpecFields
<1>2. window \in Nat
  BY <1>1, Products
<1> DEFINE Case(x, in, wt) == s.type = x => v.in = in /\ v.wt = wt
<1>3. /\ Case("Conv2D", area * ic * n.oc, window * ic * o.c * n.r * n.c)
      /\ Case("DepthwiseConv2D", area * ic * n.oc, window * o.c * n.r * n.c * n.ic)
      /\ Case("FullyConnected", ic * n.r * n.c * n.oc, ic * o.c * n.r * n.c)
      /\ Case("MatMul", o.h * ic * n.c * n.oc, ic * o.w * n.r * n.oc)
      /\ Case("Pooling", area * o.c * n.ic, 0)
      /\ Case("Activation", Volume(o) * n.ic, 0)
      /\ Case("ElementWise", Volume(o) * n.ic, Volume(o) * n.ic)
      /\ s.type \notin {"Conv2D", "DepthwiseConv2D", "FullyConnected", "MatMul", "Pooling",
                        "Activation", "ElementWise"} => v.in = 0 /\ v.wt = 0
  BY DEF AggregateVolumes
<1>4. area \in Int
  <2> DEFINE p == o.h * s.stride
             q == n.r * (s.kh - 1) * s.dil
             x == o.w * s.stride
             y == n.c * (s.kw - 1) * s.dil
  <2>1. p \in Int /\ x \in Int
    BY <1>0, <1>1
  <2>2. q \in Int /\ y \in Int
    <3>1. n.r * (s.kh - 1) \in Int /\ n.c * (s.kw - 1) \in Int
      BY <1>0, <1>1
    <3> QED
      BY <1>1, <3>1
  <2>3. area = (p + q) * (x + y)
    OBVIOUS
  <2> HIDE DEF p, q, x, y, area
  <2> QED
    BY <2>1, <2>2, <2>3
<1> HIDE DEF o, n, ic, window, area
<1>5. \A a, b, c \in Nat : a * b * c \in Nat
  BY Products
<1>6. \A a, b, c, d \in Nat : a * b * c * d \in Nat
  BY <1>5, Products
<1>7. \A a, b, c, d, e \in Nat : a * b * c * d * e \in Nat
  BY <1>6, Products
<1>8. \A a \in Int, b, c \in Nat : a * b * c \in Int
  <2>1. \A a \in Int, b \in Nat : a * b \in Int
    OBVIOUS
  <2> QED
    BY <2>1
<1>9. /\ area * ic * n.oc \in Int /\ area * o.c * n.ic \in Int
      /\ window * ic * o.c * n.r * n.c \in Nat /\ window * o.c * n.r * n.c * n.ic \in Nat
      /\ ic * n.r * n.c * n.oc \in Nat /\ ic * o.c * n.r * n.c \in Nat
      /\ o.h * ic * n.c * n.oc \in Nat /\ ic * o.w * n.r * n.oc \in Nat
      /\ Volume(o) * n.ic \in Nat
  BY <1>0, <1>2, <1>4, <1>6, <1>7, <1>8, Products
<1> QED
  BY <1>3, <1>9

LEMMA DerivedLatencyOK ==
  ASSUME NEW s \in LayerSpecs, KernelFits(s), NEW tile \in TileRequests, NEW m, MappingValid(m)
  PROVE  LatencyOK(DerivedLatency(s, m, tile))
<1> DEFINE t      == TileAxes(s, tile)
           passes == CeilDiv(DerivedOps(s), m.k)
           out    == Volume(GeometryShape(s))
           all    == AggregateVolumes(s, t)
           reload == (m.delta * Most(0, passes - m.g) * out) \div 4
           lat    == DerivedLatency(s, m, tile)
<1>1. /\ m.k \in Nat \ {0} /\ m.g \in Nat \ {0} /\ m.s \in Nat \ {0} /\ m.delta \in Nat
      /\ m.betaI \in Nat /\ m.betaW \in Nat
  BY DEF MappingValid
<1>2. passes \in Nat /\ out \in Nat
  BY <1>1, GeometryOK, PassesAre, ShapeVolume
<1>3. all.in \in Int /\ all.wt \in Nat
  BY AxesOK, AggregatesOK
<1>4. /\ DOMAIN lat = {"fI", "fW", "fO", "preIn", "preWt", "nMin", "nMax", "issue", "post", "ops"}
      /\ lat.fI = all.in + (m.betaI * reload) \div 4 /\ lat.fW = all.wt + (m.betaW * reload) \div 4
      /\ lat.fO = passes * out /\ lat.nMin = m.g /\ lat.nMax = m.g * m.s
  BY DEF DerivedLatency
<1> HIDE DEF passes, out, all, lat
<1>5. \A a \in Nat : a \div 4 \in Nat
  OBVIOUS
<1>6. reload \in Nat
  <2> DEFINE lost == Most(0, passes - m.g)
  <2>1. lost \in Nat
    BY <1>1, <1>2 DEF Most
  <2> HIDE DEF lost
  <2>2. m.delta * lost \in Nat
    BY <1>1, <2>1, Products
  <2>3. m.delta * lost * out \in Nat
    BY <1>2, <2>2, Products
  <2> QED
    BY <1>5, <2>3 DEF lost
<1> HIDE DEF reload
<1>7. m.betaI * reload \in Nat /\ m.betaW * reload \in Nat
  BY <1>1, <1>6, Products
<1>8. (m.betaI * reload) \div 4 \in Nat /\ (m.betaW * reload) \div 4 \in Nat
  BY <1>5, <1>7
<1>9. passes * out \in Nat /\ m.g * m.s \in Nat
  BY <1>1, <1>2, Products
<1> QED
  BY <1>1, <1>3, <1>4, <1>8, <1>9 DEF LatencyOK, lat

----------------------------------------------------------------------------
(* Selections and sorted programs *)

\* The places of a selection in order: at[n] is the n-th.
Picks(at, places, z) ==
  /\ DOMAIN at = 1 .. z /\ \A n \in 1 .. z : at[n] \in places
  /\ \A m, n \in 1 .. z : m < n => at[m] < at[n]
  /\ \A p \in places : \E n \in 1 .. z : at[n] = p

LEMMA SelectedIs ==
  ASSUME NEW T, NEW seq \in Seq(T), NEW places, places \subseteq DOMAIN seq,
         NEW z, z = Cardinality(places)
  PROVE  /\ z \in Nat /\ Selected(seq, places) \in Seq(T) /\ Len(Selected(seq, places)) = z
         /\ \E at : Picks(at, places, z) /\ \A n \in 1 .. z : Selected(seq, places)[n] = seq[at[n]]
<1> DEFINE before == [i \in places |-> {j \in places : j < i}]
           at == Arranged(before)
<1>1. places \subseteq 1 .. Len(seq) /\ Len(seq) \in Nat /\ DOMAIN seq = 1 .. Len(seq)
  OBVIOUS
<1>2. IsFiniteSet(places)
  <2>1. 1 \in Int /\ Len(seq) \in Int
    BY <1>1
  <2>2. IsFiniteSet(1 .. Len(seq))
    BY <2>1, FS_Interval
  <2> QED
    BY <1>1, <2>2, FS_Subset
<1>3. \A x \in places : x \in Int
  BY <1>1
<1>4. Orders(before, places)
  BY <1>3 DEF Orders
<1>5. places = DOMAIN before
  OBVIOUS
<1>6. \A n \in 1 .. Cardinality(places) : Selected(seq, places)[n] = seq[at[n]]
  <2>1. DOMAIN at = 1 .. Cardinality(places)
    BY <1>5 DEF Arranged
  <2> HIDE DEF at
  <2> QED
    BY <2>1 DEF Selected, at
<1>7. DOMAIN Selected(seq, places) = DOMAIN at
  BY DEF Selected
<1>a. \A i, x \in places : x \in before[i] => x < i
  OBVIOUS
<1> HIDE DEF before
<1>8. /\ z \in Nat /\ DOMAIN at = 1 .. z
      /\ \A n \in 1 .. z : at[n] \in places
      /\ \A x \in places : /\ Cardinality(before[x]) + 1 \in 1 .. z
                           /\ at[Cardinality(before[x]) + 1] = x
      /\ \A m, n \in 1 .. z : m < n => at[m] \in before[at[n]]
  BY <1>2, <1>4, <1>5, ArrangedInOrder
<1> HIDE DEF at
<1>9. Picks(at, places, z)
  <2>1. \A m, n \in 1 .. z : m < n => at[m] < at[n]
    BY <1>8, <1>a
  <2> QED
    BY <1>8, <2>1 DEF Picks
<1>10. Selected(seq, places) = [n \in 1 .. z |-> seq[at[n]]]
  BY <1>8 DEF Selected, at, before
<1>11. \A n \in 1 .. z : seq[at[n]] \in T
  BY <1>1, <1>8
<1> DEFINE s == Selected(seq, places)
<1> HIDE DEF s
<1>12. s \in Seq(T) /\ Len(s) = z
  BY <1>8, <1>10, <1>11 DEF s
<1> QED
  BY <1>6, <1>8, <1>9, <1>12 DEF s

\* build_dnn_image_packets sorts: a comes before b.
SortsBefore(fs, i, j) ==
  \/ fs[i].layer < fs[j].layer
  \/ fs[i].layer = fs[j].layer /\ fs[i].fid < fs[j].fid
  \/ fs[i].layer = fs[j].layer /\ fs[i].fid = fs[j].fid /\ i < j

\* order lists the places of fs as they are sorted.
Sorts(order, fs, z) ==
  /\ DOMAIN order = 1 .. z /\ \A n \in 1 .. z : order[n] \in 1 .. z
  /\ \A m, n \in 1 .. z : m < n => SortsBefore(fs, order[m], order[n])
  /\ \A p \in 1 .. z : \E n \in 1 .. z : order[n] = p

LEMMA SortedIs ==
  ASSUME NEW T, NEW fs \in Seq(T), \A f \in T : f.layer \in Int /\ f.fid \in Int,
         NEW z, z = Len(fs)
  PROVE  /\ Sorted(fs) \in Seq(T) /\ Len(Sorted(fs)) = z
         /\ \E order : Sorts(order, fs, z) /\ \A n \in 1 .. z : Sorted(fs)[n] = fs[order[n]]
<1> DEFINE S == DOMAIN fs
           before == [i \in S |-> {j \in S : SortsBefore(fs, j, i)}]
           order == Arranged(before)
<1>1. S = 1 .. z /\ z \in Nat /\ \A i \in S : fs[i] \in T
  OBVIOUS
<1>2. IsFiniteSet(S) /\ Cardinality(S) = z
  <2>1. 1 \in Int /\ z \in Int
    BY <1>1
  <2>2. IsFiniteSet(1 .. z) /\ Cardinality(1 .. z) = IF 1 > z THEN 0 ELSE (z - 1) + 1
    BY <2>1, FS_Interval
  <2>3. Cardinality(1 .. z) = z
    BY <1>1, <2>2
  <2> QED
    BY <1>1, <2>2, <2>3
<1>3. \A i \in S : i \in Int /\ fs[i].layer \in Int /\ fs[i].fid \in Int
  BY <1>1
<1> HIDE DEF S
<1>4. Orders(before, S)
  <2>1. \A i \in S : ~SortsBefore(fs, i, i)
    BY <1>3 DEF SortsBefore
  <2>2. \A i, j \in S : i = j \/ SortsBefore(fs, i, j) \/ SortsBefore(fs, j, i)
    BY <1>3 DEF SortsBefore
  <2>3. \A i, j, k \in S : SortsBefore(fs, i, j) /\ SortsBefore(fs, j, k) => SortsBefore(fs, i, k)
    BY <1>3 DEF SortsBefore
  <2> QED
    BY <2>1, <2>2, <2>3 DEF Orders
<1>5. S = DOMAIN before
  OBVIOUS
<1>6. Sorted(fs) = [i \in DOMAIN order |-> fs[order[i]]]
  BY DEF Sorted, SortsBefore, S
<1>7. \A i, x \in S : x \in before[i] => SortsBefore(fs, x, i)
  OBVIOUS
<1> HIDE DEF before
<1>8. /\ DOMAIN order = 1 .. z
      /\ \A n \in 1 .. z : order[n] \in S
      /\ \A x \in S : /\ Cardinality(before[x]) + 1 \in 1 .. z
                      /\ order[Cardinality(before[x]) + 1] = x
      /\ \A m, n \in 1 .. z : m < n => order[m] \in before[order[n]]
  BY <1>2, <1>4, <1>5, ArrangedInOrder
<1> HIDE DEF order
<1>9. Sorts(order, fs, z)
  <2>1. \A m, n \in 1 .. z : m < n => SortsBefore(fs, order[m], order[n])
    BY <1>7, <1>8
  <2> QED
    BY <1>1, <1>8, <2>1 DEF Sorts
<1> DEFINE s == Sorted(fs)
<1>10. s = [i \in 1 .. z |-> fs[order[i]]] /\ \A n \in 1 .. z : fs[order[n]] \in T
  BY <1>1, <1>6, <1>8
<1> HIDE DEF s
<1>11. s \in Seq(T) /\ Len(s) = z /\ \A n \in 1 .. z : s[n] = fs[order[n]]
  BY <1>1, <1>10
<1> QED
  BY <1>9, <1>11 DEF s

----------------------------------------------------------------------------
(* Programs built into images and parsed again *)

\* A function of a program as the compilers make it.
FunctionOK(f) ==
  /\ {f.layer, f.fid, f.stride, f.tile.r, f.tile.c, f.skip} \subseteq Nat
  /\ TensorOK(f.input) /\ TensorOK(f.weight) /\ TensorOK(f.output)
  /\ f.input.words = Volume(f.input.shape) /\ f.output.words = Volume(f.output.shape)
  /\ LatencyOK(f.lat)
ProgramOK(fs) == fs \in Seq(Range(fs)) /\ \A f \in Range(fs) : FunctionOK(f)

\* An image whose packets carry such functions.
ImageOK(img) ==
  /\ img.numLayers \in Nat /\ img.total \in Int
  /\ \A n \in 1 .. img.numLayers : ProgramOK(img.packets[n].functions)

\* Membership in a sequence's own range.
LEMMA OwnRange ==
  ASSUME NEW T, NEW s \in Seq(T)
  PROVE  s \in Seq(Range(s)) /\ Range(s) \subseteq T
<1>1. DOMAIN s = 1 .. Len(s) /\ \A i \in DOMAIN s : s[i] \in T /\ s[i] \in Range(s)
  BY DEF Range
<1>2. Range(s) \subseteq T
  BY <1>1 DEF Range
<1>3. s \in Seq(Range(s))
  <2> DEFINE R == Range(s)
  <2>1. \A i \in DOMAIN s : s[i] \in R
    BY <1>1
  <2> HIDE DEF R
  <2> QED
    BY <1>1, <2>1 DEF R
<1> QED
  BY <1>2, <1>3

\* The size an image is given.
LEMMA TotalBytes ==
  ASSUME NEW fs, fs # <<>>, NEW blobs, \A x \in DOMAIN blobs : blobs[x] \in Nat, NEW fmap \in Nat,
         NEW img, img = BuildImage(fs, blobs, fmap),
         NEW sorted, sorted = Sorted(fs), NEW ids, ids = PacketLayers(sorted),
         Len(ids) \in Nat, IsFiniteSet(DOMAIN sorted)
  PROVE  img.total \in Int
<1> DEFINE z == Len(ids)
           places(i) == {f \in DOMAIN sorted : i > z \/ sorted[f].layer < ids[i]}
           weights == HeaderBytes + fmap + PacketHeaderBytes * (z + 1 - 1)
                      + DescriptorBytes * Cardinality(places(z + 1))
           blob == [m \in 1 .. z + 1 - 1 |-> BlobBytes(blobs, ids[m])]
<1>1. img.total = weights + SumFunction(blob)
  BY DEF BuildImage
<1>2. Cardinality(places(z + 1)) \in Nat
  <2>1. places(z + 1) \subseteq DOMAIN sorted
    OBVIOUS
  <2> HIDE DEF places
  <2> QED
    BY <2>1, FS_Subset, FS_CardinalityType
<1> HIDE DEF places
<1>3. weights \in Int
  BY <1>2 DEF HeaderBytes, PacketHeaderBytes, DescriptorBytes
<1>4. SumFunction(blob) \in Nat
  <2>1. DOMAIN blob = 1 .. z
    OBVIOUS
  <2>2. \A m \in 1 .. z : blob[m] \in Nat
    BY DEF BlobBytes
  <2>3. IsFiniteSet(1 .. z)
    BY FS_Interval
  <2> HIDE DEF blob, z
  <2> QED
    BY <2>1, <2>2, <2>3, SumNat DEF SumFunction
<1> QED
  BY <1>1, <1>3, <1>4

LEMMA BuiltIs ==
  ASSUME NEW fs, ProgramOK(fs), NEW blobs, \A x \in DOMAIN blobs : blobs[x] \in Nat,
         NEW fmap \in Nat, NEW img, img = BuildImage(fs, blobs, fmap)
  PROVE  /\ ImageOK(img)
         /\ fs # <<>> => img # NoImage
<1> DEFINE sorted == Sorted(fs)
           ids == PacketLayers(sorted)
           T == Range(fs)
           firsts == Selected(sorted, {i \in DOMAIN sorted :
                                         i = 1 \/ sorted[i - 1].layer # sorted[i].layer})
<1>1. fs \in Seq(T) /\ \A f \in T : FunctionOK(f)
  BY DEF ProgramOK
<1>2. sorted \in Seq(T)
  <2>1. \A f \in T : f.layer \in Int /\ f.fid \in Int
    BY <1>1 DEF FunctionOK
  <2> HIDE DEF T, sorted
  <2> QED
    BY <1>1, <2>1, SortedIs DEF sorted
<1>3. firsts \in Seq(T)
  <2> HIDE DEF T, sorted
  <2>1. {i \in DOMAIN sorted : i = 1 \/ sorted[i - 1].layer # sorted[i].layer} \subseteq DOMAIN sorted
    OBVIOUS
  <2> QED
    BY <1>2, <2>1, SelectedIs
<1>4. Len(ids) \in Nat /\ DOMAIN ids = 1 .. Len(ids)
  <2>1. ids = [n \in DOMAIN firsts |-> firsts[n].layer]
    BY DEF PacketLayers
  <2>2. DOMAIN firsts = 1 .. Len(firsts) /\ Len(firsts) \in Nat
    BY <1>3
  <2> HIDE DEF firsts, ids
  <2>3. ids = [n \in 1 .. Len(firsts) |-> firsts[n].layer]
    BY <2>1, <2>2
  <2>4. DOMAIN ids = 1 .. Len(firsts) /\ Len(ids) = Len(firsts)
    BY <2>2, <2>3
  <2> QED
    BY <2>2, <2>4
<1> HIDE DEF firsts
<1>5. ASSUME NEW layer PROVE ProgramOK(FunctionsOf(sorted, layer))
  <2> DEFINE places == {i \in DOMAIN sorted : sorted[i].layer = layer}
  <2> HIDE DEF T, sorted
  <2>1. places \subseteq DOMAIN sorted
    OBVIOUS
  <2> DEFINE sel == Selected(sorted, places)
  <2>2. sel = FunctionsOf(sorted, layer)
    BY DEF FunctionsOf
  <2> HIDE DEF places
  <2>3. sel \in Seq(T)
    BY <1>2, <2>1, SelectedIs
  <2> HIDE DEF sel
  <2>4. sel \in Seq(Range(sel)) /\ Range(sel) \subseteq T
    BY <2>3, OwnRange
  <2> QED
    BY <1>1, <2>2, <2>4 DEF ProgramOK
<1>8. IsFiniteSet(DOMAIN sorted)
  <2>1. DOMAIN sorted = 1 .. Len(sorted) /\ Len(sorted) \in Nat
    BY <1>2
  <2> HIDE DEF sorted
  <2> QED
    BY <2>1, FS_Interval
<1>6. CASE fs = <<>>
  BY <1>6 DEF BuildImage, NoImage, ImageOK
<1>7. CASE fs # <<>>
  <2>1. /\ img.numLayers = Len(ids)
        /\ \A n \in DOMAIN ids : img.packets[n].functions = FunctionsOf(sorted, ids[n])
        /\ "packets" \in DOMAIN img
    BY <1>7 DEF BuildImage
  <2>2. "packets" \notin DOMAIN NoImage
    BY DEF NoImage
  <2> HIDE DEF ids, sorted
  <2>4. img.total \in Int
    <3>1. sorted = Sorted(fs) /\ ids = PacketLayers(sorted)
      BY DEF sorted, ids
    <3> QED
      BY <1>4, <1>7, <1>8, <3>1, TotalBytes
  <2>3. ImageOK(img)
    BY <1>4, <1>5, <2>1, <2>4 DEF ImageOK
  <2> QED
    BY <2>1, <2>2, <2>3
<1> QED
  BY <1>6, <1>7

\* What is read back of such an image are layers the NPU can run.
LEMMA LoadedOK ==
  ASSUME NEW p, ProgramOK(p.functions), NEW packet, NEW f \in Range(p.functions)
  PROVE  LayerOK(LoadedLayer(p, packet, f))
<1> DEFINE l == LoadedLayer(p, packet, f)
           keep == 1000 - Skipped(f)
           lat == LoadedLatency(f)
<1>1. FunctionOK(f)
  BY DEF ProgramOK
<1>2. /\ l.input = f.input /\ l.weight = f.weight /\ l.output = f.output
      /\ l.stride = f.stride /\ l.tile = f.tile /\ l.lat = lat /\ l.skip = Skipped(f)
  BY DEF LoadedLayer
<1>10. Skipped(f) \in 0 .. 1000
  BY <1>1 DEF FunctionOK, Skipped, Least
<1> HIDE DEF l
<1>3. keep \in Int
  BY <1>1 DEF FunctionOK, Skipped, Least
<1> HIDE DEF keep
<1>4. /\ f.lat.fW \in Nat /\ f.lat.fO \in Nat /\ f.lat.nMin \in Nat /\ f.lat.nMax \in Nat
      /\ DOMAIN f.lat = {"fI", "fW", "fO", "preIn", "preWt", "nMin", "nMax", "issue", "post", "ops"}
  BY <1>1 DEF FunctionOK, LatencyOK
<1>5. Most(1, (f.lat.fO * keep) \div 1000) \in Nat
  <2>1. (f.lat.fO * keep) \div 1000 \in Int
    <3>1. f.lat.fO * keep \in Int
      BY <1>3, <1>4
    <3> QED
      BY <3>1
  <2> QED
    BY <2>1 DEF Most
<1>6. \/ lat = f.lat
      \/ lat = [f.lat EXCEPT !.fO = Most(1, (@ * keep) \div 1000), !.preIn = Most(1, (@ * keep) \div 1000),
                             !.fW = 0, !.preWt = 0]
  BY DEF LoadedLatency, keep
<1> HIDE DEF lat
<1>7. lat.fW \in Nat /\ lat.fO \in Nat /\ lat.nMin \in Nat /\ lat.nMax \in Nat
  <2>1. CASE lat = f.lat
    BY <1>4, <2>1
  <2>2. CASE lat = [f.lat EXCEPT !.fO = Most(1, (@ * keep) \div 1000), !.preIn = Most(1, (@ * keep) \div 1000),
                                 !.fW = 0, !.preWt = 0]
    <3>1. /\ lat.fW = 0 /\ lat.fO = Most(1, (f.lat.fO * keep) \div 1000)
          /\ lat.nMin = f.lat.nMin /\ lat.nMax = f.lat.nMax
      BY <1>4, <2>2
    <3> QED
      BY <1>4, <1>5, <3>1
  <2> QED
    BY <1>6, <2>1, <2>2
<1>8. /\ f.stride \in Nat /\ f.tile.r \in Nat /\ f.tile.c \in Nat
      /\ TensorOK(f.input) /\ TensorOK(f.weight) /\ TensorOK(f.output)
      /\ f.input.words = Volume(f.input.shape) /\ f.output.words = Volume(f.output.shape)
  BY <1>1 DEF FunctionOK
<1>9. LayerOK(l)
  BY <1>2, <1>7, <1>8, <1>10 DEF LayerOK
<1> QED
  BY <1>9 DEF l

LEMMA MinIn ==
  ASSUME NEW z \in Nat, NEW T, T \subseteq 1 .. z, T # {}
  PROVE  Min(T) \in T /\ \A x \in T : Min(T) <= x
<1>1. T \subseteq Nat
  OBVIOUS
<1>2. \E x \in T : \A y \in T : x <= y
  BY <1>1, LeastNatural
<1> QED
  BY <1>2 DEF Min

LEMMA ParsedIs ==
  ASSUME NEW img, ImageOK(img), NEW length, NEW layers, layers = ParseImage(img, length).layers
  PROVE  layers \in Seq(Range(layers)) /\ \A l \in Range(layers) : LayerOK(l)
<1> DEFINE refused == {n \in 1 .. img.numLayers : PacketRefused(img, n)}
           z == img.numLayers
           T == UNION {Range(PacketLoaded(img.packets[n], n - 1)) : n \in 1 .. z}
<1>1. z \in Nat
  BY DEF ImageOK
<1>2. ASSUME NEW n \in 1 .. z
      PROVE  /\ PacketLoaded(img.packets[n], n - 1) \in Seq(T)
             /\ \A l \in Range(PacketLoaded(img.packets[n], n - 1)) : LayerOK(l)
  <2> DEFINE p == img.packets[n]
             s == PacketLoaded(p, n - 1)
  <2>1. ProgramOK(p.functions)
    BY DEF ImageOK
  <2>2. DOMAIN p.functions = 1 .. Len(p.functions) /\ Len(p.functions) \in Nat
    BY <2>1 DEF ProgramOK
  <2>3. s = [i \in 1 .. Len(p.functions) |-> LoadedLayer(p, n - 1, p.functions[i])]
    BY <2>2 DEF PacketLoaded
  <2>4. \A i \in 1 .. Len(p.functions) : p.functions[i] \in Range(p.functions)
    BY <2>2 DEF Range
  <2>5. Range(s) \subseteq T
    OBVIOUS
  <2> HIDE DEF p, s, T
  <2>6. \A i \in 1 .. Len(p.functions) : s[i] \in Range(s) /\ LayerOK(s[i])
    BY <2>1, <2>3, <2>4, LoadedOK DEF Range
  <2>7. s \in Seq(T)
    <3>1. \A i \in 1 .. Len(p.functions) : LoadedLayer(p, n - 1, p.functions[i]) \in T
      BY <2>3, <2>5, <2>6
    <3> QED
      BY <2>2, <2>3, <3>1
  <2>8. \A l \in Range(s) : LayerOK(l)
    BY <2>3, <2>6 DEF Range
  <2> QED
    BY <2>7, <2>8 DEF p, s
<1>3. \A l \in T : LayerOK(l)
  BY <1>2
<1>4. PICK read \in 0 .. z :
        layers = FlattenSeq([n \in 1 .. read |-> PacketLoaded(img.packets[n], n - 1)])
  <2>1. refused # {} => Min(refused) \in 1 .. z
    <3>1. refused \subseteq 1 .. z
      OBVIOUS
    <3> HIDE DEF refused
    <3> QED
      BY <1>1, <3>1, MinIn
  <2> DEFINE r(readable) == IF ~readable THEN 0 ELSE IF refused = {} THEN z ELSE Min(refused) - 1
  <2>2. \E b \in BOOLEAN : layers = FlattenSeq([n \in 1 .. r(b) |-> PacketLoaded(img.packets[n], n - 1)])
    <3> DEFINE b == /\ length >= HeaderBytes /\ img.total <= length
                    /\ img.fmapSize > 0 => /\ img.fmapAt = HeaderBytes
                                           /\ HeaderBytes + img.fmapSize <= img.total
    <3>1. layers = FlattenSeq([n \in 1 .. r(b) |-> PacketLoaded(img.packets[n], n - 1)])
      BY DEF ParseImage
    <3>2. r(b) = r(TRUE) \/ r(b) = r(FALSE)
      BY Zenon
    <3> HIDE DEF r, b
    <3> QED
      BY <3>1, <3>2
  <2>3. \A b \in BOOLEAN : r(b) \in 0 .. z
    <3> HIDE DEF refused
    <3> QED
      BY <1>1, <2>1
  <2> HIDE DEF r
  <2> QED
    BY <2>2, <2>3
<1>5. [n \in 1 .. read |-> PacketLoaded(img.packets[n], n - 1)] \in Seq(Seq(T))
  <2>1. \A n \in 1 .. read : PacketLoaded(img.packets[n], n - 1) \in Seq(T)
    BY <1>1, <1>2
  <2> HIDE DEF T
  <2> DEFINE ss == Seq(T)
  <2> HIDE DEF ss
  <2>2. \A n \in 1 .. read : PacketLoaded(img.packets[n], n - 1) \in ss
    BY <2>1 DEF ss
  <2>3. [n \in 1 .. read |-> PacketLoaded(img.packets[n], n - 1)] \in Seq(ss)
    BY <1>1, <2>2
  <2> QED
    BY <2>3 DEF ss
<1> HIDE DEF T
<1>6. layers \in Seq(T)
  BY <1>4, <1>5, FlattenedIn
<1> QED
  BY <1>3, <1>6, OwnRange

----------------------------------------------------------------------------
(* CSV rows and their entries in order *)

AcceptedRows == {r \in Rows : RowAccepted(r)}
FittedSpecs  == {s \in LayerSpecs : LayerFits(s)}
FunctionNames == {RowFunctionType(r) : r \in Rows}
OrAbsent == Nat \cup {Absent}

\* An entry of the CSV front end: its function id is one of ids, its addresses are
\* of places.
CsvEntries(ids, places) ==
  [layer : Nat, line : Nat, row : AcceptedRows, spec : FittedSpecs, pe : ProcessingElements,
   fid : ids, type : FunctionNames, i1 : Int, i2 : Int, in : places, wt : places, out : places]

LEMMA RowNumbers ==
  ASSUME NEW r \in Rows, NEW c \in NumberColumns
  PROVE  r[c] \in OrAbsent /\ r[c] \in Int /\ (Given(r, c) => r[c] \in Nat)
<1>1. r[c] \in Nat \cup {Absent}
  BY LayersAssumption DEF RowOK
<1> QED
  BY <1>1 DEF OrAbsent, Absent, Given

LEMMA OrElseIs ==
  ASSUME NEW r \in Rows, NEW c \in NumberColumns, NEW d \in Nat
  PROVE  OrElse(r, c, d) \in Nat
BY RowNumbers DEF OrElse

LEMMA RowPeIs ==
  ASSUME NEW r \in Rows, NEW base \in ProcessingElements
  PROVE  RowPe(r, base) \in ProcessingElements
<1>1. /\ base.k \in Nat /\ base.g \in Nat /\ base.s \in Nat /\ base.psumKb \in Nat
      /\ base.type \in {"Systolic", "AdderTree"}
  BY DEF ProcessingElements
<1>2. {"k", "g", "s", "psum_kb"} \subseteq NumberColumns
  BY DEF NumberColumns
<1>3. /\ OrElse(r, "k", base.k) \in Nat /\ OrElse(r, "g", base.g) \in Nat
      /\ OrElse(r, "s", base.s) \in Nat /\ OrElse(r, "psum_kb", base.psumKb) \in Nat
  BY <1>1, <1>2, OrElseIs
<1>4. \A n \in Nat : Most(1, n) \in Nat
  BY DEF Most
<1>5. (IF r["pe_type"] # "" THEN r["pe_type"] ELSE base.type) \in {"Systolic", "AdderTree"}
  <2>1. r["pe_type"] \in {"", "Systolic", "AdderTree"}
    BY LayersAssumption DEF RowOK
  <2> QED
    BY <1>1, <2>1
<1> QED
  BY <1>3, <1>4, <1>5 DEF RowPe, ProcessingElements

LEMMA EntryIs ==
  ASSUME NEW r \in Rows, RowAccepted(r), NEW line \in Nat, NEW base \in ProcessingElements
  PROVE  Entry(r, line, base) \in CsvEntries(OrAbsent, OrAbsent)
<1> DEFINE e == Entry(r, line, base)
<1>1. {"layer_id", "function_id", "i1_connect", "i2_connect", "input_addr", "kernel_addr",
       "output_addr"} \subseteq NumberColumns
  BY DEF NumberColumns
<1>2. /\ r["function_id"] \in OrAbsent /\ r["input_addr"] \in OrAbsent
      /\ r["kernel_addr"] \in OrAbsent /\ r["output_addr"] \in OrAbsent
      /\ r["i1_connect"] \in Int /\ r["i2_connect"] \in Int
  BY <1>1, RowNumbers
<1>3. r["layer_id"] \in Nat
  <2>1. Given(r, "layer_id")
    BY DEF RowAccepted
  <2> QED
    BY <1>1, <2>1, RowNumbers
<1>4. RowSpec(r) \in FittedSpecs
  BY LayersAssumption DEF RowOK, FittedSpecs, LayerFits
<1>5. RowPe(r, base) \in ProcessingElements
  BY RowPeIs
<1>6. r \in AcceptedRows /\ RowFunctionType(r) \in FunctionNames
  BY DEF AcceptedRows, FunctionNames
<1>7. e = [layer |-> r["layer_id"], line |-> line, row |-> r, spec |-> RowSpec(r),
           pe |-> RowPe(r, base), fid |-> r["function_id"], type |-> RowFunctionType(r),
           i1 |-> r["i1_connect"], i2 |-> r["i2_connect"],
           in |-> r["input_addr"], wt |-> r["kernel_addr"], out |-> r["output_addr"]]
  BY DEF Entry
<1> HIDE DEF e
<1>8. e \in CsvEntries(OrAbsent, OrAbsent)
  BY <1>2, <1>3, <1>4, <1>5, <1>6, <1>7 DEF CsvEntries
<1> QED
  BY <1>8 DEF e

\* Entries keep the order of the lines they are from.
InLineOrder(entries) ==
  \A m, n \in DOMAIN entries : m < n => entries[m].line < entries[n].line

LEMMA EntriesAre ==
  ASSUME NEW rs \in Seq(Rows), NEW base \in ProcessingElements, NEW es, es = Entries(rs, base)
  PROVE  es \in Seq(CsvEntries(OrAbsent, OrAbsent)) /\ InLineOrder(es)
<1> DEFINE seq == [i \in DOMAIN rs |-> Entry(rs[i], i, base)]
           places == {i \in DOMAIN rs : RowAccepted(rs[i])}
           T == {Entry(rs[i], i, base) : i \in DOMAIN rs}
           z == Cardinality(places)
           E == CsvEntries(OrAbsent, OrAbsent)
<1>1. DOMAIN rs = 1 .. Len(rs) /\ Len(rs) \in Nat /\ \A i \in DOMAIN rs : rs[i] \in Rows
  OBVIOUS
<1>2. seq \in Seq(T) /\ DOMAIN seq = DOMAIN rs
  <2>1. seq = [i \in 1 .. Len(rs) |-> Entry(rs[i], i, base)] /\ \A i \in 1 .. Len(rs) : Entry(rs[i], i, base) \in T
    BY <1>1
  <2> HIDE DEF T, seq
  <2> QED
    BY <1>1, <2>1
<1>3. \A i \in places : seq[i] \in E /\ seq[i].line = i
  <2>1. ASSUME NEW i \in places PROVE seq[i] \in E /\ seq[i].line = i
    <3>1. i \in DOMAIN rs /\ i \in Nat /\ rs[i] \in Rows /\ RowAccepted(rs[i])
      BY <1>1
    <3>2. seq[i] = Entry(rs[i], i, base) /\ seq[i].line = i
      BY <3>1 DEF Entry
    <3> QED
      BY <3>1, <3>2, EntryIs
  <2> QED
    BY <2>1
<1>4. places \subseteq DOMAIN seq
  BY <1>2
<1>5. es = Selected(seq, places)
  BY DEF Entries
<1> HIDE DEF seq, places, T, E
<1>6. es \in Seq(T) /\ Len(es) = z /\ z \in Nat
  BY <1>2, <1>4, <1>5, SelectedIs
<1>7. PICK at : Picks(at, places, z) /\ \A n \in 1 .. z : es[n] = seq[at[n]]
  BY <1>2, <1>4, <1>5, SelectedIs
<1> HIDE DEF z
<1>8. \A n \in 1 .. z : es[n] \in E /\ es[n].line = at[n]
  BY <1>3, <1>7 DEF Picks
<1>9. es \in Seq(E)
  BY <1>6, <1>8
<1>10. InLineOrder(es)
  <2>1. DOMAIN es = 1 .. z
    BY <1>6
  <2> QED
    BY <1>7, <1>8, <2>1 DEF InLineOrder, Picks
<1> QED
  BY <1>9, <1>10 DEF E

\* order lists the places of es as the linker orders them.
Links(order, es, z) ==
  /\ DOMAIN order = 1 .. z /\ \A n \in 1 .. z : order[n] \in 1 .. z
  /\ \A m, n \in 1 .. z : m < n => Precedes(es[order[m]], es[order[n]])
  /\ \A p \in 1 .. z : \E n \in 1 .. z : order[n] = p

LEMMA OrderedIs ==
  ASSUME NEW places, NEW es \in Seq(CsvEntries(OrAbsent, places)), InLineOrder(es),
         NEW z, z = Len(es)
  PROVE  /\ Ordered(es) \in Seq(CsvEntries(OrAbsent, places)) /\ Len(Ordered(es)) = z
         /\ \E order : Links(order, es, z) /\ \A n \in 1 .. z : Ordered(es)[n] = es[order[n]]
<1> DEFINE S == DOMAIN es
           T == CsvEntries(OrAbsent, places)
           before == [i \in S |-> {j \in S : Precedes(es[j], es[i])}]
           order == Arranged(before)
<1>1. S = 1 .. z /\ z \in Nat /\ \A i \in S : es[i] \in T
  OBVIOUS
<1>2. IsFiniteSet(S) /\ Cardinality(S) = z
  <2>1. 1 \in Int /\ z \in Int
    BY <1>1
  <2>2. IsFiniteSet(1 .. z) /\ Cardinality(1 .. z) = IF 1 > z THEN 0 ELSE (z - 1) + 1
    BY <2>1, FS_Interval
  <2>3. Cardinality(1 .. z) = z
    BY <1>1, <2>2
  <2> QED
    BY <1>1, <2>2, <2>3
<1>3. \A i \in S : es[i].layer \in Int /\ es[i].fid \in Int /\ es[i].line \in Int
  BY <1>1 DEF CsvEntries, OrAbsent, Absent
<1>4. \A i, j \in S : i = j \/ es[i].line < es[j].line \/ es[j].line < es[i].line
  <2>1. \A i, j \in S : i = j \/ i < j \/ j < i
    BY <1>1
  <2> QED
    BY <2>1 DEF InLineOrder
<1> HIDE DEF S
<1>5. Orders(before, S)
  <2>1. \A i \in S : ~Precedes(es[i], es[i])
    BY <1>3 DEF Precedes, Absent
  <2>2. \A i, j \in S : i = j \/ Precedes(es[i], es[j]) \/ Precedes(es[j], es[i])
    BY <1>3, <1>4 DEF Precedes, Absent
  <2>3. \A i, j, k \in S : Precedes(es[i], es[j]) /\ Precedes(es[j], es[k]) => Precedes(es[i], es[k])
    <3> SUFFICES ASSUME NEW i \in S, NEW j \in S, NEW k \in S,
                        Precedes(es[i], es[j]), Precedes(es[j], es[k])
                 PROVE  Precedes(es[i], es[k])
      OBVIOUS
    <3>1. /\ {es[i].layer, es[j].layer, es[k].layer} \subseteq Int
          /\ {es[i].fid, es[j].fid, es[k].fid} \subseteq Int
          /\ {es[i].line, es[j].line, es[k].line} \subseteq Int
      BY <1>3
    <3>2. es[i].layer <= es[j].layer /\ es[j].layer <= es[k].layer
      BY <3>1 DEF Precedes
    <3>3. CASE es[i].layer < es[k].layer
      BY <3>3 DEF Precedes
    <3>4. CASE es[i].layer = es[k].layer
      <4>1. es[i].layer = es[j].layer /\ es[j].layer = es[k].layer
        BY <3>1, <3>2, <3>4
      <4>2. es[j].fid = Absent /\ es[k].fid = Absent => es[j].line < es[k].line
        BY <3>1, <4>1 DEF Precedes
      <4>3. es[i].fid = Absent => es[j].fid = Absent /\ es[i].line < es[j].line
        BY <3>1, <4>1 DEF Precedes
      <4>4. es[j].fid = Absent => es[k].fid = Absent
        BY <3>1, <4>1 DEF Precedes
      <4>10. ~(es[i].layer < es[j].layer) /\ ~(es[j].layer < es[k].layer)
        BY <3>1, <4>1
      <4>8. es[i].fid # Absent /\ es[j].fid # Absent =>
              es[i].fid < es[j].fid \/ (es[i].fid = es[j].fid /\ es[i].line < es[j].line)
        BY <4>10, Zenon DEF Precedes
      <4>9. es[j].fid # Absent /\ es[k].fid # Absent =>
              es[j].fid < es[k].fid \/ (es[j].fid = es[k].fid /\ es[j].line < es[k].line)
        BY <4>10, Zenon DEF Precedes
      <4>5. CASE es[i].fid = Absent
        <5>1. es[k].fid = es[i].fid /\ es[i].line < es[k].line
          BY <3>1, <4>2, <4>3, <4>4, <4>5
        <5> QED
          BY <3>4, <5>1 DEF Precedes
      <4>6. CASE es[i].fid # Absent /\ es[k].fid = Absent
        BY <3>4, <4>6 DEF Precedes
      <4>7. CASE es[i].fid # Absent /\ es[k].fid # Absent
        <5>1. es[j].fid # Absent
          BY <4>4, <4>7
        <5>2. es[i].fid < es[j].fid \/ (es[i].fid = es[j].fid /\ es[i].line < es[j].line)
          BY <4>7, <4>8, <5>1
        <5>3. es[j].fid < es[k].fid \/ (es[j].fid = es[k].fid /\ es[j].line < es[k].line)
          BY <4>7, <4>9, <5>1
        <5>4. es[i].fid < es[k].fid \/ (es[i].fid = es[k].fid /\ es[i].line < es[k].line)
          BY <3>1, <5>2, <5>3
        <5> QED
          BY <3>4, <4>7, <5>4 DEF Precedes
      <4> QED
        BY <4>5, <4>6, <4>7
    <3> QED
      BY <3>1, <3>2, <3>3, <3>4
  <2> QED
    BY <2>1, <2>2, <2>3 DEF Orders
<1>6. S = DOMAIN before
  OBVIOUS
<1>7. Ordered(es) = [n \in DOMAIN order |-> es[order[n]]]
  BY DEF Ordered, S
<1>8. \A i, x \in S : x \in before[i] => Precedes(es[x], es[i])
  OBVIOUS
<1> HIDE DEF before
<1>9. /\ DOMAIN order = 1 .. z
      /\ \A n \in 1 .. z : order[n] \in S
      /\ \A x \in S : /\ Cardinality(before[x]) + 1 \in 1 .. z
                      /\ order[Cardinality(before[x]) + 1] = x
      /\ \A m, n \in 1 .. z : m < n => order[m] \in before[order[n]]
  BY <1>2, <1>5, <1>6, ArrangedInOrder
<1> HIDE DEF order
<1>10. Links(order, es, z)
  <2>1. \A m, n \in 1 .. z : m < n => Precedes(es[order[m]], es[order[n]])
    BY <1>8, <1>9
  <2> QED
    BY <1>1, <1>9, <2>1 DEF Links
<1> DEFINE s == Ordered(es)
<1>11. s = [i \in 1 .. z |-> es[order[i]]] /\ \A n \in 1 .. z : es[order[n]] \in T
  BY <1>1, <1>7, <1>9
<1> HIDE DEF s, T
<1>12. s \in Seq(T) /\ Len(s) = z /\ \A n \in 1 .. z : s[n] = es[order[n]]
  BY <1>1, <1>11
<1> QED
  BY <1>10, <1>12 DEF s, T

----------------------------------------------------------------------------
(* Operand ids, assigned along a program *)

\* u starts at b and goes on by the steps of g.
Composes(u, S, b, g, z) ==
  u \in [0 .. z -> S] /\ u[0] = b /\ \A n \in 1 .. z : u[n] = g[n][u[n - 1]]

LEMMA StepsExist ==
  ASSUME NEW S, NEW b \in S, NEW z \in Nat, NEW g \in [1 .. z -> [S -> S]]
  PROVE  \E u : Composes(u, S, b, g, z)
<1>1. \E u \in [0 .. z -> S] : u[0] = b /\ \A n \in 1 .. z : u[n] = g[n][u[n - 1]]
  BY StepsCompose
<1> QED
  BY <1>1 DEF Composes

\* Function ids: the states of the assignment over a program.
Assigning(places) ==
  [layer : Int, next : Nat, prev : Int, done : Seq(CsvEntries(Nat, places))]
Unassigned == [layer |-> Absent, next |-> 0, prev |-> NoOperand, done |-> <<>>]
AssignsAlong(after, es, places, z) ==
  /\ after \in [0 .. z -> Assigning(places)] /\ after[0] = Unassigned
  /\ \A n \in 1 .. z : after[n] = AssignId(after[n - 1], es[n])

LEMMA AssignIdIs ==
  ASSUME NEW places, NEW acc \in Assigning(places), NEW e \in CsvEntries(OrAbsent, places)
  PROVE  AssignId(acc, e) \in Assigning(places)
<1> DEFINE first == e.layer # acc.layer
           following == IF first THEN 0 ELSE acc.next
           prev  == IF first THEN NoOperand ELSE acc.prev
           fid   == IF e.fid = Absent THEN following ELSE e.fid
           i1    == IF e.i1 = Absent THEN prev ELSE e.i1
           i2    == IF e.i2 = Absent THEN NoOperand ELSE e.i2
           x     == [e EXCEPT !.fid = fid, !.i1 = i1, !.i2 = i2]
<1>1. /\ acc.next \in Nat /\ acc.prev \in Int /\ acc.layer \in Int
      /\ acc.done \in Seq(CsvEntries(Nat, places))
  BY DEF Assigning
<1>2. /\ e.fid \in OrAbsent /\ e.i1 \in Int /\ e.i2 \in Int /\ e.layer \in Nat
  BY DEF CsvEntries
<1>3. following \in Nat /\ prev \in Int
  BY <1>1 DEF NoOperand
<1>4. fid \in Nat
  BY <1>2, <1>3 DEF OrAbsent
<1>5. i1 \in Int /\ i2 \in Int
  BY <1>2, <1>3 DEF NoOperand
<1>6. AssignId(acc, e) = [layer |-> e.layer, next |-> Most(following, fid + 1), prev |-> fid,
                          done |-> Append(acc.done, x)]
  BY DEF AssignId
<1> HIDE DEF following, prev, i1, i2
<1> HIDE DEF fid
<1>7. x \in CsvEntries(Nat, places)
  BY <1>4, <1>5 DEF CsvEntries
<1>8. Most(following, fid + 1) \in Nat
  BY <1>3, <1>4 DEF Most
<1> HIDE DEF x
<1>9. Append(acc.done, x) \in Seq(CsvEntries(Nat, places))
  <2> DEFINE T == CsvEntries(Nat, places)
  <2>1. acc.done \in Seq(T) /\ x \in T
    BY <1>1, <1>7
  <2> HIDE DEF T
  <2>2. Append(acc.done, x) \in Seq(T)
    BY <2>1
  <2> QED
    BY <2>2 DEF T
<1>10. e.layer \in Int /\ fid \in Int
  BY <1>2, <1>4
<1> QED
  BY <1>6, <1>8, <1>9, <1>10 DEF Assigning

LEMMA AssignedIs ==
  ASSUME NEW places, NEW es \in Seq(CsvEntries(OrAbsent, places)), NEW z, z = Len(es)
  PROVE  /\ z \in Nat
         /\ \E after : AssignsAlong(after, es, places, z) /\ AssignIds(es) = after[z].done
<1> DEFINE S == Assigning(places)
           Body(f) == [n \in 0 .. z |-> IF n = 0 THEN Unassigned ELSE AssignId(f[n - 1], es[n])]
           after == CHOOSE f : f = Body(f)
           step == [n \in 1 .. z |-> [s \in S |-> AssignId(s, es[n])]]
<1>1. z \in Nat /\ \A n \in 1 .. z : es[n] \in CsvEntries(OrAbsent, places)
  OBVIOUS
<1>2. AssignIds(es) = after[z].done
  BY DEF AssignIds, Unassigned
<1>3. Unassigned \in S
  <2>1. <<>> \in Seq(CsvEntries(Nat, places))
    OBVIOUS
  <2> QED
    BY <2>1 DEF Assigning, Unassigned, Absent, NoOperand
<1>4. step \in [1 .. z -> [S -> S]]
  <2>1. \A n \in 1 .. z : \A s \in S : AssignId(s, es[n]) \in S
    BY <1>1, AssignIdIs
  <2> HIDE DEF S
  <2> QED
    BY <2>1
<1> HIDE DEF S, step, after, Body
<1>5. PICK u : Composes(u, S, Unassigned, step, z)
  <2>1. z \in Nat /\ Unassigned \in S /\ step \in [1 .. z -> [S -> S]]
    BY <1>1, <1>3, <1>4
  <2> QED
    BY <2>1, StepsExist
<1>6. \A n \in 1 .. z : u[n] = AssignId(u[n - 1], es[n])
  <2>1. ASSUME NEW n \in 1 .. z PROVE u[n] = AssignId(u[n - 1], es[n])
    <3>1. u[n - 1] \in S
      <4>1. n - 1 \in 0 .. z
        BY <1>1
      <4> QED
        BY <1>5, <4>1 DEF Composes
    <3>2. u[n] = step[n][u[n - 1]]
      BY <1>5 DEF Composes
    <3> QED
      BY <3>1, <3>2 DEF step
  <2> QED
    BY <2>1
<1>7. u = Body(u)
  <2>1. u = [n \in 0 .. z |-> u[n]]
    BY <1>5 DEF Composes
  <2>2. \A n \in 0 .. z : u[n] = IF n = 0 THEN Unassigned ELSE AssignId(u[n - 1], es[n])
    <3>1. \A n \in 0 .. z : n = 0 \/ n \in 1 .. z
      BY <1>1
    <3> QED
      BY <1>5, <1>6, <3>1 DEF Composes
  <2> QED
    BY <2>1, <2>2 DEF Body
<1>8. after = Body(after)
  BY <1>7 DEF after
<1>9. /\ after[0] = Unassigned
      /\ \A n \in 1 .. z : after[n] = AssignId(after[n - 1], es[n])
      /\ DOMAIN after = 0 .. z
      /\ after = [n \in 0 .. z |-> after[n]]
  <2>1. /\ \A n \in 0 .. z : after[n] = IF n = 0 THEN Unassigned ELSE AssignId(after[n - 1], es[n])
        /\ DOMAIN after = 0 .. z /\ after = [n \in 0 .. z |-> after[n]]
    BY <1>8 DEF Body
  <2>2. \A n \in 1 .. z : n \in 0 .. z /\ n # 0
    BY <1>1
  <2> QED
    BY <1>1, <2>1, <2>2
<1>10. \A n \in 0 .. z : after[n] \in S
  <2> DEFINE P == {n \in 0 .. z : after[n] \in S}
  <2>1. 0 \in P
    BY <1>1, <1>3, <1>9
  <2>2. ASSUME NEW k \in 0 .. z - 1, k \in P PROVE k + 1 \in P
    <3>1. k + 1 \in 1 .. z /\ (k + 1) - 1 = k
      OBVIOUS
    <3>2. after[k + 1] = AssignId(after[k], es[k + 1])
      BY <1>9, <3>1
    <3>3. after[k + 1] \in S
      BY <1>1, <2>2, <3>1, <3>2, AssignIdIs DEF S
    <3> QED
      BY <3>1, <3>3
  <2> HIDE DEF P
  <2>3. \A n \in 0 .. z : n \in P
    BY <1>1, <2>1, <2>2, TermByTerm
  <2> QED
    BY <2>3 DEF P
<1>11. AssignsAlong(after, es, places, z)
  BY <1>9, <1>10 DEF AssignsAlong, S
<1> QED
  BY <1>1, <1>2, <1>11

----------------------------------------------------------------------------
(* Addresses, placed along a program *)

LEMMA WordSpacePositive == WordSpace \in Nat \ {0}
BY DEF WordSpace

LEMMA WrapIs ==
  ASSUME NEW n \in Int
  PROVE  Wrap(n) \in 0 .. WordSpace - 1 /\ Wrap(n) \in Nat
<1> DEFINE w == WordSpace
<1>1. w \in Nat \ {0}
  BY WordSpacePositive
<1> HIDE DEF w
<1>2. n % w \in 0 .. w - 1
  BY <1>1
<1>3. n % w \in Nat
  BY <1>1, <1>2
<1> QED
  BY <1>2, <1>3 DEF Wrap, w

LEMMA KernelWordsIs == ASSUME NEW s \in LayerSpecs PROVE KernelWords(s) \in Nat
<1>1. s.kh * s.kw \in Nat /\ s.kc * s.kn \in Nat
  BY SpecFields
<1>2. s.kh * s.kw * s.kc \in Nat
  BY <1>1, SpecFields
<1>3. s.kh * s.kw * s.kc * s.kn \in Nat
  BY <1>2, SpecFields
<1> QED
  BY <1>1, <1>3 DEF KernelWords

\* Placing: the states of the placement over a program.
Outs == UNION {[D -> Nat] : D \in SUBSET Nat}
Placing ==
  [layer : Int, outs : Outs, prevOut : OrAbsent, lastOut : OrAbsent, cursor : Nat,
   done : Seq(CsvEntries(Nat, Nat))]
Unplaced ==
  [layer |-> Absent, outs |-> <<>>, prevOut |-> Absent, lastOut |-> Absent, cursor |-> 0,
   done |-> <<>>]
PlacesAlong(after, es, z) ==
  /\ after \in [0 .. z -> Placing] /\ after[0] = Unplaced
  /\ \A n \in 1 .. z : after[n] = PlaceEntry(after[n - 1], es[n])

LEMMA NoOuts == <<>> \in Outs
<1>1. <<>> \in Seq(Nat) /\ Len(<<>>) = 0
  OBVIOUS
<1>2. <<>> \in [1 .. 0 -> Nat]
  BY <1>1
<1>3. 1 .. 0 \in SUBSET Nat
  OBVIOUS
<1> QED
  BY <1>2, <1>3 DEF Outs

LEMMA OutsAre ==
  ASSUME NEW outs \in Outs, NEW k \in Nat, NEW v \in Nat
  PROVE  /\ With(outs, k, v) \in Outs
         /\ \A x \in DOMAIN outs : outs[x] \in Nat
         /\ <<>> \in Outs
<1>1. PICK D \in SUBSET Nat : outs \in [D -> Nat]
  BY DEF Outs
<1>2. With(outs, k, v) \in [D \cup {k} -> Nat]
  BY <1>1 DEF With
<1>3. D \cup {k} \in SUBSET Nat
  BY <1>1
<1> QED
  BY <1>1, <1>2, <1>3, NoOuts DEF Outs

LEMMA PlaceEntryIs ==
  ASSUME NEW acc \in Placing, NEW e \in CsvEntries(Nat, OrAbsent)
  PROVE  PlaceEntry(acc, e) \in Placing
<1> DEFINE first   == e.layer # acc.layer
           outs    == IF first THEN <<>> ELSE acc.outs
           prevOut == IF first THEN acc.lastOut ELSE acc.prevOut
           in  == CASE e.in # Absent                           -> e.in
                    [] e.in = Absent /\ e.i1 \in DOMAIN outs   -> outs[e.i1]
                    [] e.in = Absent /\ outs = <<>> /\ prevOut # Absent -> prevOut
                    [] OTHER                                   -> Wrap(acc.cursor)
           afterIn == Most(acc.cursor, in + Volume(InputShape(e.spec)))
           wt      == IF e.wt # Absent THEN e.wt ELSE Wrap(afterIn)
           afterWt == Most(afterIn, wt + KernelWords(e.spec))
           out     == IF e.out # Absent THEN e.out ELSE Wrap(afterWt)
           cursor  == Most(afterWt, out + Volume(OutputShape(e.spec)))
           x       == [e EXCEPT !.in = in, !.wt = wt, !.out = out]
<1>1. /\ acc.outs \in Outs /\ acc.prevOut \in OrAbsent /\ acc.lastOut \in OrAbsent
      /\ acc.cursor \in Nat /\ acc.layer \in Int
      /\ acc.done \in Seq(CsvEntries(Nat, Nat))
  BY DEF Placing
<1>2. /\ e.fid \in Nat /\ e.layer \in Nat /\ e.spec \in FittedSpecs
      /\ e.in \in OrAbsent /\ e.wt \in OrAbsent /\ e.out \in OrAbsent
  BY DEF CsvEntries
<1>3. e.spec \in LayerSpecs /\ KernelFits(e.spec)
  BY <1>2 DEF FittedSpecs, LayerFits
<1>4. Volume(InputShape(e.spec)) \in Nat /\ Volume(OutputShape(e.spec)) \in Nat
  <2>1. ShapeOK(InputShape(e.spec)) /\ ShapeOK(OutputShape(e.spec))
    BY <1>3, ShapesAre
  <2> QED
    BY <2>1, ShapeVolume
<1>5. KernelWords(e.spec) \in Nat
  BY <1>3, KernelWordsIs
<1>6. PlaceEntry(acc, e) =
        [layer |-> e.layer, outs |-> With(outs, e.fid, out), prevOut |-> prevOut, lastOut |-> out,
         cursor |-> cursor, done |-> Append(acc.done, x)]
  BY DEF PlaceEntry
<1>7. prevOut \in OrAbsent
  BY <1>1
<1>8. outs \in Outs
  BY <1>1, <1>2, OutsAre
<1> HIDE DEF outs, prevOut
<1>9. in \in Nat
  <2>1. Wrap(acc.cursor) \in Nat
    <3>1. acc.cursor \in Int
      BY <1>1
    <3> QED
      BY <3>1, WrapIs, Zenon
  <2>2. e.i1 \in DOMAIN outs => outs[e.i1] \in Nat
    BY <1>2, <1>8, OutsAre
  <2> QED
    BY <1>2, <1>7, <2>1, <2>2 DEF OrAbsent
<1> HIDE DEF in
<1>10. afterIn \in Nat
  BY <1>1, <1>4, <1>9 DEF Most
<1> HIDE DEF afterIn
<1>11. wt \in Nat
  BY <1>2, <1>10, WrapIs DEF OrAbsent
<1> HIDE DEF wt
<1>12. afterWt \in Nat
  BY <1>5, <1>10, <1>11 DEF Most
<1> HIDE DEF afterWt
<1>13. out \in Nat
  BY <1>2, <1>12, WrapIs DEF OrAbsent
<1> HIDE DEF out
<1>14. cursor \in Nat
  BY <1>4, <1>12, <1>13 DEF Most
<1> HIDE DEF cursor
<1>15. x \in CsvEntries(Nat, Nat)
  BY <1>9, <1>11, <1>13 DEF CsvEntries
<1> HIDE DEF x
<1>16. Append(acc.done, x) \in Seq(CsvEntries(Nat, Nat))
  <2> DEFINE T == CsvEntries(Nat, Nat)
  <2>1. acc.done \in Seq(T) /\ x \in T
    BY <1>1, <1>15
  <2> HIDE DEF T
  <2>2. Append(acc.done, x) \in Seq(T)
    BY <2>1
  <2> QED
    BY <2>2 DEF T
<1>17. With(outs, e.fid, out) \in Outs
  BY <1>2, <1>8, <1>13, OutsAre
<1>18. e.layer \in Int /\ out \in OrAbsent
  BY <1>2, <1>13 DEF OrAbsent
<1> QED
  BY <1>6, <1>7, <1>14, <1>16, <1>17, <1>18 DEF Placing

LEMMA PlacedIs ==
  ASSUME NEW es \in Seq(CsvEntries(Nat, OrAbsent)), NEW z, z = Len(es)
  PROVE  /\ z \in Nat
         /\ \E after : PlacesAlong(after, es, z) /\ Place(es) = after[z]
<1> DEFINE S == Placing
           Body(f) == [n \in 0 .. z |-> IF n = 0 THEN Unplaced ELSE PlaceEntry(f[n - 1], es[n])]
           after == CHOOSE f : f = Body(f)
           step == [n \in 1 .. z |-> [s \in S |-> PlaceEntry(s, es[n])]]
<1>1. z \in Nat /\ \A n \in 1 .. z : es[n] \in CsvEntries(Nat, OrAbsent)
  OBVIOUS
<1>2. Place(es) = after[z]
  BY DEF Place, Unplaced
<1>3. Unplaced \in S
  <2>1. <<>> \in Seq(CsvEntries(Nat, Nat))
    OBVIOUS
  <2>2. <<>> \in Outs
    BY NoOuts
  <2> QED
    BY <2>1, <2>2 DEF Placing, Unplaced, Absent, OrAbsent
<1>4. step \in [1 .. z -> [S -> S]]
  <2>1. \A n \in 1 .. z : \A s \in S : PlaceEntry(s, es[n]) \in S
    BY <1>1, PlaceEntryIs
  <2> HIDE DEF S
  <2> QED
    BY <2>1
<1> HIDE DEF S, step, after, Body
<1>5. PICK u : Composes(u, S, Unplaced, step, z)
  <2>1. z \in Nat /\ Unplaced \in S /\ step \in [1 .. z -> [S -> S]]
    BY <1>1, <1>3, <1>4
  <2> QED
    BY <2>1, StepsExist
<1>6. \A n \in 1 .. z : u[n] = PlaceEntry(u[n - 1], es[n])
  <2>1. ASSUME NEW n \in 1 .. z PROVE u[n] = PlaceEntry(u[n - 1], es[n])
    <3>1. u[n - 1] \in S
      <4>1. n - 1 \in 0 .. z
        BY <1>1
      <4> QED
        BY <1>5, <4>1 DEF Composes
    <3>2. u[n] = step[n][u[n - 1]]
      BY <1>5 DEF Composes
    <3> QED
      BY <3>1, <3>2 DEF step
  <2> QED
    BY <2>1
<1>7. u = Body(u)
  <2>1. u = [n \in 0 .. z |-> u[n]]
    BY <1>5 DEF Composes
  <2>2. \A n \in 0 .. z : u[n] = IF n = 0 THEN Unplaced ELSE PlaceEntry(u[n - 1], es[n])
    <3>1. \A n \in 0 .. z : n = 0 \/ n \in 1 .. z
      BY <1>1
    <3> QED
      BY <1>5, <1>6, <3>1 DEF Composes
  <2> QED
    BY <2>1, <2>2 DEF Body
<1>8. after = Body(after)
  BY <1>7 DEF after
<1>9. /\ after[0] = Unplaced
      /\ \A n \in 1 .. z : after[n] = PlaceEntry(after[n - 1], es[n])
      /\ DOMAIN after = 0 .. z
      /\ after = [n \in 0 .. z |-> after[n]]
  <2>1. /\ \A n \in 0 .. z : after[n] = IF n = 0 THEN Unplaced ELSE PlaceEntry(after[n - 1], es[n])
        /\ DOMAIN after = 0 .. z /\ after = [n \in 0 .. z |-> after[n]]
    BY <1>8 DEF Body
  <2>2. \A n \in 1 .. z : n \in 0 .. z /\ n # 0
    BY <1>1
  <2> QED
    BY <1>1, <2>1, <2>2
<1>10. \A n \in 0 .. z : after[n] \in S
  <2> DEFINE P == {n \in 0 .. z : after[n] \in S}
  <2>1. 0 \in P
    BY <1>1, <1>3, <1>9
  <2>2. ASSUME NEW k \in 0 .. z - 1, k \in P PROVE k + 1 \in P
    <3>1. k + 1 \in 1 .. z /\ (k + 1) - 1 = k
      OBVIOUS
    <3>2. after[k + 1] = PlaceEntry(after[k], es[k + 1])
      BY <1>9, <3>1
    <3>3. after[k + 1] \in S
      BY <1>1, <2>2, <3>1, <3>2, PlaceEntryIs DEF S
    <3> QED
      BY <3>1, <3>3
  <2> HIDE DEF P
  <2>3. \A n \in 0 .. z : n \in P
    BY <1>1, <2>1, <2>2, TermByTerm
  <2> QED
    BY <2>3 DEF P
<1>11. PlacesAlong(after, es, z)
  BY <1>9, <1>10 DEF PlacesAlong, S
<1> QED
  BY <1>1, <1>2, <1>11

----------------------------------------------------------------------------
(* The program a CSV file makes *)

LEMMA LinkIs ==
  ASSUME NEW rs \in Seq(Rows), NEW base \in ProcessingElements
  PROVE  Link(rs, base).entries \in Seq(CsvEntries(Nat, Nat)) /\ Link(rs, base).footprint \in Nat
<1> DEFINE es == Entries(rs, base)
           os == Ordered(es)
           as == AssignIds(os)
<1>1. es \in Seq(CsvEntries(OrAbsent, OrAbsent)) /\ InLineOrder(es)
  BY EntriesAre
<1>2. os \in Seq(CsvEntries(OrAbsent, OrAbsent))
  <2> HIDE DEF es
  <2> QED
    BY <1>1, OrderedIs
<1>3. as \in Seq(CsvEntries(Nat, OrAbsent))
  <2> HIDE DEF os
  <2>1. PICK after : /\ Len(os) \in Nat /\ AssignsAlong(after, os, OrAbsent, Len(os))
                     /\ as = after[Len(os)].done
    BY <1>2, AssignedIs
  <2>2. after[Len(os)] \in Assigning(OrAbsent)
    BY <2>1 DEF AssignsAlong
  <2> QED
    BY <2>1, <2>2 DEF Assigning
<1>4. Place(as).done \in Seq(CsvEntries(Nat, Nat)) /\ Place(as).cursor \in Nat
  <2> HIDE DEF as
  <2>1. PICK after : Len(as) \in Nat /\ PlacesAlong(after, as, Len(as)) /\ Place(as) = after[Len(as)]
    BY <1>3, PlacedIs
  <2>2. after[Len(as)] \in Placing
    <3> DEFINE z == Len(as)
    <3>1. z \in Nat /\ after \in [0 .. z -> Placing]
      BY <2>1, Zenon DEF PlacesAlong
    <3> HIDE DEF z
    <3>2. after[z] \in Placing
      BY <3>1
    <3> QED
      BY <3>2 DEF z
  <2> QED
    BY <2>1, <2>2 DEF Placing
<1> QED
  BY <1>4 DEF Link

\* Four numbers, as the fields of a latency descriptor.
LEMMA OracleOK ==
  ASSUME NEW lat, LatencyOK(lat), NEW r \in Rows
  PROVE  LatencyOK(WithOracle(lat, r))
<1> DEFINE D == {"fI", "fW", "fO", "preIn", "preWt", "nMin", "nMax", "issue", "post", "ops"}
           new == WithOracle(lat, r)
<1>1. CASE ~HasOracle(r)
  BY <1>1 DEF WithOracle
<1>2. CASE HasOracle(r)
  <2>1. OracleColumns \subseteq NumberColumns
    BY DEF OracleColumns, NumberColumns
  <2>2. \A c \in OracleColumns : r[c] \in Nat
    BY <1>2, <2>1, RowNumbers DEF HasOracle
  <2>3. DOMAIN lat = D
    BY DEF LatencyOK
  <2>4. /\ DOMAIN new = D /\ new.fI = r["f_i"] /\ new.fW = r["f_w"] /\ new.fO = r["f_o"]
        /\ new.nMin = r["n_min"] /\ new.nMax = r["n_max"]
    BY <1>2, <2>3 DEF WithOracle
  <2> HIDE DEF new
  <2>5. new.fI \in Nat /\ new.fW \in Nat /\ new.fO \in Nat /\ new.nMin \in Nat /\ new.nMax \in Nat
    <3>1. {"f_i", "f_w", "f_o", "n_min", "n_max"} \subseteq OracleColumns
      BY DEF OracleColumns
    <3> QED
      BY <2>2, <2>4, <3>1
  <2>6. LatencyOK(new)
    BY <2>4, <2>5 DEF LatencyOK
  <2> QED
    BY <2>6 DEF new
<1> QED
  BY <1>1, <1>2

LEMMA TensorsOK ==
  ASSUME NEW o, ShapeOK(o), NEW addr \in Nat, NEW words \in Nat
  PROVE  /\ TensorOK(Tensor(o, addr, words))
         /\ Tensor(o, addr, words).words = words /\ Tensor(o, addr, words).shape = o
BY DEF Tensor, TensorOK, ShapeOK

LEMMA EntryFunctionOK ==
  ASSUME NEW e \in CsvEntries(Nat, Nat), NEW h \in Hardware
  PROVE  FunctionOK(EntryFunction(e, h))
<1> DEFINE s == e.spec
           f == EntryFunction(e, h)
           th == Most(1, e.row["tile_h"])
           tw == Most(1, e.row["tile_w"])
           lat == EntryLatency(e, h)
           tile == EntryTile(e).tile
           in == Tensor(InputShape(s), e.in, Volume(InputShape(s)))
           wt == Tensor(Shape(s.kh, s.kw, s.kc), e.wt, KernelWords(s))
           out == Tensor(OutputShape(s), e.out, Volume(OutputShape(s)))
           skip == OrElse(e.row, "skip_permille", 0)
<1>1. /\ e.layer \in Nat /\ e.fid \in Nat /\ e.row \in AcceptedRows /\ s \in FittedSpecs
      /\ e.in \in Nat /\ e.wt \in Nat /\ e.out \in Nat /\ e.pe \in ProcessingElements
  BY DEF CsvEntries
<1>2. e.row \in Rows /\ RowAccepted(e.row)
  BY <1>1 DEF AcceptedRows
<1>3. LayerFits(s) /\ s \in LayerSpecs /\ KernelFits(s)
  BY <1>1 DEF FittedSpecs, LayerFits
<1>4. /\ f.layer = e.layer /\ f.fid = e.fid /\ f.stride = s.stride /\ f.tile = tile
      /\ f.skip = skip /\ f.input = in /\ f.weight = wt /\ f.output = out /\ f.lat = lat
  BY DEF EntryFunction, Function
<1> HIDE DEF f
<1>5. {"skip_permille", "tile_h", "tile_w"} \subseteq NumberColumns
  BY DEF NumberColumns
<1>6. skip \in Nat
  BY <1>2, <1>5, OrElseIs
<1>7. th \in Nat /\ tw \in Nat
  <2>1. \A c \in NumberColumns : e.row[c] \in Int
    BY <1>2, RowNumbers
  <2>2. \A n \in Int : Most(1, n) \in Nat
    BY DEF Most
  <2> QED
    BY <1>5, <2>1, <2>2
<1>8. h.l2kb \in Nat
  BY CompilerAssumption
<1>9. LatencyOK(lat)
  <2> HIDE DEF th, tw
  <2>1. LatencyOK(TiledLatency(s, th, tw, h.l2kb, h.dataflow, e.pe, h.dataflow))
    BY <1>1, <1>3, <1>7, <1>8, LatenciesOK
  <2>2. lat = WithOracle(TiledLatency(s, th, tw, h.l2kb, h.dataflow, e.pe, h.dataflow), e.row)
    BY DEF EntryLatency, th, tw
  <2> HIDE DEF lat
  <2> QED
    BY <1>2, <2>1, <2>2, OracleOK
<1>10. tile.r \in Nat /\ tile.c \in Nat
  <2>1. \/ tile = RowTile(e.row)
        \/ tile = [NoTile EXCEPT !.r = th, !.c = tw, !.kern = e.spec.kh * e.spec.kw]
        \/ tile = NoTile
    BY DEF EntryTile
  <2>2. RowTile(e.row).r \in Nat /\ RowTile(e.row).c \in Nat
    <3>1. {"t_r", "t_c"} \subseteq NumberColumns
      BY DEF NumberColumns
    <3>2. OrElse(e.row, "t_r", 0) \in Nat /\ OrElse(e.row, "t_c", 0) \in Nat
      BY <1>2, <3>1, OrElseIs
    <3> QED
      BY <3>2 DEF RowTile
  <2> HIDE DEF th, tw, tile
  <2>3. NoTile.r \in Nat /\ NoTile.c \in Nat
    BY DEF NoTile
  <2>4. LET t == [NoTile EXCEPT !.r = th, !.c = tw, !.kern = e.spec.kh * e.spec.kw]
        IN  t.r = th /\ t.c = tw
    BY DEF NoTile
  <2> QED
    BY <1>7, <2>1, <2>2, <2>3, <2>4
<1>11. /\ ShapeOK(InputShape(s)) /\ ShapeOK(OutputShape(s))
  BY <1>3, ShapesAre
<1>12. ShapeOK(Shape(s.kh, s.kw, s.kc))
  BY <1>3, SpecFields DEF ShapeOK, Shape
<1>13. Volume(InputShape(s)) \in Nat /\ Volume(OutputShape(s)) \in Nat /\ KernelWords(s) \in Nat
  BY <1>3, <1>11, ShapeVolume, KernelWordsIs
<1>14. /\ TensorOK(in) /\ TensorOK(wt) /\ TensorOK(out)
       /\ in.words = Volume(in.shape) /\ out.words = Volume(out.shape)
  <2>1. TensorOK(in) /\ in.words = Volume(InputShape(s)) /\ in.shape = InputShape(s)
    BY <1>1, <1>11, <1>13, TensorsOK
  <2>2. TensorOK(wt)
    BY <1>1, <1>12, <1>13, TensorsOK
  <2>3. TensorOK(out) /\ out.words = Volume(OutputShape(s)) /\ out.shape = OutputShape(s)
    BY <1>1, <1>11, <1>13, TensorsOK
  <2> QED
    BY <2>1, <2>2, <2>3
<1>15. s.stride \in Nat
  BY <1>3, SpecFields
<1> HIDE DEF lat, tile, in, wt, out, skip
<1>16. FunctionOK(f)
  <2>1. {f.layer, f.fid, f.stride, f.tile.r, f.tile.c} \subseteq Nat
    BY <1>1, <1>4, <1>10, <1>15
  <2>2. f.skip \in Nat
    BY <1>4, <1>6
  <2> QED
    BY <1>4, <1>9, <1>14, <2>1, <2>2 DEF FunctionOK
<1> QED
  BY <1>16 DEF f

LEMMA CsvProgramOK ==
  ASSUME NEW es \in Seq(CsvEntries(Nat, Nat)), NEW h \in Hardware, NEW fs, fs = CsvFunctions(es, h)
  PROVE  ProgramOK(fs) /\ DOMAIN fs = DOMAIN es
<1> DEFINE T == {EntryFunction(e, h) : e \in CsvEntries(Nat, Nat)}
<1>1. DOMAIN es = 1 .. Len(es) /\ Len(es) \in Nat /\ \A i \in 1 .. Len(es) : es[i] \in CsvEntries(Nat, Nat)
  OBVIOUS
<1>2. fs = [i \in 1 .. Len(es) |-> EntryFunction(es[i], h)]
  BY <1>1 DEF CsvFunctions
<1>3. \A i \in 1 .. Len(es) : EntryFunction(es[i], h) \in T
  BY <1>1
<1>4. \A f \in T : FunctionOK(f)
  BY EntryFunctionOK
<1> HIDE DEF T
<1>5. fs \in Seq(T)
  BY <1>1, <1>2, <1>3
<1> QED
  BY <1>1, <1>2, <1>4, <1>5, OwnRange DEF ProgramOK

----------------------------------------------------------------------------
(* The layers of the compiler and of the generator *)

\* A layer of the compiler, or of the generator, as it is described.
Described(l) ==
  /\ l.spec \in LayerSpecs /\ KernelFits(l.spec)
  /\ l.in \in Nat /\ l.wt \in Nat /\ l.out \in Nat
  /\ LatencyOK(l.lat)
  /\ l.tile \in TileRequests
AllDescribed(ls) == ls \in Seq(Range(ls)) /\ \A l \in Range(ls) : Described(l)

\* A program is one of such layers when each layer is.
LEMMA ProgramFrom ==
  ASSUME NEW z \in Nat, NEW F, NEW fs, fs = [i \in 1 .. z |-> F[i]], \A i \in 1 .. z : FunctionOK(F[i])
  PROVE  ProgramOK(fs)
<1> DEFINE T == {F[i] : i \in 1 .. z}
<1>1. \A i \in 1 .. z : F[i] \in T
  OBVIOUS
<1>2. \A f \in T : FunctionOK(f)
  OBVIOUS
<1> HIDE DEF T
<1>3. fs \in Seq(T)
  BY <1>1
<1> QED
  BY <1>2, <1>3, OwnRange DEF ProgramOK

LEMMA LayerFunctionOK ==
  ASSUME NEW l, Described(l), NEW i \in Nat \ {0}
  PROVE  FunctionOK(LayerFunction(i, l))
<1> DEFINE s == l.spec
           o == CompilerOutputShape(s)
           f == LayerFunction(i, l)
           in == Tensor(InputShape(s), l.in, Volume(InputShape(s)))
           wt == Tensor(Shape(s.kh, s.kw, s.kc), l.wt, s.kh * s.kw * s.kc * s.kn)
           out == Tensor(o, l.out, Volume(o))
<1>1. /\ s \in LayerSpecs /\ KernelFits(s) /\ l.in \in Nat /\ l.wt \in Nat /\ l.out \in Nat
      /\ l.tile \in TileRequests /\ LatencyOK(l.lat)
  BY DEF Described
<1>2. /\ f.layer = i - 1 /\ f.fid = 0 /\ f.stride = s.stride /\ f.tile = l.tile /\ f.skip = 0
      /\ f.input = in /\ f.weight = wt /\ f.output = out /\ f.lat = l.lat
  BY DEF LayerFunction, Function
<1> HIDE DEF f
<1>3. ShapeOK(InputShape(s)) /\ ShapeOK(o) /\ ShapeOK(Shape(s.kh, s.kw, s.kc))
  BY <1>1, ShapesAre, SpecFields DEF ShapeOK, Shape
<1>4. Volume(InputShape(s)) \in Nat /\ Volume(o) \in Nat
  BY <1>3, ShapeVolume
<1>5. s.kh * s.kw * s.kc * s.kn \in Nat
  <2>1. s.kh * s.kw \in Nat /\ s.kc \in Nat /\ s.kn \in Nat
    BY <1>1, SpecFields
  <2>2. s.kh * s.kw * s.kc \in Nat
    BY <2>1
  <2> QED
    BY <2>1, <2>2
<1>6. /\ TensorOK(in) /\ TensorOK(wt) /\ TensorOK(out)
      /\ in.words = Volume(in.shape) /\ out.words = Volume(out.shape)
  BY <1>1, <1>3, <1>4, <1>5, TensorsOK
<1>7. l.tile.r \in Nat /\ l.tile.c \in Nat
  BY <1>1 DEF TileRequests
<1>8. s.stride \in Nat /\ i - 1 \in Nat
  BY <1>1, SpecFields
<1> HIDE DEF in, wt, out, s
<1>9. {f.layer, f.fid, f.stride, f.tile.r, f.tile.c, f.skip} \subseteq Nat
  BY <1>2, <1>7, <1>8
<1>10. FunctionOK(f)
  BY <1>1, <1>2, <1>6, <1>9 DEF FunctionOK
<1> QED
  BY <1>10 DEF f

LEMMA LayerProgramOK ==
  ASSUME NEW ls, AllDescribed(ls), NEW fs, fs = LayerFunctions(ls)
  PROVE  ProgramOK(fs) /\ DOMAIN fs = DOMAIN ls
<1> DEFINE z == Len(ls)
           F == [i \in 1 .. z |-> LayerFunction(i, ls[i])]
<1>1. DOMAIN ls = 1 .. z /\ z \in Nat /\ \A i \in 1 .. z : ls[i] \in Range(ls)
  BY DEF AllDescribed, Range
<1>2. \A i \in 1 .. z : Described(ls[i])
  BY <1>1 DEF AllDescribed
<1> HIDE DEF z
<1>3. fs = F /\ F = [i \in 1 .. z |-> F[i]]
  BY <1>1 DEF LayerFunctions
<1>4. \A i \in 1 .. z : FunctionOK(F[i])
  <2>1. ASSUME NEW i \in 1 .. z PROVE FunctionOK(F[i])
    <3>1. F[i] = LayerFunction(i, ls[i]) /\ i \in Nat \ {0} /\ Described(ls[i])
      BY <1>1, <1>2
    <3> QED
      BY <3>1, LayerFunctionOK
  <2> QED
    BY <2>1
<1>5. DOMAIN fs = 1 .. z
  BY <1>3
<1> HIDE DEF F
<1>6. ProgramOK(fs)
  <2>1. fs = [i \in 1 .. z |-> F[i]]
    BY <1>3
  <2> QED
    BY <1>1, <1>4, <2>1, ProgramFrom
<1> QED
  BY <1>1, <1>5, <1>6

LEMMA AppendDescribed ==
  ASSUME NEW ls, AllDescribed(ls), NEW l, Described(l)
  PROVE  AllDescribed(Append(ls, l)) /\ Len(Append(ls, l)) = Len(ls) + 1
<1> DEFINE T == Range(ls) \cup {l}
<1>1. ls \in Seq(T) /\ l \in T
  <2> DEFINE R == Range(ls)
  <2>1. ls \in Seq(R) /\ R \subseteq T /\ l \in T
    BY DEF AllDescribed
  <2> HIDE DEF T, R
  <2>2. Len(ls) \in Nat /\ ls = [i \in 1 .. Len(ls) |-> ls[i]] /\ \A i \in 1 .. Len(ls) : ls[i] \in T
    BY <2>1
  <2>3. ls \in Seq(T)
    BY <2>2
  <2> QED
    BY <2>1, <2>3
<1>2. \A x \in T : Described(x)
  BY DEF AllDescribed
<1> HIDE DEF T
<1>3. Append(ls, l) \in Seq(T) /\ Len(Append(ls, l)) = Len(ls) + 1
  BY <1>1
<1> QED
  BY <1>2, <1>3, OwnRange DEF AllDescribed

\* The layers of a network, as the compiler is handed them.
LEMMA GeneratedDescribed ==
  ASSUME NEW ls, ls \in Seq(Range(ls)),
         \A l \in Range(ls) : /\ l.spec \in LayerSpecs /\ KernelFits(l.spec) /\ LatencyOK(l.lat)
                              /\ l.in \in Nat /\ l.wt \in Nat /\ l.out \in Nat
  PROVE  AllDescribed(GeneratedLayers(ls)) /\ DOMAIN GeneratedLayers(ls) = DOMAIN ls
<1> DEFINE gs == GeneratedLayers(ls)
           z == Len(ls)
           Given1(i) == [spec |-> ls[i].spec, in |-> ls[i].in, wt |-> ls[i].wt,
                         out |-> ls[i].out, lat |-> ls[i].lat, tile |-> NoTile, flags |-> {}]
           T == {Given1(i) : i \in 1 .. z}
<1>1. DOMAIN ls = 1 .. z /\ z \in Nat /\ \A i \in 1 .. z : ls[i] \in Range(ls)
  BY DEF Range
<1>2. \A i \in 1 .. z : Described(Given1(i))
  <2>1. NoTile \in TileRequests
    BY DEF NoTile, TileRequests
  <2> QED
    BY <1>1, <2>1 DEF Described
<1>3. gs = [i \in 1 .. z |-> Given1(i)]
  BY <1>1 DEF GeneratedLayers
<1>4. (\A x \in T : Described(x)) /\ \A i \in 1 .. z : Given1(i) \in T
  BY <1>2
<1> HIDE DEF Given1, T, z, gs
<1>5. gs \in Seq(T) /\ DOMAIN gs = 1 .. z
  BY <1>1, <1>3, <1>4
<1>6. AllDescribed(gs)
  BY <1>4, <1>5, OwnRange DEF AllDescribed
<1> QED
  BY <1>1, <1>5, <1>6 DEF gs

LEMMA DirectDescribed ==
  ASSUME NEW l \in GivenLayers, KernelFits(l.spec), NEW tile \in TileRequests, NEW lat, LatencyOK(lat)
  PROVE  Described(Direct(l, lat, tile))
<1> DEFINE d == Direct(l, lat, tile)
           s == l.spec
<1>1. s \in LayerSpecs /\ l.in \in Nat /\ l.wt \in Nat /\ l.out \in Nat
  BY DEF GivenLayers
<1>2. /\ d.spec = DirectSpec(s) /\ d.in = l.in /\ d.wt = l.wt /\ d.out = l.out /\ d.lat = lat
      /\ d.tile = tile
  BY DEF Direct
<1> HIDE DEF d
<1>3. DirectSpec(s) \in LayerSpecs
  BY <1>1 DEF DirectSpec, LayerSpecs
<1>4. KernelFits(DirectSpec(s))
  <2>1. /\ DirectSpec(s).type = s.type /\ DirectSpec(s).ih = s.ih /\ DirectSpec(s).iw = s.iw
        /\ DirectSpec(s).pad = s.pad /\ DirectSpec(s).kh = s.kh /\ DirectSpec(s).kw = s.kw
        /\ DirectSpec(s).dil = s.dil
    BY <1>1 DEF DirectSpec, LayerSpecs
  <2> QED
    BY <2>1 DEF KernelFits
<1>5. Described(d)
  BY <1>1, <1>2, <1>3, <1>4 DEF Described
<1> QED
  BY <1>5 DEF d

----------------------------------------------------------------------------
(* Networks of steps, and the shapes they leave *)

Extents == [h : Int, w : Int, c : Int]

LEMMA ShapeBehindIs ==
  ASSUME NEW step \in GeneratorSteps, NEW at \in Extents
  PROVE  ShapeBehind(step, at) \in Extents
<1> DEFINE n == [at |-> at, addr |-> 0, last |-> 0, layers |-> <<>>]
           spec == StepSpec(step, at)
           shape == CompilerOutputShape(spec)
<1>1. {at.h, at.w, at.c} \subseteq Int
  BY DEF Extents
<1>2. /\ step.type \in {"Conv2D", "DepthwiseConv2D", "Pooling", "FullyConnected"}
      /\ step.k \in Nat /\ step.stride \in Nat \ {0} /\ step.pad \in Nat /\ step.n \in Nat
      /\ step.expand \in Nat
  BY DEF GeneratorSteps
<1>3. /\ spec.type = step.type /\ spec.stride = step.stride /\ spec.pad = step.pad /\ spec.dil = 1
      /\ spec.ih = at.h /\ spec.iw = at.w /\ spec.ic = at.c
      /\ spec.kh = (IF step.k = 0 THEN at.h ELSE step.k)
      /\ spec.kw = (IF step.k = 0 THEN at.w ELSE step.k)
      /\ spec.kn = (IF step.type = "Pooling" /\ step.filters THEN at.c
                    ELSE IF step.expand > 0 THEN at.c * step.expand ELSE step.n)
  BY DEF StepSpec
<1> HIDE DEF spec
<1>4. {spec.ih, spec.iw, spec.ic, spec.kh, spec.kw, spec.kn} \subseteq Int
  <2>1. at.c * step.expand \in Int
    BY <1>1, <1>2
  <2> QED
    BY <1>1, <1>2, <1>3, <2>1
<1>5. shape \in Extents
  <2>1. ASSUME NEW extent \in Int, NEW k \in Int PROVE WindowCount(extent, k, spec) \in Int
    <3>1. EffectiveKernel(k, spec.dil) \in Int
      BY <1>3 DEF EffectiveKernel
    <3>2. extent + 2 * spec.pad - EffectiveKernel(k, spec.dil) \in Int /\ spec.stride \in Nat \ {0}
      BY <3>1, <1>2, <1>3
    <3>3. (extent + 2 * spec.pad - EffectiveKernel(k, spec.dil)) \div spec.stride \in Int
      BY <3>2
    <3> QED
      BY <3>3 DEF WindowCount
  <2>2. CASE spec.type \in Windowed
    <3>1. shape = WindowShape(spec, WindowChannels(spec))
      BY <2>2 DEF CompilerOutputShape, Windowed
    <3>2. WindowChannels(spec) \in Int
      BY <1>4 DEF WindowChannels
    <3>3. shape = [h |-> WindowCount(spec.ih, spec.kh, spec), w |-> WindowCount(spec.iw, spec.kw, spec),
                   c |-> WindowChannels(spec)]
      BY <3>1 DEF WindowShape, Shape
    <3>4. WindowCount(spec.ih, spec.kh, spec) \in Int /\ WindowCount(spec.iw, spec.kw, spec) \in Int
      BY <2>1, <1>4
    <3> QED
      BY <3>2, <3>3, <3>4 DEF Extents
  <2>3. CASE spec.type \notin Windowed
    <3>1. spec.type = "FullyConnected"
      BY <2>3, <1>2, <1>3 DEF Windowed
    <3>2. shape = Shape(1, 1, spec.kn)
      BY <2>3, <3>1 DEF CompilerOutputShape
    <3> QED
      BY <3>2, <1>4 DEF Shape, Extents
  <2> QED
    BY <2>2, <2>3
<1> HIDE DEF shape
<1>6. ShapeBehind(step, at) = at \/ ShapeBehind(step, at) = shape
  BY DEF ShapeBehind, shape, spec
<1> QED
  BY <1>5, <1>6

\* at gives the shape behind each step of a network, and every layer of it fits.
FitsAlong(at, steps, cfg, z) ==
  /\ at \in [0 .. z -> Extents] /\ at[0] = Shape(cfg.h, cfg.w, cfg.c)
  /\ \A n \in 1 .. z : at[n] = ShapeBehind(steps[n], at[n - 1])
  /\ \A n \in 1 .. z : LayerFits(StepSpec(steps[n], at[n - 1]))

LEMMA NetworkAlong ==
  ASSUME NEW name, NEW cfg, {cfg.h, cfg.w, cfg.c, cfg.classes} \subseteq Nat,
         NetworkFits(name, cfg), NEW steps, steps = Steps(name, cfg.classes), NEW z, z = Len(steps)
  PROVE  /\ steps \in Seq(GeneratorSteps)
         /\ FitsAlong(ShapesAlong(steps, cfg), steps, cfg, z)
<1> DEFINE S == Extents
           start == Shape(cfg.h, cfg.w, cfg.c)
           Body(f) == [n \in 0 .. z |-> IF n = 0 THEN start ELSE ShapeBehind(steps[n], f[n - 1])]
           at == CHOOSE f : f = Body(f)
           step == [n \in 1 .. z |-> [s \in S |-> ShapeBehind(steps[n], s)]]
<1>1. steps \in Seq(GeneratorSteps)
  BY NetworksAre
<1>2. z \in Nat /\ DOMAIN steps = 1 .. z /\ \A n \in 1 .. z : steps[n] \in GeneratorSteps
  BY <1>1
<1>13. at = ShapesAlong(steps, cfg)
  BY DEF ShapesAlong
<1>3. \A n \in DOMAIN steps : LayerFits(StepSpec(steps[n], at[n - 1]))
  BY <1>13 DEF NetworkFits
<1>4. start \in S
  BY DEF Extents, Shape
<1>5. step \in [1 .. z -> [S -> S]]
  <2>1. \A n \in 1 .. z : \A s \in S : ShapeBehind(steps[n], s) \in S
    BY <1>2, ShapeBehindIs
  <2> HIDE DEF S
  <2> QED
    BY <2>1
<1> HIDE DEF S, start, step, at, Body
<1>6. PICK u : Composes(u, S, start, step, z)
  <2>1. z \in Nat /\ start \in S /\ step \in [1 .. z -> [S -> S]]
    BY <1>2, <1>4, <1>5
  <2> QED
    BY <2>1, StepsExist
<1>7. \A n \in 1 .. z : u[n] = ShapeBehind(steps[n], u[n - 1])
  <2>1. ASSUME NEW n \in 1 .. z PROVE u[n] = ShapeBehind(steps[n], u[n - 1])
    <3>1. u[n - 1] \in S
      <4>1. n - 1 \in 0 .. z
        BY <1>2
      <4> QED
        BY <1>6, <4>1 DEF Composes
    <3>2. u[n] = step[n][u[n - 1]]
      BY <1>6 DEF Composes
    <3> QED
      BY <3>1, <3>2 DEF step
  <2> QED
    BY <2>1
<1>8. u = Body(u)
  <2>1. u = [n \in 0 .. z |-> u[n]]
    BY <1>6 DEF Composes
  <2>2. \A n \in 0 .. z : u[n] = IF n = 0 THEN start ELSE ShapeBehind(steps[n], u[n - 1])
    <3>1. \A n \in 0 .. z : n = 0 \/ n \in 1 .. z
      BY <1>2
    <3> QED
      BY <1>6, <1>7, <3>1 DEF Composes
  <2> QED
    BY <2>1, <2>2 DEF Body
<1>9. at = Body(at)
  BY <1>8 DEF at
<1>10. /\ at[0] = start
       /\ \A n \in 1 .. z : at[n] = ShapeBehind(steps[n], at[n - 1])
       /\ DOMAIN at = 0 .. z
       /\ at = [n \in 0 .. z |-> at[n]]
  <2>1. /\ \A n \in 0 .. z : at[n] = IF n = 0 THEN start ELSE ShapeBehind(steps[n], at[n - 1])
        /\ DOMAIN at = 0 .. z /\ at = [n \in 0 .. z |-> at[n]]
    BY <1>9 DEF Body
  <2>2. (\A n \in 1 .. z : n \in 0 .. z /\ n # 0) /\ 0 \in 0 .. z
    BY <1>2
  <2>3. at[0] = start
    BY <2>1, <2>2
  <2>4. \A n \in 1 .. z : at[n] = ShapeBehind(steps[n], at[n - 1])
    BY <2>1, <2>2
  <2> QED
    BY <2>1, <2>3, <2>4
<1>11. \A n \in 0 .. z : at[n] \in S
  <2> DEFINE P == {n \in 0 .. z : at[n] \in S}
  <2>1. 0 \in P
    BY <1>2, <1>4, <1>10
  <2>2. ASSUME NEW k \in 0 .. z - 1, k \in P PROVE k + 1 \in P
    <3>1. k + 1 \in 1 .. z /\ (k + 1) - 1 = k
      OBVIOUS
    <3>2. at[k + 1] = ShapeBehind(steps[k + 1], at[k])
      BY <1>10, <3>1
    <3>3. at[k + 1] \in S
      BY <1>2, <2>2, <3>1, <3>2, ShapeBehindIs DEF S
    <3> QED
      BY <3>1, <3>3
  <2> HIDE DEF P
  <2>3. \A n \in 0 .. z : n \in P
    BY <1>2, <2>1, <2>2, TermByTerm
  <2> QED
    BY <2>3 DEF P
<1>12. FitsAlong(at, steps, cfg, z)
  BY <1>2, <1>3, <1>10, <1>11 DEF FitsAlong, S, start
<1> QED
  BY <1>1, <1>12, <1>13
=============================================================================
