----------------------------- MODULE MemoryPath -----------------------------
(***************************************************************************)
(* The way of a read from the DMA's plan to the memory and back: a         *)
(* transfer is planned as bursts (DmaModel), the bus's arbiter grants one  *)
(* burst of one master at a time (Arbiter), the memory works on several at *)
(* once (AnalyticalDram, DramBank) and the slave answers in the order of   *)
(* arrival.                                                                *)
(*                                                                         *)
(* AxiBusRead looks at the handshakes and at what happens when the slave   *)
(* cannot take a request.  Here it always can (EverythingIsAccepted).     *)
(***************************************************************************)
EXTENDS Integers, SequencesExt

CONSTANTS
  NumMasters,
  Policies,                \* arbitration policies to choose from
  Weight, Priority, Qos,   \* MasterArbitCfg of each master
  Window,                  \* bursts each master may have in flight
  Transfers,               \* what each master may be asked for: [addr, size] in bytes
  BytesPerBeat, MaxBeats,  \* DmaConfig
  Banks, LineBytes, HitCycles, MissCycles   \* DramBank::Config

Masters == 0 .. NumMasters - 1
PageBytes == 4096

ASSUME ArbiterAssumption ==
  /\ NumMasters \in Nat \ {0}
  /\ Policies \subseteq {"RoundRobin", "WeightedRR", "FixedPriority", "PriorityRR", "QoSAware"}
  /\ Weight \in [Masters -> Nat] /\ Priority \in [Masters -> Nat] /\ Qos \in [Masters -> Nat]
ASSUME TransferAssumption ==
  /\ \A m \in Masters : \A t \in Transfers[m] : t.addr \in Nat /\ t.size \in Nat \ {0}
  /\ \E n \in 0 .. 7 : BytesPerBeat = 2 ^ n
  /\ MaxBeats \in 1 .. 256
ASSUME MemoryAssumption ==
  /\ {LineBytes, HitCycles, MissCycles} \subseteq Nat \ {0}
  /\ Window \in [Masters -> Nat \ {0}]
ASSUME EverythingIsAccepted == FoldFunction(+, 0, Window) <= Banks

VARIABLES
  policy,   \* of the bus
  arbiter,  \* rr_cursor_ and credits_ of the slave's arbiter
  job,      \* the transfer each master carries out, or Idle
  plan,     \* the bursts it has still to request
  asking,   \* ARVALID: the masters that hold a request
  queue,    \* rd_q_: requests in order of arrival, with the cycles each still takes
  openRow,  \* of each bank, -1: none
  got,      \* history: the bursts answered to each master
  passed    \* history: grants to another master while one asks

vars == <<policy, arbiter, job, plan, asking, queue, openRow, got, passed>>

Idle == [addr |-> 0, size |-> 0]
Least(a, b) == IF a <= b THEN a ELSE b
Most(a, b)  == IF a >= b THEN a ELSE b

-----------------------------------------------------------------------------
\* (fault) The beat is always the configured one.
BeatConfigured(addr) == BytesPerBeat

\* DmaModel::calculate_bursts.  The beat is the configured one or the largest
\* power of two that divides the address.
BeatAt(addr) ==
  CHOOSE b \in {2 ^ n : n \in 0 .. 7} :
    /\ b <= BytesPerBeat /\ addr % b = 0
    /\ b = BytesPerBeat \/ addr % (2 * b) # 0

Burst(addr, remaining) ==
  LET cap   == Least(Least(remaining, MaxBeats * BytesPerBeat), PageBytes - (addr % PageBytes))
      beat  == BeatAt(addr)
      beats == (cap + beat - 1) \div beat
  IN  IF beats > MaxBeats
      THEN [addr |-> addr, beats |-> MaxBeats, bytes |-> MaxBeats * beat, beat |-> beat]
      ELSE [addr |-> addr, beats |-> beats, bytes |-> cap, beat |-> beat]

BurstPlan(t) ==
  LET after[n \in 0 .. t.size] ==   \* the plan when n bytes remain
        IF n = 0 THEN <<>>
        ELSE LET b == Burst(t.addr + t.size - n, n)
             IN  <<b>> \o after[n - Least(n, b.bytes)]
  IN  after[t.size]

-----------------------------------------------------------------------------
\* Arbiter::grant: the winner among the masters in req and the arbiter after.
FullCredits == [m \in Masters |-> Most(1, Weight[m])]
After(m) == (m + 1) % NumMasters

\* The first of S from the cursor on.
FromCursor(S) ==
  LET i == Min({k \in Masters : (arbiter.cursor + k) % NumMasters \in S})
  IN  (arbiter.cursor + i) % NumMasters

\* (fault) The cursor stays on the winner.
RotatedOnto(S) == LET m == FromCursor(S) IN [winner |-> m, next |-> [arbiter EXCEPT !.cursor = m]]

Rotated(S) == LET m == FromCursor(S) IN [winner |-> m, next |-> [arbiter EXCEPT !.cursor = After(m)]]

GrantRoundRobin(req) == Rotated(req)

\* (fault) The winner's credit is not taken.
GrantWeightedUnpaid(req) == [winner |-> FromCursor(req), next |-> arbiter]

\* A winner keeps the cursor until its credits are used up.  When no master
\* that asks has any left, all are replenished.
GrantWeightedRR(req) ==
  LET funded  == {m \in req : arbiter.credits[m] > 0}
      credits == IF funded = {} THEN FullCredits ELSE arbiter.credits
      m       == FromCursor(IF funded = {} THEN req ELSE funded)
  IN  [winner |-> m,
       next |-> [cursor  |-> IF credits[m] = 1 THEN After(m) ELSE arbiter.cursor,
                 credits |-> [credits EXCEPT ![m] = @ - 1]]]

MostUrgent(req) == {m \in req : \A o \in req : Priority[m] <= Priority[o]}
HighestQos(req) == {m \in req : \A o \in req : Qos[m] >= Qos[o]}

GrantFixedPriority(req) == [winner |-> Min(MostUrgent(req)), next |-> arbiter]
GrantPriorityRR(req)    == Rotated(MostUrgent(req))
GrantQosAware(req)      == Rotated(HighestQos(req))

Grant(req) ==
  CASE policy = "RoundRobin"    -> GrantRoundRobin(req)
    [] policy = "WeightedRR"    -> GrantWeightedRR(req)
    [] policy = "FixedPriority" -> GrantFixedPriority(req)
    [] policy = "PriorityRR"    -> GrantPriorityRR(req)
    [] policy = "QoSAware"      -> GrantQosAware(req)

-----------------------------------------------------------------------------
\* DramBank::access_latency.
Line(addr) == addr \div LineBytes
BankOf(addr) == Line(addr) % Banks
RowOf(addr)  == Line(addr) \div Banks
AccessLatency(addr) == IF openRow[BankOf(addr)] = RowOf(addr) THEN HitCycles ELSE MissCycles

NotPassed == [o \in Masters |-> 0]

\* The bursts of m among the requests q, oldest first.
BurstsOf(q, m) ==
  LET upTo[n \in 0 .. Len(q)] ==
        IF n = 0 THEN <<>>
        ELSE IF q[n].master = m THEN Append(upTo[n - 1], q[n].burst) ELSE upTo[n - 1]
  IN  upTo[Len(q)]
InFlight(m) == BurstsOf(queue, m)

Init ==
  /\ policy \in Policies
  /\ arbiter = [cursor |-> 0, credits |-> FullCredits]
  /\ job = [m \in Masters |-> Idle] /\ plan = [m \in Masters |-> <<>>]
  /\ asking = {} /\ queue = <<>> /\ openRow = [b \in 0 .. Banks - 1 |-> -1]
  /\ got = [m \in Masters |-> <<>>]
  /\ passed = [m \in Masters |-> NotPassed]

\* submit_transfer.
Submit(m, t) ==
  /\ job[m] = Idle
  /\ job' = [job EXCEPT ![m] = t] /\ plan' = [plan EXCEPT ![m] = BurstPlan(t)]
  /\ UNCHANGED <<policy, arbiter, asking, queue, openRow, got, passed>>

\* The master drives ARVALID with its next burst, within its window.
Ask(m) ==
  /\ m \notin asking /\ plan[m] # <<>> /\ Len(InFlight(m)) < Window[m]
  /\ asking' = asking \cup {m}
  /\ UNCHANGED <<policy, arbiter, job, plan, queue, openRow, got, passed>>

\* ar_thread: one grant, forwarded to the slave, which submits it to the
\* memory.  MaxPassed bounds the history only.
MaxPassed == 1 + 2 * Max(Range(FullCredits))
GrantOne ==
  /\ asking # {}
  /\ LET g == Grant(asking)  m == g.winner  b == Head(plan[m])
     IN  /\ arbiter' = g.next
         /\ asking' = asking \ {m} /\ plan' = [plan EXCEPT ![m] = Tail(@)]
         /\ queue' = Append(queue, [master |-> m, burst |-> b, wait |-> AccessLatency(b.addr)])
         /\ openRow' = [openRow EXCEPT ![BankOf(b.addr)] = RowOf(b.addr)]
         /\ passed' = [o \in Masters |-> IF o \in asking \ {m}
                         THEN [passed[o] EXCEPT ![m] = Least(@ + 1, MaxPassed)] ELSE NotPassed]
  /\ UNCHANGED <<policy, job, got>>

\* An edge without a request: only the credits notice.
GrantNone ==
  /\ asking = {} /\ policy = "WeightedRR"
  /\ arbiter' = [arbiter EXCEPT !.credits = FullCredits]
  /\ UNCHANGED <<policy, job, plan, asking, queue, openRow, got, passed>>

\* mem_tick: every access under way is a cycle nearer.
Tick ==
  /\ \E i \in DOMAIN queue : queue[i].wait > 0
  /\ queue' = [i \in DOMAIN queue |-> [queue[i] EXCEPT !.wait = Most(@ - 1, 0)]]
  /\ UNCHANGED <<policy, arbiter, job, plan, asking, openRow, got, passed>>

\* r_thread: the oldest request is answered once its access is complete.
Answer ==
  /\ queue # <<>> /\ Head(queue).wait = 0
  /\ LET r == Head(queue) IN got' = [got EXCEPT ![r.master] = Append(@, r.burst)]
  /\ queue' = Tail(queue)
  /\ UNCHANGED <<policy, arbiter, job, plan, asking, openRow, passed>>

\* complete_transfer.
Complete(m) ==
  /\ job[m] # Idle /\ plan[m] = <<>> /\ InFlight(m) = <<>>
  /\ job' = [job EXCEPT ![m] = Idle] /\ got' = [got EXCEPT ![m] = <<>>]
  /\ UNCHANGED <<policy, arbiter, plan, asking, queue, openRow, passed>>

Next ==
  \/ \E m \in Masters : (\E t \in Transfers[m] : Submit(m, t)) \/ Ask(m) \/ Complete(m)
  \/ GrantOne \/ GrantNone \/ Tick \/ Answer

\* Every process of the bus, the memory and the masters runs on every edge;
\* nobody is obliged to start a transfer.
Fairness ==
  /\ WF_vars(GrantOne) /\ WF_vars(Tick) /\ WF_vars(Answer)
  /\ \A m \in Masters : WF_vars(Ask(m)) /\ WF_vars(Complete(m))

Spec == Init /\ [][Next]_vars /\ Fairness

-----------------------------------------------------------------------------
\* What was answered, what is in flight and what is still planned are, in
\* this order, the transfer: bursts that follow on each other from its first
\* byte to its last, each of which the bus decodes (no 4 KiB page is left,
\* even when the last beat is rounded up), starts on a beat and has at most
\* MaxBeats of them.
Contiguous(bursts, addr, end) ==
  /\ bursts # <<>> /\ bursts[1].addr = addr
  /\ \A i \in DOMAIN bursts :
       bursts[i].addr + bursts[i].bytes =
         IF i = Len(bursts) THEN end ELSE bursts[i + 1].addr
Legal(b) ==
  /\ (b.addr % PageBytes) + b.beats * b.beat <= PageBytes
  /\ b.addr % b.beat = 0 /\ b.beats \in 1 .. MaxBeats /\ b.bytes \in 1 .. b.beats * b.beat
BurstsCoverTransfer ==
  \A m \in Masters : job[m] # Idle =>
    LET all == got[m] \o InFlight(m) \o plan[m]
    IN  /\ Contiguous(all, job[m].addr, job[m].addr + job[m].size)
        /\ \A i \in DOMAIN all : Legal(all[i])

\* Among equals the policies that rotate take turns: while a master asks, no
\* equal of it is granted twice, or more often than two rounds of its weight
\* ("equal-share rotation", "round-robin within the highest-priority tier",
\* "within the same QOS level").
Equals(m, o) ==
  CASE policy = "PriorityRR" -> Priority[m] = Priority[o]
    [] policy = "QoSAware"   -> Qos[m] = Qos[o]
    [] OTHER                 -> policy # "FixedPriority"
Turns(o) == IF policy = "WeightedRR" THEN 2 * FullCredits[o] ELSE 1
EqualsTakeTurns ==
  \A m \in asking : \A o \in Masters \ {m} : Equals(m, o) => passed[m][o] <= Turns(o)

\* Nobody starves: under a policy without tiers every transfer ends, however
\* the other masters go on asking.
EveryTransferCompletes ==
  \A m \in Masters :
    policy \in {"RoundRobin", "WeightedRR"} /\ job[m] # Idle ~> job[m] = Idle
=============================================================================
