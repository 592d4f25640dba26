------------------------------ MODULE AxiBusWrite ------------------------------
(****************************************************************************)
(* The write half of the NumM x NumS AXI interconnect                       *)
(* (src/src/systemc/bus/axi/bus/axi_bus.h), between the signal-level        *)
(* masters (master/axi_master.h) and slaves (slave/axi_slave.h).            *)
(*                                                                          *)
(* One action stands for one step of one SystemC thread or method, at the   *)
(* clock edge where the step takes effect; edges at which a thread only     *)
(* waits are stuttering steps.  A VALID/READY handshake is one action of    *)
(* both sides, except for the AW request the bus drives at a slave: that is *)
(* a one-cycle pulse whose AWREADY nobody reads, so it is a wire of its own *)
(* (awWire) that the slave samples, and misses when it is not ready.        *)
(*                                                                          *)
(* A write burst of master m is named <<m, n>>, n being its position in     *)
(* burst[m], the sequence of bursts m has issued.  Addresses, data and      *)
(* strobes are left out: a burst keeps the slave its address decodes to     *)
(* (Sink when decode() refuses it), its AXI id and its number of beats.     *)
(****************************************************************************)
EXTENDS Integers, Sequences, FiniteSets

CONSTANTS
    NumM,       \* number of upstream masters
    NumS,       \* number of downstream slaves
    Ids,        \* AXI ids the masters use
    Shapes,     \* the bursts they issue: destination, id and number of beats
    MaxBursts,  \* bound: bursts a master issues
    Pool,       \* write tickets of a master (CommonConfig::max_outstanding_writes)
    AwCap       \* depth of the slave's aw_q_

Masters == 0 .. NumM - 1
Slaves  == 0 .. NumS - 1
Sink    == NumS              \* the sentinel target of a burst no slave owns
None    == <<>>

ASSUME BusWriteAssumption ==
    /\ NumM \in Nat \ {0} /\ NumS \in Nat \ {0}
    /\ MaxBursts \in Nat /\ Pool \in Nat \ {0} /\ AwCap \in Nat \ {0}
    /\ Shapes \subseteq [dst : 0 .. NumS, id : Ids, beats : Nat \ {0}]

VARIABLES
    \* --- master: tickets and queues of axi::Master
    burst,          \* burst[m]: the writes issued, in order
    awDone,         \* awDone[m]: AW handshakes of m; aw_queue_ is the rest of burst[m]
    wDone, wBeat,   \* bursts m has streamed, beats of the next one already sent
    idOrder,        \* idOrder[m][i]: unanswered bursts of id i (id_write_order_)
    answered,       \* answered[m]: bursts whose done flag is set
    released,       \* released[m]: tickets given back, oldest first
    \* --- bus
    masterWTargets, \* master_w_targets_
    errAwid,        \* master_err_awid_
    wOrder,         \* w_order_
    writeOrder,     \* write_order_
    errB,           \* err_writes_pending_b_, as <<m, n>>
    awWire,         \* the AW pulse driven at a slave: None or a burst
    bPc,            \* b_drain_master(m): "scan", "drive" or "ack"
    bSrc, bNum,     \* what it drives: the slave (or Sink) and the burst answered
    \* --- slave: queues of axi::Slave
    awQ,            \* aw_q_ with the WriteOp w_thread holds at its head
    received,       \* beats of that WriteOp already written
    commit,         \* the WriteOp w_thread holds after its last beat, or None
    bQ,             \* b_q_ with the response b_thread holds at its head
    bUp,            \* BVALID
    lost            \* history: AW pulses a slave did not take

masterVars == <<burst, awDone, wDone, wBeat, idOrder, answered, released>>
busVars    == <<masterWTargets, errAwid, wOrder, writeOrder, errB, awWire,
                bPc, bSrc, bNum>>
slaveVars  == <<awQ, received, commit, bQ, bUp, lost>>
vars       == <<masterVars, busVars, slaveVars>>

Ref == Masters \X (1 .. MaxBursts)

BurstOf(b) == burst[b[1]][b[2]]

Init ==
    /\ burst    = [m \in Masters |-> <<>>]
    /\ awDone   = [m \in Masters |-> 0]
    /\ wDone    = [m \in Masters |-> 0]
    /\ wBeat    = [m \in Masters |-> 0]
    /\ idOrder  = [m \in Masters |-> [i \in Ids |-> <<>>]]
    /\ answered = [m \in Masters |-> {}]
    /\ released = [m \in Masters |-> 0]
    /\ masterWTargets = [m \in Masters |-> <<>>]
    /\ errAwid    = [m \in Masters |-> <<>>]
    /\ wOrder     = [s \in Slaves |-> <<>>]
    /\ writeOrder = [s \in Slaves |-> <<>>]
    /\ errB       = <<>>
    /\ awWire     = [s \in Slaves |-> None]
    /\ bPc        = [m \in Masters |-> "scan"]
    /\ bSrc       = [m \in Masters |-> Sink]
    /\ bNum       = [m \in Masters |-> 0]
    /\ awQ        = [s \in Slaves |-> <<>>]
    /\ received   = [s \in Slaves |-> 0]
    /\ commit     = [s \in Slaves |-> None]
    /\ bQ         = [s \in Slaves |-> <<>>]
    /\ bUp        = [s \in Slaves |-> FALSE]
    /\ lost       = {}

--------------------------------------------------------------------------------
(* Master *)

\* issue_write: take a ticket (TicketPool::acquire blocks while all are in
\* use), queue the burst for the AW and the W thread and in its id's order.
IssueWrite(m, b) ==
    /\ Len(burst[m]) < MaxBursts
    /\ Len(burst[m]) - released[m] < Pool
    /\ burst'   = [burst EXCEPT ![m] = Append(@, b)]
    /\ idOrder' = [idOrder EXCEPT ![m][b.id] = Append(@, Len(burst[m]) + 1)]
    /\ UNCHANGED <<awDone, wDone, wBeat, answered, released, busVars, slaveVars>>

\* (fault) The ticket is given back without waiting for the response.
ReleaseWriteUnwaited(m) ==
    /\ released' = [released EXCEPT ![m] = @ + 1]
    /\ UNCHANGED <<burst, awDone, wDone, wBeat, idOrder, answered, busVars, slaveVars>>

\* Bound: a burst answered before its data has left (an early DECERR response,
\* see RetireRefused) is not collected.  Its ticket would go to the next issue,
\* which overwrites the slot the W thread has yet to read: not followed further.
Streamed(m) == released[m] < wDone[m]

\* wait_write: the caller collects its oldest burst and frees the ticket.
ReleaseWrite(m) ==
    /\ released[m] + 1 \in answered[m]
    /\ Streamed(m)
    /\ released' = [released EXCEPT ![m] = @ + 1]
    /\ UNCHANGED <<burst, awDone, wDone, wBeat, idOrder, answered, busVars, slaveVars>>

--------------------------------------------------------------------------------
(* Bus: AW channel *)

\* AWVALID of m is up for burst n, the oldest whose AW has not been taken.
AwPending(m) == awDone[m] < Len(burst[m])

\* aw_thread, refused address: the bus takes the AW itself and books the
\* master's W beats for the sink.
AwDecerr(m) ==
    LET n == awDone[m] + 1 IN
    /\ AwPending(m)
    /\ burst[m][n].dst = Sink
    /\ awDone' = [awDone EXCEPT ![m] = n]
    /\ masterWTargets' = [masterWTargets EXCEPT ![m] = Append(@, Sink)]
    /\ errAwid' = [errAwid EXCEPT ![m] = Append(@, n)]
    /\ UNCHANGED <<burst, wDone, wBeat, idOrder, answered, released, wOrder,
                   writeOrder, errB, awWire, bPc, bSrc, bNum, slaveVars>>

\* aw_thread, granted address: pulse AWVALID at the slave and book the burst in
\* the three routing queues.  Which of the requesting masters the arbiter
\* grants is left open.
AwForward(m) ==
    LET n == awDone[m] + 1
        s == burst[m][n].dst
    IN
    /\ AwPending(m)
    /\ s # Sink
    /\ awWire[s] = None
    /\ awDone' = [awDone EXCEPT ![m] = n]
    /\ awWire' = [awWire EXCEPT ![s] = <<m, n>>]
    /\ masterWTargets' = [masterWTargets EXCEPT ![m] = Append(@, s)]
    /\ writeOrder' = [writeOrder EXCEPT ![s] = Append(@, m)]
    /\ wOrder' = [wOrder EXCEPT ![s] = Append(@, m)]
    /\ UNCHANGED <<burst, wDone, wBeat, idOrder, answered, released, errAwid,
                   errB, bPc, bSrc, bNum, slaveVars>>

--------------------------------------------------------------------------------
(* Slave: AW channel *)

\* Entries of the slave's aw_q_: w_thread holds the head, unless it is still
\* committing the one before.
AwQueued(s) ==
    IF commit[s] = None /\ awQ[s] # <<>> THEN Len(awQ[s]) - 1 ELSE Len(awQ[s])

\* (fault) The pulse lasts more than one cycle.
SlaveAwHeld(s) ==
    /\ awWire[s] # None
    /\ IF AwQueued(s) < AwCap
         THEN /\ awQ' = [awQ EXCEPT ![s] = Append(@, awWire[s])]
              /\ UNCHANGED lost
         ELSE /\ lost' = lost \cup {awWire[s]}
              /\ UNCHANGED awQ
    /\ UNCHANGED <<masterVars, masterWTargets, errAwid, wOrder, writeOrder, errB, awWire,
                   bPc, bSrc, bNum, received, commit, bQ, bUp>>

\* Slave::aw_thread at the edge where the pulse is up: latch it if aw_q_ has room.
SlaveAw(s) ==
    /\ awWire[s] # None
    /\ awWire' = [awWire EXCEPT ![s] = None]
    /\ IF AwQueued(s) < AwCap
         THEN /\ awQ' = [awQ EXCEPT ![s] = Append(@, awWire[s])]
              /\ UNCHANGED lost
         ELSE /\ lost' = lost \cup {awWire[s]}
              /\ UNCHANGED awQ
    /\ UNCHANGED <<masterVars, masterWTargets, errAwid, wOrder, writeOrder, errB,
                   bPc, bSrc, bNum, received, commit, bQ, bUp>>

--------------------------------------------------------------------------------
(* W channel *)

\* (fault) The master's own next destination is not looked at.
ServesByOrderOnly(s, m) == wOrder[s] # <<>> /\ Head(wOrder[s]) = m

\* w_forward: slave s is wired to the master at the head of w_order_[s],
\* provided that master's own next burst goes to s.
Serves(s, m) ==
    /\ wOrder[s] # <<>> /\ Head(wOrder[s]) = m
    /\ masterWTargets[m] # <<>> /\ Head(masterWTargets[m]) = s

\* w_forward: m's beats are swallowed by the bus.
SinkServes(m) == masterWTargets[m] # <<>> /\ Head(masterWTargets[m]) = Sink

\* Master::w_thread holds up a beat of the burst after wDone[m].
WValid(m) == wDone[m] < Len(burst[m])

WLast(m) == wBeat[m] + 1 = burst[m][wDone[m] + 1].beats

\* Slave::w_thread is collecting the beats of the head of awQ[s].
WReady(s) == commit[s] = None /\ awQ[s] # <<>>

\* The master's side of a W handshake.
SendBeat(m) ==
    IF WLast(m)
      THEN /\ wDone' = [wDone EXCEPT ![m] = @ + 1]
           /\ wBeat' = [wBeat EXCEPT ![m] = 0]
      ELSE /\ wBeat' = [wBeat EXCEPT ![m] = @ + 1]
           /\ UNCHANGED wDone

\* (fault) The refused burst is retired without a response.
RetireRefusedSilent(m, targets) ==
    IF targets # <<>> /\ Head(targets) = Sink
      THEN /\ masterWTargets' = [masterWTargets EXCEPT ![m] = Tail(targets)]
           /\ UNCHANGED <<errAwid, errB>>
      ELSE /\ masterWTargets' = [masterWTargets EXCEPT ![m] = targets]
           /\ UNCHANGED <<errAwid, errB>>

\* The second loop of w_advance, at an edge with a WLAST handshake of m: if the
\* targets the first loop has left begin with a refused burst, it is retired and
\* its DECERR response booked - on the WLAST of the mapped burst before it, too.
RetireRefused(m, targets) ==
    IF targets # <<>> /\ Head(targets) = Sink
      THEN /\ masterWTargets' = [masterWTargets EXCEPT ![m] = Tail(targets)]
           /\ errAwid' = [errAwid EXCEPT ![m] = Tail(@)]
           /\ errB' = Append(errB, <<m, Head(errAwid[m])>>)
      ELSE /\ masterWTargets' = [masterWTargets EXCEPT ![m] = targets]
           /\ UNCHANGED <<errAwid, errB>>

\* (fault) WLAST does not retire the head of w_order_.
RetireMappedKeepsOrder(m, s) ==
    IF WLast(m)
      THEN /\ UNCHANGED wOrder
           /\ RetireRefused(m, Tail(masterWTargets[m]))
      ELSE UNCHANGED <<wOrder, masterWTargets, errAwid, errB>>

\* w_advance at a beat of m into slave s: WLAST retires the routing heads.
RetireMapped(m, s) ==
    IF WLast(m)
      THEN /\ wOrder' = [wOrder EXCEPT ![s] = Tail(@)]
           /\ RetireRefused(m, Tail(masterWTargets[m]))
      ELSE UNCHANGED <<wOrder, masterWTargets, errAwid, errB>>

\* (fault) The slave's beat count is not reset at the end of a burst.
WTransferKeepsCount(m, s) ==
    LET op  == Head(awQ[s])
        end == WLast(m) \/ received[s] + 1 = BurstOf(op).beats
    IN
    /\ Serves(s, m) /\ WValid(m) /\ WReady(s)
    /\ SendBeat(m)
    /\ RetireMapped(m, s)
    /\ received' = [received EXCEPT ![s] = @ + 1]
    /\ awQ' = IF end THEN [awQ EXCEPT ![s] = Tail(@)] ELSE awQ
    /\ commit' = IF end THEN [commit EXCEPT ![s] = op] ELSE commit
    /\ UNCHANGED <<burst, awDone, idOrder, answered, released, writeOrder, awWire,
                   bPc, bSrc, bNum, bQ, bUp, lost>>

\* A beat goes from m through the bus into slave s.  The slave writes it at the
\* address of the WriteOp it holds and ends that op on WLAST or on its last
\* expected beat.
WTransfer(m, s) ==
    LET op  == Head(awQ[s])
        end == WLast(m) \/ received[s] + 1 = BurstOf(op).beats
    IN
    /\ Serves(s, m)
    /\ WValid(m)
    /\ WReady(s)
    /\ SendBeat(m)
    /\ RetireMapped(m, s)
    /\ received' = [received EXCEPT ![s] = IF end THEN 0 ELSE @ + 1]
    /\ awQ' = IF end THEN [awQ EXCEPT ![s] = Tail(@)] ELSE awQ
    /\ commit' = IF end THEN [commit EXCEPT ![s] = op] ELSE commit
    /\ UNCHANGED <<burst, awDone, idOrder, answered, released, writeOrder, awWire,
                   bPc, bSrc, bNum, bQ, bUp, lost>>

\* A beat of a refused burst is swallowed; WLAST retires the burst.
WSink(m) ==
    /\ SinkServes(m)
    /\ WValid(m)
    /\ SendBeat(m)
    /\ IF WLast(m)
         THEN RetireRefused(m, masterWTargets[m])
         ELSE UNCHANGED <<masterWTargets, errAwid, errB>>
    /\ UNCHANGED <<burst, awDone, idOrder, answered, released, wOrder, writeOrder,
                   awWire, bPc, bSrc, bNum, slaveVars>>

\* Slave::w_thread, once the memory model accepts the write: submit it and
\* queue its response.
SlaveCommit(s) ==
    /\ commit[s] # None
    /\ bQ' = [bQ EXCEPT ![s] = Append(@, commit[s])]
    /\ commit' = [commit EXCEPT ![s] = None]
    /\ UNCHANGED <<masterVars, busVars, awQ, received, bUp, lost>>

--------------------------------------------------------------------------------
(* B channel *)

\* Slave::b_thread, once the memory model completes the oldest write.
SlaveBValid(s) ==
    /\ ~bUp[s]
    /\ bQ[s] # <<>>
    /\ bUp' = [bUp EXCEPT ![s] = TRUE]
    /\ UNCHANGED <<masterVars, busVars, awQ, received, commit, bQ, lost>>

ErrIndices(m) == {k \in 1 .. Len(errB) : errB[k][1] = m}

\* (fault) Any response is taken, whoever's turn it is.
BSourcesAnyTurn(m) == {s \in Slaves : bUp[s] /\ m \in Masters}

\* Slaves whose response b_drain_master(m) may take.
BSources(m) ==
    {s \in Slaves : bUp[s] /\ writeOrder[s] # <<>> /\ Head(writeOrder[s]) = m}

\* The least member of a set of indices, as a set.
First(S) == {x \in S : \A y \in S : x <= y}

\* b_drain_master picks what to answer: its oldest DECERR, else the first slave
\* that answers it.
BPick(m) ==
    /\ bPc[m] = "scan"
    /\ \/ \E k \in First(ErrIndices(m)) :
             /\ bSrc' = [bSrc EXCEPT ![m] = Sink]
             /\ bNum' = [bNum EXCEPT ![m] = errB[k][2]]
       \/ /\ ErrIndices(m) = {}
          /\ \E s \in First(BSources(m)) :
               /\ bSrc' = [bSrc EXCEPT ![m] = s]
               /\ bNum' = [bNum EXCEPT ![m] = Head(bQ[s])[2]]
    /\ bPc' = [bPc EXCEPT ![m] = "drive"]
    /\ UNCHANGED <<masterVars, masterWTargets, errAwid, wOrder, writeOrder, errB,
                   awWire, slaveVars>>

\* The id the response carries: the AWID the bus saved, or the slave's BID.
BId(m) ==
    IF bSrc[m] = Sink THEN burst[m][bNum[m]].id ELSE BurstOf(Head(bQ[bSrc[m]])).id

\* The B handshake at the master: Master::b_thread gives the response to the
\* oldest unanswered burst of that id, and ignores it if there is none.
BDeliver(m) ==
    LET i == BId(m)
        q == idOrder[m][i]
    IN
    /\ bPc[m] = "drive"
    /\ IF q # <<>>
         THEN /\ answered' = [answered EXCEPT ![m] = @ \cup {Head(q)}]
              /\ idOrder' = [idOrder EXCEPT ![m][i] = Tail(@)]
         ELSE UNCHANGED <<answered, idOrder>>
    /\ IF bSrc[m] = Sink
         THEN /\ \E k \in First(ErrIndices(m)) :
                   errB' = [j \in 1 .. Len(errB) - 1 |->
                              IF j < k THEN errB[j] ELSE errB[j + 1]]
              /\ bPc' = [bPc EXCEPT ![m] = "scan"]
         ELSE /\ bPc' = [bPc EXCEPT ![m] = "ack"]
              /\ UNCHANGED errB
    /\ UNCHANGED <<burst, awDone, wDone, wBeat, released, masterWTargets, errAwid,
                   wOrder, writeOrder, awWire, bSrc, bNum, slaveVars>>

\* (fault) The slave drops the response but not BVALID.
BAckHoldsValid(m) ==
    LET s == bSrc[m] IN
    /\ bPc[m] = "ack"
    /\ bQ' = [bQ EXCEPT ![s] = Tail(@)]
    /\ writeOrder' = [writeOrder EXCEPT ![s] = Tail(@)]
    /\ bPc' = [bPc EXCEPT ![m] = "scan"]
    /\ UNCHANGED <<masterVars, masterWTargets, errAwid, wOrder, errB, awWire, bSrc,
                   bNum, awQ, received, commit, bUp, lost>>

\* slave_bready_pulser and the end of b_drain_master: the slave sees BREADY and
\* drops its response, the routing entry is popped.
BAck(m) ==
    LET s == bSrc[m] IN
    /\ bPc[m] = "ack"
    /\ bUp' = [bUp EXCEPT ![s] = FALSE]
    /\ bQ' = [bQ EXCEPT ![s] = Tail(@)]
    /\ writeOrder' = [writeOrder EXCEPT ![s] = Tail(@)]
    /\ bPc' = [bPc EXCEPT ![m] = "scan"]
    /\ UNCHANGED <<masterVars, masterWTargets, errAwid, wOrder, errB, awWire, bSrc,
                   bNum, awQ, received, commit, lost>>

--------------------------------------------------------------------------------
MasterStep(m) == AwDecerr(m) \/ AwForward(m) \/ WSink(m)
                   \/ BPick(m) \/ BDeliver(m) \/ BAck(m) \/ ReleaseWrite(m)

SlaveStep(s) == SlaveAw(s) \/ SlaveCommit(s) \/ SlaveBValid(s)

\* Every step of the bus and the slaves, and of the masters after issue.
Progress ==
    \/ \E m \in Masters : MasterStep(m)
    \/ \E s \in Slaves : SlaveStep(s)
    \/ \E m \in Masters, s \in Slaves : WTransfer(m, s)

Next ==
    \/ \E m \in Masters, b \in Shapes : IssueWrite(m, b)
    \/ Progress

\* Every thread runs at every clock edge and the memory model completes every
\* write, so while some step is possible one is taken.  This is less than the
\* kernel gives each thread, and enough: a burst takes finitely many steps.
Fairness == WF_vars(Progress)

Spec     == Init /\ [][Next]_vars
FairSpec == Spec /\ Fairness

--------------------------------------------------------------------------------
(* Properties *)

\* Type invariant: every queue of the bus, the masters and the slaves holds
\* entries of its kind, and the counters stay within the bursts issued.
TypeOK ==
    /\ burst \in [Masters -> Seq(Shapes)]
    /\ \A m \in Masters : Len(burst[m]) <= MaxBursts
    /\ awDone \in [Masters -> Nat] /\ wDone \in [Masters -> Nat]
    /\ wBeat \in [Masters -> Nat]
    /\ idOrder \in [Masters -> [Ids -> Seq(1 .. MaxBursts)]]
    /\ answered \in [Masters -> SUBSET (1 .. MaxBursts)]
    /\ released \in [Masters -> 0 .. MaxBursts]
    /\ masterWTargets \in [Masters -> Seq(0 .. NumS)]
    /\ errAwid \in [Masters -> Seq(1 .. MaxBursts)]
    /\ wOrder \in [Slaves -> Seq(Masters)]
    /\ writeOrder \in [Slaves -> Seq(Masters)]
    /\ errB \in Seq(Ref)
    /\ awWire \in [Slaves -> Ref \cup {None}]
    /\ bPc \in [Masters -> {"scan", "drive", "ack"}]
    /\ bSrc \in [Masters -> 0 .. NumS]
    /\ bNum \in [Masters -> 0 .. MaxBursts]
    /\ awQ \in [Slaves -> Seq(Ref)]
    /\ received \in [Slaves -> Nat]
    /\ commit \in [Slaves -> Ref \cup {None}]
    /\ bQ \in [Slaves -> Seq(Ref)]
    /\ bUp \in [Slaves -> BOOLEAN]
    /\ lost \in SUBSET Ref

\* The targets of master m retired so far.  The W stream of m is in step while
\* they are those of the bursts it has streamed; retiring a refused burst on the
\* WLAST of the burst before it (RetireRefused) puts it out of step for good.
Retired(m) == awDone[m] - Len(masterWTargets[m])

InStep == \A m \in Masters : Retired(m) = wDone[m]

\* As long as the streams are in step, whenever the bus wires a master's W
\* channel to a slave that is collecting data, the slave holds the AW of the very
\* burst the master is streaming, at the same beat: w_order_, master_w_targets_
\* and the slave's aw_q_, three queues filled at different moments, never pair
\* data with another address.
WBeatsFollowTheirAddress ==
    lost = {} /\ InStep =>
        \A s \in Slaves, m \in Masters :
            Serves(s, m) /\ WReady(s) =>
                /\ Head(awQ[s]) = <<m, wDone[m] + 1>>
                /\ received[s] = wBeat[m]

\* No AW pulse finds the slave without room, so none is lost although the bus
\* never looks at the slave's AWREADY.
NoAwLost == lost = {}

\* The response a master is offered answers the burst it will be credited to:
\* the oldest unanswered burst of that id.
ResponseMatchesBurst ==
    \A m \in Masters :
        bPc[m] = "drive" =>
            LET q == idOrder[m][BId(m)] IN
            /\ q # <<>>
            /\ Head(q) = bNum[m]
            /\ bSrc[m] = burst[m][bNum[m]].dst
            /\ bSrc[m] # Sink => Head(bQ[bSrc[m]]) = <<m, bNum[m]>>

\* Among the bursts whose AW is taken and whose data is not complete, at least
\* one has its W path wired through: the queues of different masters and slaves
\* never wait on each other in a circle.
WPathNeverCircular ==
    (\E m \in Masters : masterWTargets[m] # <<>>) =>
        \E m \in Masters : SinkServes(m) \/ \E s \in Slaves : Serves(s, m)

\* A DECERR response is queued only when all beats of its burst have been
\* swallowed.
DecerrAfterData ==
    \A k \in 1 .. Len(errB) : errB[k][2] <= wDone[errB[k][1]]

\* Every write is answered in the end, unless a stream gets out of step: again and
\* again there comes a time when no write issued so far is unanswered.
EveryWriteAnswered ==
    []<>(InStep => \A m \in Masters : answered[m] = 1 .. Len(burst[m]))

--------------------------------------------------------------------------------
(* The inductive invariant behind TypeOK and WBeatsFollowTheirAddress *)

\* Data never runs ahead of addresses, nor addresses ahead of issue.
CountersOrdered ==
    \A m \in Masters : wDone[m] <= Retired(m) /\ awDone[m] <= Len(burst[m])

\* master_w_targets_ is the destinations of the bursts whose address is taken and
\* whose target has not been retired.
TargetsMatch ==
    \A m \in Masters :
        \A i \in 1 .. Len(masterWTargets[m]) :
            masterWTargets[m][i] = burst[m][Retired(m) + i].dst

\* master_err_awid_ is the refused ones among them, in order.
ErrBooked ==
    \A m \in Masters :
        /\ \A n \in Retired(m) + 1 .. awDone[m] :
             burst[m][n].dst = Sink =>
                \E k \in 1 .. Len(errAwid[m]) : errAwid[m][k] = n
        /\ \A k \in 1 .. Len(errAwid[m]) :
             /\ errAwid[m][k] \in Retired(m) + 1 .. awDone[m]
             /\ burst[m][errAwid[m][k]].dst = Sink
             /\ \A j \in 1 .. Len(errAwid[m]) : j < k => errAwid[m][j] < errAwid[m][k]

\* Every queue entry names a burst that has been issued.
Issued(b) == b \in Ref /\ b[2] <= Len(burst[b[1]])

RefsIssued ==
    /\ \A s \in Slaves :
        /\ awWire[s] # None => Issued(awWire[s])
        /\ commit[s] # None => Issued(commit[s])
        /\ \A k \in 1 .. Len(awQ[s]) : Issued(awQ[s][k])
        /\ \A k \in 1 .. Len(bQ[s]) : Issued(bQ[s][k])
    /\ \A k \in 1 .. Len(errB) : Issued(errB[k])

\* A B response being routed is still up at its slave, whose next turn in
\* write_order_ is the master it goes to.
BRouted ==
    /\ \A s \in Slaves : bUp[s] => bQ[s] # <<>>
    /\ \A m \in Masters :
        /\ bPc[m] = "ack" => bSrc[m] # Sink
        /\ bPc[m] = "drive" /\ bSrc[m] = Sink => bNum[m] \in 1 .. Len(burst[m])
        /\ bPc[m] # "scan" /\ bSrc[m] # Sink =>
             bUp[bSrc[m]] /\ writeOrder[bSrc[m]] # <<>> /\ Head(writeOrder[bSrc[m]]) = m

\* The write requests slave s has been sent and whose data is not complete: its
\* aw_q_, then the pulse on the wire.
PendingLen(s) == Len(awQ[s]) + (IF awWire[s] = None THEN 0 ELSE 1)
Pending(s, k) == IF k <= Len(awQ[s]) THEN awQ[s][k] ELSE awWire[s]

\* Burst b, whose address the bus has taken for slave s, is not complete.
InFlight(b, s) ==
    b[2] \in wDone[b[1]] + 1 .. awDone[b[1]] /\ burst[b[1]][b[2]].dst = s

\* w_order_ is their masters; they are exactly the bursts in flight to s, those of
\* one master in order.
ListsPending(s) ==
    /\ Len(wOrder[s]) = PendingLen(s)
    /\ \A k \in 1 .. PendingLen(s) :
         wOrder[s][k] = Pending(s, k)[1] /\ InFlight(Pending(s, k), s)
    /\ \A j, k \in 1 .. PendingLen(s) :
         j < k /\ Pending(s, j)[1] = Pending(s, k)[1] => Pending(s, j)[2] < Pending(s, k)[2]
    /\ \A b \in Ref : InFlight(b, s) => \E k \in 1 .. PendingLen(s) : Pending(s, k) = b

\* A slave has received beats of the burst at the head of its aw_q_ only, exactly
\* those its master has sent of it; a burst partly sent to s is that head.
CountsBeats(s) ==
    /\ awQ[s] = <<>> => received[s] = 0
    /\ awQ[s] # <<>> =>
         LET b == Head(awQ[s]) IN
         received[s] = IF b[2] = wDone[b[1]] + 1 THEN wBeat[b[1]] ELSE 0
    /\ \A m \in Masters :
         wBeat[m] # 0 /\ burst[m][wDone[m] + 1].dst = s =>
            awQ[s] # <<>> /\ Head(awQ[s]) = <<m, wDone[m] + 1>>

\* Data of a burst is sent only once its address has been taken.
SentAfterAddress == \A m \in Masters : wBeat[m] # 0 => wDone[m] < awDone[m]

\* The routing state is consistent: the conjunction of the five parts above with
\* TypeOK, inductive for every value of the constants (AxiBusWriteProofs).
Routing == TypeOK /\ CountersOrdered /\ TargetsMatch /\ ErrBooked /\ RefsIssued /\ BRouted

Paired == (\A s \in Slaves : ListsPending(s) /\ CountsBeats(s)) /\ SentAfterAddress

\* As long as no AW pulse is lost and the streams are in step, w_order_ and the
\* slave's aw_q_ list the same bursts and the slave has counted the beats the
\* master has sent: what makes WBeatsFollowTheirAddress true of the next beat.
Pairing == lost = {} /\ InStep => Paired

================================================================================
