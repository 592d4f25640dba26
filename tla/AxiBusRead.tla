------------------------------ MODULE AxiBusRead ------------------------------
(****************************************************************************)
(* The read half of the NumM x NumS AXI interconnect                        *)
(* (src/src/systemc/bus/axi/bus/axi_bus.h) with the masters' AR and R       *)
(* threads and the slaves' AR and R threads and memory port.                *)
(*                                                                          *)
(* The R channel is combinational: r_forward copies a slave's R outputs to  *)
(* a master when one of its inputs changes or route_changed_ is notified,   *)
(* and the values it left on the wires (mOut, sReady) are what both sides   *)
(* sample at the next clock edge.  So the R channel is modelled edge by     *)
(* edge: ClockEdge is everything the edge does to R at once, what else      *)
(* happens in that cycle (the AR threads, a slave raising RVALID, the       *)
(* memory model completing a read) comes before or after it, and Settle is  *)
(* the delta cycle in which r_forward runs if anything triggered it.        *)
(*                                                                          *)
(* A read of master m is named <<m, n>>, n being its position in reads[m];  *)
(* a beat is [m, n, k, last], k its number.  The AR pulse at a slave is a   *)
(* wire of its own (arWire), since the bus does not look at ARREADY.        *)
(****************************************************************************)
EXTENDS Integers, Sequences, FiniteSets

CONSTANTS
    NumM,      \* number of upstream masters
    NumS,      \* number of downstream slaves
    Ids,       \* AXI ids the masters use
    Shapes,    \* the reads they issue: destination, id and number of beats
    MaxReads,  \* bound: reads a master issues
    Pool,      \* read tickets of a master (CommonConfig::max_outstanding_reads)
    MemCap,    \* reads the memory model holds before will_accept() is false
    RdCap      \* depth of the slave's rd_q_

Masters == 0 .. NumM - 1
Slaves  == 0 .. NumS - 1
Sink    == NumS              \* destination of a read decode() refuses
None    == <<>>

ASSUME BusReadAssumption ==
    /\ NumM \in Nat \ {0} /\ NumS \in Nat \ {0}
    /\ MaxReads \in Nat /\ Pool \in Nat \ {0}
    /\ MemCap \in Nat \ {0} /\ RdCap \in Nat \ {0}
    /\ Shapes \subseteq [dst : 0 .. NumS, id : Ids, beats : Nat \ {0}]

VARIABLES
    \* --- master
    reads,      \* reads[m]: the reads issued, in order
    arDone,     \* arDone[m]: AR handshakes of m; ar_queue_ is the rest of reads[m]
    idOrder,    \* idOrder[m][i]: unanswered reads of id i (id_read_order_)
    got,        \* got[m][n]: the beats pushed into the slot of read n
    answered,   \* answered[m]: reads whose done flag is set
    released,   \* released[m]: tickets given back, oldest first
    \* --- bus
    readOrder,  \* read_order_
    errReads,   \* errReads[m]: the entries of err_reads_ for m, as [n, left]
    arWire,     \* the AR pulse driven at a slave: None or a read
    mOut,       \* R outputs towards a master as r_forward left them
    sReady,     \* RREADY towards a slave as r_forward left it
    trigger,    \* an input of r_forward has changed since it last ran
    settling,   \* between a clock edge and the delta cycles it causes
    \* --- slave
    rdQ,        \* rd_q_ with the ReadOp r_thread holds at its head
    inMem,      \* reads the memory model has not completed
    sOut,       \* R outputs of the slave: None or a beat
    lost        \* history: AR pulses a slave did not take

masterVars == <<reads, arDone, idOrder, got, answered, released>>
wireVars   == <<mOut, sReady, settling>>
slaveVars  == <<rdQ, inMem, sOut, lost>>
vars       == <<masterVars, readOrder, errReads, arWire, wireVars, trigger, slaveVars>>

Beat(m, n, k) == [m |-> m, n |-> n, k |-> k, last |-> k = reads[m][n].beats]

Ref   == Masters \X (1 .. MaxReads)
Beats == [m : Masters, n : 1 .. MaxReads, k : Nat \ {0}, last : BOOLEAN]

Init ==
    /\ reads    = [m \in Masters |-> <<>>]
    /\ arDone   = [m \in Masters |-> 0]
    /\ idOrder  = [m \in Masters |-> [i \in Ids |-> <<>>]]
    /\ got      = [m \in Masters |-> [n \in 1 .. MaxReads |-> <<>>]]
    /\ answered = [m \in Masters |-> {}]
    /\ released = [m \in Masters |-> 0]
    /\ readOrder = [s \in Slaves |-> <<>>]
    /\ errReads  = [m \in Masters |-> <<>>]
    /\ arWire    = [s \in Slaves |-> None]
    /\ mOut      = [m \in Masters |-> None]
    /\ sReady    = [s \in Slaves |-> FALSE]
    /\ trigger   = FALSE
    /\ settling  = FALSE
    /\ rdQ       = [s \in Slaves |-> <<>>]
    /\ inMem     = [s \in Slaves |-> {}]
    /\ sOut      = [s \in Slaves |-> None]
    /\ lost      = {}

--------------------------------------------------------------------------------
(* AR channel *)

\* issue_read: take a ticket (TicketPool::acquire blocks while all are in use),
\* queue the read for the AR thread and in its id's order.
IssueRead(m, r) ==
    /\ Len(reads[m]) < MaxReads
    /\ Len(reads[m]) - released[m] < Pool
    /\ reads'   = [reads EXCEPT ![m] = Append(@, r)]
    /\ idOrder' = [idOrder EXCEPT ![m][r.id] = Append(@, Len(reads[m]) + 1)]
    /\ UNCHANGED <<arDone, got, answered, released, readOrder, errReads, arWire,
                   wireVars, trigger, slaveVars>>

\* (fault) The ticket is given back without waiting for the data.
ReleaseReadUnwaited(m) ==
    /\ released' = [released EXCEPT ![m] = @ + 1]
    /\ UNCHANGED <<reads, arDone, idOrder, got, answered, readOrder, errReads,
                   arWire, wireVars, trigger, slaveVars>>

\* wait_read: the caller collects its oldest read and frees the ticket.
ReleaseRead(m) ==
    /\ released[m] + 1 \in answered[m]
    /\ released' = [released EXCEPT ![m] = @ + 1]
    /\ UNCHANGED <<reads, arDone, idOrder, got, answered, readOrder, errReads,
                   arWire, wireVars, trigger, slaveVars>>

ArPending(m) == arDone[m] < Len(reads[m])

\* ar_thread, refused address: take the AR and queue the beats to synthesize.
\* Unlike a slave's signals, the queue does not wake r_forward.
ArDecerr(m) ==
    LET n == arDone[m] + 1 IN
    /\ ArPending(m)
    /\ reads[m][n].dst = Sink
    /\ arDone' = [arDone EXCEPT ![m] = n]
    /\ errReads' = [errReads EXCEPT ![m] = Append(@, [n |-> n, left |-> reads[m][n].beats])]
    /\ UNCHANGED <<reads, idOrder, got, answered, released, readOrder, arWire,
                   wireVars, trigger, slaveVars>>

\* ar_thread, granted address: pulse ARVALID at the slave and book the read for
\* the response.  Which of the requesting masters is granted is left open.
ArForward(m) ==
    LET n == arDone[m] + 1
        s == reads[m][n].dst
    IN
    /\ ArPending(m)
    /\ s # Sink
    /\ arWire[s] = None
    /\ arDone' = [arDone EXCEPT ![m] = n]
    /\ arWire' = [arWire EXCEPT ![s] = <<m, n>>]
    /\ readOrder' = [readOrder EXCEPT ![s] = Append(@, m)]
    /\ UNCHANGED <<reads, idOrder, got, answered, released, errReads, wireVars,
                   trigger, slaveVars>>

\* Slave::ar_thread's ready: the memory model accepts and rd_q_ has room
\* (r_thread holds the head of rdQ outside the queue).
SlaveAccepts(s) ==
    /\ Cardinality(inMem[s]) < MemCap
    /\ Len(rdQ[s]) - 1 < RdCap

\* (fault) The pulse lasts more than one cycle.
SlaveArHeld(s) ==
    /\ arWire[s] # None
    /\ IF SlaveAccepts(s)
         THEN /\ rdQ' = [rdQ EXCEPT ![s] = Append(@, arWire[s])]
              /\ inMem' = [inMem EXCEPT ![s] = @ \cup {arWire[s]}]
              /\ UNCHANGED lost
         ELSE /\ lost' = lost \cup {arWire[s]}
              /\ UNCHANGED <<rdQ, inMem>>
    /\ UNCHANGED <<masterVars, readOrder, errReads, arWire, wireVars, trigger, sOut>>

\* Slave::ar_thread at the edge where the pulse is up: submit and queue the
\* read, or miss it.
SlaveAr(s) ==
    /\ arWire[s] # None
    /\ arWire' = [arWire EXCEPT ![s] = None]
    /\ IF SlaveAccepts(s)
         THEN /\ rdQ' = [rdQ EXCEPT ![s] = Append(@, arWire[s])]
              /\ inMem' = [inMem EXCEPT ![s] = @ \cup {arWire[s]}]
              /\ UNCHANGED lost
         ELSE /\ lost' = lost \cup {arWire[s]}
              /\ UNCHANGED <<rdQ, inMem>>
    /\ UNCHANGED <<masterVars, readOrder, errReads, wireVars, trigger, sOut>>

--------------------------------------------------------------------------------
(* R channel *)

\* mem_tick: the memory model completes a read, in any order.
MemComplete(s, r) ==
    /\ r \in inMem[s]
    /\ inMem' = [inMem EXCEPT ![s] = @ \ {r}]
    /\ UNCHANGED <<masterVars, readOrder, errReads, arWire, wireVars, trigger, rdQ,
                   sOut, lost>>

\* (fault) r_forward is not sensitive to RVALID.
SlaveRValidUnseen(s) ==
    /\ settling
    /\ sOut[s] = None
    /\ rdQ[s] # <<>>
    /\ Head(rdQ[s]) \notin inMem[s]
    /\ sOut' = [sOut EXCEPT ![s] = Beat(Head(rdQ[s])[1], Head(rdQ[s])[2], 1)]
    /\ UNCHANGED <<masterVars, readOrder, errReads, arWire, wireVars, trigger, rdQ,
                   inMem, lost>>

\* Slave::r_thread raises RVALID with the first beat of its oldest read.
SlaveRValid(s) ==
    /\ settling
    /\ sOut[s] = None
    /\ rdQ[s] # <<>>
    /\ Head(rdQ[s]) \notin inMem[s]
    /\ sOut' = [sOut EXCEPT ![s] = Beat(Head(rdQ[s])[1], Head(rdQ[s])[2], 1)]
    /\ trigger' = TRUE
    /\ UNCHANGED <<masterVars, readOrder, errReads, arWire, wireVars, rdQ, inMem, lost>>

\* (fault) The slave does not wait for RREADY.
TakenUnready(s) == sOut[s] # None

\* The beat a slave hands over at this edge, and whether it is its burst's last.
Taken(s)   == sOut[s] # None /\ sReady[s]
Retires(s) == Taken(s) /\ sOut[s].last

\* RID: a beat carries the id of the read it was made for.
Rid(b) == reads[b.m][b.n].id

\* The read that Master::r_thread credits with the beat on its wires: the oldest
\* unanswered one with the beat's id.
Credited(m) == idOrder[m][Rid(mOut[m])]
Receives(m) == mOut[m] # None /\ Credited(m) # <<>>

\* r_advance on err_reads_: every master's RREADY is tied high, so the front
\* entry of each master loses a beat at every edge, driven or not.
ErrReadsAfter(q) ==
    IF q = <<>> THEN <<>>
    ELSE IF Head(q).left = 1 THEN Tail(q)
    ELSE [q EXCEPT ![1].left = @ - 1]

\* One clock edge: the masters sample their R inputs, the slaves their RREADY,
\* and r_advance retires what was handed over.
ClockEdge ==
    /\ ~settling
    /\ settling' = TRUE
    /\ got' = [m \in Masters |->
                 IF Receives(m)
                   THEN [got[m] EXCEPT ![Head(Credited(m))] = Append(@, mOut[m])]
                   ELSE got[m]]
    /\ answered' = [m \in Masters |->
                 IF Receives(m) /\ mOut[m].last
                   THEN answered[m] \cup {Head(Credited(m))} ELSE answered[m]]
    /\ idOrder' = [m \in Masters |->
                 IF Receives(m) /\ mOut[m].last
                   THEN [idOrder[m] EXCEPT ![Rid(mOut[m])] = Tail(@)]
                   ELSE idOrder[m]]
    /\ sOut' = [s \in Slaves |->
                 IF Retires(s) THEN None
                 ELSE IF Taken(s) THEN Beat(sOut[s].m, sOut[s].n, sOut[s].k + 1)
                 ELSE sOut[s]]
    /\ rdQ' = [s \in Slaves |-> IF Retires(s) THEN Tail(rdQ[s]) ELSE rdQ[s]]
    /\ readOrder' = [s \in Slaves |->
                 IF Retires(s) /\ readOrder[s] # <<>>
                   THEN Tail(readOrder[s]) ELSE readOrder[s]]
    /\ errReads' = [m \in Masters |-> ErrReadsAfter(errReads[m])]
    /\ trigger' = \/ trigger
                  \/ \E m \in Masters : errReads[m] # <<>>
                  \/ \E s \in Slaves : Taken(s)
    /\ UNCHANGED <<reads, arDone, released, arWire, mOut, sReady, inMem, lost>>

\* r_forward, towards master m: its oldest DECERR beat, else the outputs of the
\* first slave whose next response is for m.
First(S)     == CHOOSE x \in S : \A y \in S : x <= y
SourcesOf(m) == {s \in Slaves : readOrder[s] # <<>> /\ Head(readOrder[s]) = m}

ErrBeat(m) ==
    LET e == Head(errReads[m]) IN Beat(m, e.n, reads[m][e.n].beats - e.left + 1)

ForwardTo(m) ==
    IF errReads[m] # <<>> THEN ErrBeat(m)
      ELSE IF SourcesOf(m) # {} THEN sOut[First(SourcesOf(m))] ELSE None

\* (fault) The slave sees RREADY although its master is shown a DECERR beat.
ConsumedDespiteDecerr(s) ==
    \E m \in Masters : /\ SourcesOf(m) # {} /\ First(SourcesOf(m)) = s
                       /\ sOut[s] # None

Consumed(s) ==
    \E m \in Masters : /\ errReads[m] = <<>>
                       /\ SourcesOf(m) # {} /\ First(SourcesOf(m)) = s
                       /\ sOut[s] # None

\* The delta cycle after an edge: r_forward runs only if something woke it.
Settle ==
    /\ settling
    /\ settling' = FALSE
    /\ trigger' = FALSE
    /\ IF trigger
         THEN /\ mOut' = [m \in Masters |-> ForwardTo(m)]
              /\ sReady' = [s \in Slaves |-> Consumed(s)]
         ELSE UNCHANGED <<mOut, sReady>>
    /\ UNCHANGED <<masterVars, readOrder, errReads, arWire, slaveVars>>

--------------------------------------------------------------------------------
ArStep(m) == ArDecerr(m) \/ ArForward(m)

MemStep(s) == \E r \in inMem[s] : MemComplete(s, r)

Next ==
    \/ \E m \in Masters, r \in Shapes : IssueRead(m, r)
    \/ \E m \in Masters : ArStep(m) \/ ReleaseRead(m)
    \/ \E s \in Slaves : SlaveAr(s) \/ MemStep(s) \/ SlaveRValid(s)
    \/ ClockEdge
    \/ Settle

\* The clock keeps running, every thread runs at its edges and the memory model
\* completes every read.
Fairness ==
    /\ WF_vars(ClockEdge) /\ WF_vars(Settle)
    /\ \A m \in Masters : WF_vars(ArStep(m)) /\ WF_vars(ReleaseRead(m))
    /\ \A s \in Slaves : WF_vars(SlaveAr(s)) /\ WF_vars(MemStep(s)) /\ SF_vars(SlaveRValid(s))

Spec     == Init /\ [][Next]_vars
FairSpec == Spec /\ Fairness

--------------------------------------------------------------------------------
(* Properties *)

\* Type invariant: queues, wires and slots hold entries of their kind.
TypeOK ==
    /\ reads \in [Masters -> Seq(Shapes)]
    /\ arDone \in [Masters -> Nat]
    /\ idOrder \in [Masters -> [Ids -> Seq(1 .. MaxReads)]]
    /\ got \in [Masters -> [1 .. MaxReads -> Seq(Beats)]]
    /\ answered \in [Masters -> SUBSET (1 .. MaxReads)]
    /\ released \in [Masters -> 0 .. MaxReads]
    /\ readOrder \in [Slaves -> Seq(Masters)]
    /\ errReads \in [Masters -> Seq([n : 1 .. MaxReads, left : Nat \ {0}])]
    /\ arWire \in [Slaves -> Ref \cup {None}]
    /\ mOut \in [Masters -> Beats \cup {None}]
    /\ sReady \in [Slaves -> BOOLEAN]
    /\ trigger \in BOOLEAN /\ settling \in BOOLEAN
    /\ rdQ \in [Slaves -> Seq(Ref)]
    /\ inMem \in [Slaves -> SUBSET Ref]
    /\ sOut \in [Slaves -> Beats \cup {None}]
    /\ lost \in SUBSET Ref

\* What the slot of a read has received is a prefix of that read's own beats,
\* all of them once the read is done, whatever the other masters, slaves and
\* refused reads do.  (Of a refused read only the owner of the beats is claimed.)
SlotsHoldTheirOwnBeats ==
    \A m \in Masters : \A n \in 1 .. Len(reads[m]) :
        IF reads[m][n].dst = Sink
          THEN \A j \in DOMAIN got[m][n] : got[m][n][j].m = m /\ got[m][n][j].n = n
          ELSE /\ \A j \in DOMAIN got[m][n] : got[m][n][j] = Beat(m, n, j)
               /\ n \in answered[m] => Len(got[m][n]) = reads[m][n].beats

\* When the wires have settled, a slave sees RREADY exactly when the master at
\* the head of its read_order_ is shown its current beat: no beat is dropped by
\* the slave unseen, none is shown to a master and kept by the slave, although
\* r_forward only runs when something wakes it.
BeatsCrossOnce ==
    ~settling =>
        \A s \in Slaves :
            sReady[s] <=> /\ sOut[s] # None
                          /\ readOrder[s] # <<>>
                          /\ mOut[Head(readOrder[s])] = sOut[s]

\* No AR pulse finds the slave without room.
NoArLost == lost = {}

\* A refused read leaves err_reads_ only once its master has been answered.
DecerrIsAnswered ==
    \A m \in Masters : \A n \in 1 .. arDone[m] :
        \/ reads[m][n].dst # Sink
        \/ n \in answered[m]
        \/ \E k \in DOMAIN errReads[m] : errReads[m][k].n = n

\* Every read of a mapped address is answered in the end, also while refused
\* reads take the master's R channel: again and again none issued so far is open.
MappedReadAnswered ==
    []<>(\A m \in Masters : \A n \in 1 .. Len(reads[m]) :
            reads[m][n].dst = Sink \/ n \in answered[m])
================================================================================
