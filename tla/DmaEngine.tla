------------------------------ MODULE DmaEngine ------------------------------
(****************************************************************************)
(* One DMA channel of the NPU (src/src/systemc/dma/dma_engine.h): the       *)
(* 4-phase start/done handshake with its requester, the engine's            *)
(* transfer_thread, which keeps a window of bursts in flight, and the       *)
(* persistent pipeline (pipe_read_issue, pipe_write_issue) of the tiled     *)
(* executor, which uses the same AXI master and its pool of tickets         *)
(* (bus/axi/master/axi_ticket_pool.h).                                      *)
(*                                                                          *)
(* Threads are coroutines: a thread keeps running until it must wait (cpu,  *)
(* Turn).  A burst is a pair <<user, position>>; addresses, data and the GB *)
(* offset are left out.  All bursts of a channel have one AXI id, so they   *)
(* are answered in issue order.                                             *)
(****************************************************************************)
EXTENDS Integers, Sequences, FiniteSets

CONSTANTS
    Channels,   \* the channels to check, each with the way it is used
    MaxLen,     \* bound: bursts of a transfer
    MaxJobs     \* bound: transfers, of the requester and of the pipeline each

\* isRead: the read channel, or the write channel;
\* fifo: outstanding_window, bursts the FIFO and the issuing limit allow;
\* pool: tickets of the AXI master, caps().max_outstanding_{reads,writes};
\* sameThread: the pipeline's user and the requester are one thread.
Channel == [isRead : BOOLEAN, fifo : Nat \ {0}, pool : Nat \ {0}, sameThread : BOOLEAN]

ASSUME DmaAssumption ==
    /\ Channels \subseteq Channel
    /\ MaxLen \in Nat \ {0} /\ MaxJobs \in Nat

NoBurst == <<>>

VARIABLES
    chan,       \* the channel
    cpu,        \* the thread that ran last: "requester", "engine", "pipe", "bus" or "none"
    \* --- requester (trigger_rdma, wdma_issue_thread)
    rPc,        \* "idle", "posted", "sampling" or "dropping"
    rJobs,      \* transfers it has requested
    start, done, len,   \* signals: start, done, transfer_size (in bursts)
    \* --- transfer_thread
    ePc,        \* "idle", "setup", "run" or "acked"
    eLen, eNext,        \* the burst plan: its length and the next burst
    inFlight,   \* in_flight
    carried,    \* bursts written to the GB, or gathered from it for a write
    \* --- pipeline
    pPc,        \* "idle", "issue", "hold" or "flush"
    pJobs, pLeft,       \* its transfers, bursts of the current one still to issue
    pipe,       \* rd_pipe_ or wr_pipe_
    \* --- AXI master
    slot,       \* slot[k]: the burst that holds ticket k, or NoBurst
    order,      \* tickets issued and not answered, oldest first
    answered    \* tickets whose done flag is set

reqVars  == <<rPc, rJobs, start, len>>
engVars  == <<ePc, done, eLen, eNext, inFlight, carried>>
pipeVars == <<pPc, pJobs, pLeft, pipe>>
axiVars  == <<slot, order, answered>>
vars     == <<chan, cpu, reqVars, engVars, pipeVars, axiVars>>

Slots == 0 .. chan.pool - 1

Init ==
    /\ chan \in Channels
    /\ cpu = "none"
    /\ rPc = "idle" /\ rJobs = 0 /\ start = FALSE /\ done = FALSE /\ len = 0
    /\ ePc = "idle" /\ eLen = 0 /\ eNext = 1 /\ inFlight = <<>> /\ carried = <<>>
    /\ pPc = "idle" /\ pJobs = 0 /\ pLeft = 0 /\ pipe = <<>>
    /\ slot = [k \in Slots |-> NoBurst] /\ order = <<>> /\ answered = {}

--------------------------------------------------------------------------------
(* The AXI master's tickets *)

FreeSlots == {k \in Slots : slot[k] = NoBurst}

\* (fault) The FIFO alone bounds the window.
WindowOfFifo == chan.fifo

\* read_window, write_window: never more than the pool holds.
Window == IF chan.fifo > chan.pool THEN chan.pool ELSE chan.fifo

Full(q)     == Len(q) >= Window
CanIssue(q) == ~Full(q) /\ FreeSlots # {}
CanDrain(q) == q # <<>> /\ Head(q) \in answered

\* (fault) acquire() does not look at whether the ticket is in use.
IssueAnyTicket(b, q) ==
    LET k == CHOOSE x \in Slots : \A y \in Slots : x <= y IN
    /\ slot' = [slot EXCEPT ![k] = b]
    /\ order' = Append(order, k)
    /\ q' = Append(q, k)
    /\ UNCHANGED answered

\* issue_read, issue_write: acquire the first free ticket (it blocks while there
\* is none) and send the burst; q is the issuer's in-flight queue.
Issue(b, q) ==
    LET k == CHOOSE x \in FreeSlots : \A y \in FreeSlots : x <= y IN
    /\ FreeSlots # {}
    /\ slot' = [slot EXCEPT ![k] = b]
    /\ order' = Append(order, k)
    /\ q' = Append(q, k)
    /\ UNCHANGED answered

\* (fault) The ticket is not released.
DrainLeaks(q) ==
    /\ CanDrain(q)
    /\ q' = Tail(q)
    /\ answered' = answered \ {Head(q)}
    /\ UNCHANGED <<slot, order>>

\* wait_read, wait_write on the oldest ticket of q, then release it.
Drain(q) ==
    /\ CanDrain(q)
    /\ q' = Tail(q)
    /\ slot' = [slot EXCEPT ![Head(q)] = NoBurst]
    /\ answered' = answered \ {Head(q)}
    /\ UNCHANGED order

--------------------------------------------------------------------------------
(* Which thread runs *)

\* (fault) The loop over the plan runs once too often.
MoreByOne == eNext <= eLen + 1

\* The plan of transfer_thread has bursts left; the next one, of a write, has not
\* been gathered from the GB.
More       == eNext <= eLen
MustGather == ~chan.isRead /\ More /\ Len(carried) < eNext

EngineRunnable ==
    /\ ePc = "run"
    /\ \/ MustGather
       \/ More /\ CanIssue(inFlight)
       \/ (~More \/ Full(inFlight)) /\ CanDrain(inFlight)
       \/ ~More /\ inFlight = <<>>

PipeRunnable ==
    \/ pPc = "issue" /\ (pLeft = 0 \/ CanIssue(pipe) \/ (Full(pipe) /\ CanDrain(pipe)))
    \/ pPc = "flush" /\ (pipe = <<>> \/ CanDrain(pipe))

\* Thread t runs: no other is between two of its waits.
Turn(t) ==
    /\ cpu = "engine" /\ EngineRunnable => t = "engine"
    /\ cpu = "pipe" /\ PipeRunnable => t = "pipe"
    /\ cpu' = t
    /\ UNCHANGED chan

--------------------------------------------------------------------------------
(* Requester *)

\* Phase 1: raise start.  A done that is still up is taken for the answer.
RequesterPost ==
    /\ Turn("requester")
    /\ rPc = "idle" /\ rJobs < MaxJobs
    /\ chan.sameThread => pPc = "idle"
    /\ rJobs' = rJobs + 1
    /\ len' \in 1 .. MaxLen
    /\ start' = ~done
    /\ rPc' = IF done THEN "dropping" ELSE "posted"
    /\ UNCHANGED <<engVars, pipeVars, axiVars>>

\* Phase 2: done has risen; wait one cycle.
RequesterSeesDone ==
    /\ Turn("requester")
    /\ rPc = "posted" /\ done
    /\ rPc' = "sampling"
    /\ UNCHANGED <<rJobs, start, len, engVars, pipeVars, axiVars>>

\* (fault) The requester does not wait for done to fall.
RequesterDropsStartOnly ==
    /\ Turn("requester")
    /\ rPc = "sampling"
    /\ start' = FALSE
    /\ rPc' = "idle"
    /\ UNCHANGED <<rJobs, len, engVars, pipeVars, axiVars>>

\* Phase 3: lower start; phase 4: wait for done to fall, unless it has.
RequesterDropsStart ==
    /\ Turn("requester")
    /\ rPc = "sampling"
    /\ start' = FALSE
    /\ rPc' = IF done THEN "dropping" ELSE "idle"
    /\ UNCHANGED <<rJobs, len, engVars, pipeVars, axiVars>>

RequesterReturns ==
    /\ Turn("requester")
    /\ rPc = "dropping" /\ ~done
    /\ rPc' = "idle"
    /\ UNCHANGED <<rJobs, start, len, engVars, pipeVars, axiVars>>

--------------------------------------------------------------------------------
(* transfer_thread *)

EngineStart ==
    /\ Turn("engine")
    /\ ePc = "idle" /\ start
    /\ done' = FALSE
    /\ ePc' = "setup"
    /\ UNCHANGED <<reqVars, eLen, eNext, inFlight, carried, pipeVars, axiVars>>

\* (fault) The position in the plan is not reset.
EnginePlanKeepsPlace ==
    /\ Turn("engine")
    /\ ePc = "setup"
    /\ eLen' = len /\ carried' = <<>>
    /\ ePc' = "run"
    /\ UNCHANGED <<reqVars, done, eNext, inFlight, pipeVars, axiVars>>

\* One cycle later: read the command and plan its bursts.
EnginePlan ==
    /\ Turn("engine")
    /\ ePc = "setup"
    /\ eLen' = len /\ eNext' = 1 /\ carried' = <<>>
    /\ ePc' = "run"
    /\ UNCHANGED <<reqVars, done, inFlight, pipeVars, axiVars>>

\* A write takes its payload from the GB before it looks at the window.
EngineGather ==
    /\ Turn("engine")
    /\ ePc = "run" /\ MustGather
    /\ carried' = Append(carried, eNext)
    /\ UNCHANGED <<reqVars, ePc, done, eLen, eNext, inFlight, pipeVars, axiVars>>

EngineIssue ==
    /\ Turn("engine")
    /\ ePc = "run" /\ More /\ ~MustGather
    /\ ~Full(inFlight)
    /\ Issue(<<"engine", eNext>>, inFlight)
    /\ eNext' = eNext + 1
    /\ UNCHANGED <<reqVars, ePc, done, eLen, carried, pipeVars>>

\* (fault) The data is copied to the place of the burst issued last.
EngineDrainNewest ==
    /\ Turn("engine")
    /\ ePc = "run" /\ ~MustGather
    /\ ~More \/ Full(inFlight)
    /\ CanDrain(inFlight)
    /\ carried' = IF chan.isRead THEN Append(carried, eNext - 1) ELSE carried
    /\ Drain(inFlight)
    /\ UNCHANGED <<reqVars, ePc, done, eLen, eNext, pipeVars>>

\* drain_head: a full window before the next burst, every burst at the end.  A
\* read copies the answer to the GB.
EngineDrain ==
    /\ Turn("engine")
    /\ ePc = "run" /\ ~MustGather
    /\ ~More \/ Full(inFlight)
    /\ CanDrain(inFlight)
    /\ carried' = IF chan.isRead THEN Append(carried, slot[Head(inFlight)][2]) ELSE carried
    /\ Drain(inFlight)
    /\ UNCHANGED <<reqVars, ePc, done, eLen, eNext, pipeVars>>

\* (fault) The bursts still in flight are not waited for.
EngineDoneEarly ==
    /\ Turn("engine")
    /\ ePc = "run" /\ ~More
    /\ done' = TRUE
    /\ ePc' = "acked"
    /\ UNCHANGED <<reqVars, eLen, eNext, inFlight, carried, pipeVars, axiVars>>

EngineDone ==
    /\ Turn("engine")
    /\ ePc = "run" /\ ~More /\ inFlight = <<>>
    /\ done' = TRUE
    /\ ePc' = "acked"
    /\ UNCHANGED <<reqVars, eLen, eNext, inFlight, carried, pipeVars, axiVars>>

EngineDropsDone ==
    /\ Turn("engine")
    /\ ePc = "acked" /\ ~start
    /\ done' = FALSE
    /\ ePc' = "idle"
    /\ UNCHANGED <<reqVars, eLen, eNext, inFlight, carried, pipeVars, axiVars>>

--------------------------------------------------------------------------------
(* Persistent pipeline: run_tiled_layer issues any number of transfers, then flushes *)

PipeCall ==
    /\ Turn("pipe")
    /\ pPc \in {"idle", "hold"} /\ pJobs < MaxJobs
    /\ chan.sameThread => rPc = "idle"
    /\ pJobs' = pJobs + 1
    /\ pLeft' \in 1 .. MaxLen
    /\ pPc' = "issue"
    /\ UNCHANGED <<reqVars, engVars, pipe, axiVars>>

PipeIssue ==
    /\ Turn("pipe")
    /\ pPc = "issue" /\ pLeft > 0
    /\ ~Full(pipe)
    /\ Issue(<<"pipe", pLeft>>, pipe)
    /\ pLeft' = pLeft - 1
    /\ UNCHANGED <<reqVars, engVars, pPc, pJobs>>

\* pipe_drain_head, pipe_wdrain_head.
PipeDrain ==
    /\ Turn("pipe")
    /\ \/ pPc = "issue" /\ pLeft > 0 /\ Full(pipe)
       \/ pPc = "flush"
    /\ Drain(pipe)
    /\ UNCHANGED <<reqVars, engVars, pPc, pJobs, pLeft>>

PipeReturn ==
    /\ Turn("pipe")
    /\ \/ pPc = "issue" /\ pLeft = 0 /\ pPc' = "hold"
       \/ pPc = "flush" /\ pipe = <<>> /\ pPc' = "idle"
    /\ UNCHANGED <<reqVars, engVars, pJobs, pLeft, pipe, axiVars>>

\* pipe_read_flush, pipe_write_flush at the end of the layer.
PipeFlush ==
    /\ Turn("pipe")
    /\ pPc = "hold"
    /\ pPc' = "flush"
    /\ UNCHANGED <<reqVars, engVars, pJobs, pLeft, pipe, axiVars>>

--------------------------------------------------------------------------------
\* The oldest burst is answered.
BusAnswer ==
    /\ Turn("bus")
    /\ order # <<>>
    /\ answered' = answered \cup {Head(order)}
    /\ order' = Tail(order)
    /\ UNCHANGED <<reqVars, engVars, pipeVars, slot>>

Progress ==
    \/ RequesterSeesDone \/ RequesterDropsStart \/ RequesterReturns
    \/ EngineStart \/ EnginePlan \/ EngineGather \/ EngineIssue \/ EngineDrain
    \/ EngineDone \/ EngineDropsDone
    \/ PipeIssue \/ PipeDrain \/ PipeReturn \/ PipeFlush
    \/ BusAnswer

\* All transfers are over.
Quiet ==
    /\ rJobs = MaxJobs /\ rPc = "idle" /\ pJobs = MaxJobs /\ pPc = "idle"
    /\ UNCHANGED vars

Next == RequesterPost \/ PipeCall \/ Progress \/ Quiet

\* While a thread or the bus can take a step, one does: the clock runs and the
\* memory answers every burst.
Fairness == WF_vars(Progress)

Spec     == Init /\ [][Next]_vars
FairSpec == Spec /\ Fairness

--------------------------------------------------------------------------------
(* Properties *)

\* Type invariant.
TypeOK ==
    /\ chan \in Channels
    /\ cpu \in {"none", "requester", "engine", "pipe", "bus"}
    /\ rPc \in {"idle", "posted", "sampling", "dropping"}
    /\ rJobs \in 0 .. MaxJobs /\ pJobs \in 0 .. MaxJobs
    /\ start \in BOOLEAN /\ done \in BOOLEAN
    /\ len \in 0 .. MaxLen /\ eLen \in 0 .. MaxLen /\ eNext \in 1 .. MaxLen + 1
    /\ ePc \in {"idle", "setup", "run", "acked"}
    /\ pPc \in {"idle", "issue", "hold", "flush"}
    /\ pLeft \in 0 .. MaxLen
    /\ inFlight \in Seq(Slots) /\ pipe \in Seq(Slots) /\ order \in Seq(Slots)
    /\ carried \in Seq(1 .. MaxLen)
    /\ slot \in [Slots -> ({"engine", "pipe"} \X (1 .. MaxLen)) \cup {NoBurst}]
    /\ answered \subseteq Slots

\* A thread whose window has room finds a ticket: acquire() never blocks inside
\* issue, where the thread could not drain.  This is what the cap on the window
\* is for.
AcquireNeverBlocks ==
    /\ ePc = "run" /\ More /\ ~Full(inFlight) => FreeSlots # {}
    /\ pPc = "issue" /\ pLeft > 0 /\ ~Full(pipe) => FreeSlots # {}

\* Tickets are never leaked or given twice: those in use are exactly the ones in
\* an in-flight queue, each in one place, and each is answered or on the bus.
TicketsAccountedFor ==
    LET held == inFlight \o pipe IN
    /\ {held[k] : k \in DOMAIN held} = Slots \ FreeSlots
    /\ Len(held) = Cardinality(Slots \ FreeSlots)
    /\ {order[k] : k \in DOMAIN order} \cup answered = Slots \ FreeSlots
    /\ Len(order) + Cardinality(answered) = Len(held)

\* A requester that has seen done finds its own transfer complete: done of an
\* earlier transfer is never taken for it.
DoneMeansCarried ==
    rPc \in {"sampling", "dropping"} =>
        eLen = len /\ Len(carried) = len /\ inFlight = <<>>

\* The channel carries each transfer's bursts in address order and completes it.
Abstract == INSTANCE DmaChannel WITH
    phase   <- IF rPc = "idle" THEN "idle" ELSE "busy",
    size    <- len,
    carried <- IF rPc = "posted" /\ ePc \in {"idle", "setup"} THEN <<>> ELSE carried
CarriesInOrder == Abstract!FairSpec

\* A transfer that was requested is completed.
TransfersComplete == (rPc = "posted") ~> (rPc = "idle")
================================================================================
