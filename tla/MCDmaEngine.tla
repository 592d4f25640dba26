----------------------------- MODULE MCDmaEngine -----------------------------
(* Channels for the TLC runs of DmaEngine.                                   *)
EXTENDS DmaEngine

\* A read channel whose FIFO is wider than the pool of tickets, and a write channel
\* whose FIFO is narrower; each is used by one thread at a time, as read_thread uses
\* the read channel.
OneUser ==
    {[isRead |-> TRUE, fifo |-> 4, pool |-> 2, sameThread |-> TRUE],
     [isRead |-> FALSE, fifo |-> 2, pool |-> 3, sameThread |-> TRUE]}

\* The write channel, used by the write-back of one layer (wdma_issue_thread) and by
\* the tiles of the next (read_thread).
TwoUsers == {[isRead |-> FALSE, fifo |-> 2, pool |-> 2, sameThread |-> FALSE]}
==============================================================================
