---------------------------- MODULE MCAxiBusWrite ----------------------------
(* TLC instances of AxiBusWrite: the destinations each AXI id is used for,  *)
(* and which master issues what.                                            *)
EXTENDS AxiBusWrite

\* Each id is used for one destination: id 0 for slave 0 with two-beat bursts,
\* id 1 for slave 1, id 2 for an unmapped address (the sink of a two-slave bus).
OneDestinationPerId ==
    {[dst |-> 0, id |-> 0, beats |-> 2], [dst |-> 1, id |-> 1, beats |-> 1],
     [dst |-> 2, id |-> 2, beats |-> 2]}

\* One id for slave 0 and for an unmapped address, as the DMA, whose bursts all
\* have id 0, may use it.
SharedId ==
    {[dst |-> 0, id |-> 0, beats |-> 1], [dst |-> 1, id |-> 0, beats |-> 1]}

\* Bound: master 0 issues bursts of every shape, the others two mapped ones each.
\* With two masters of two tickets, that is more bursts than a slave has room for.
MayIssue(m, b) == m = 0 \/ (b.dst # Sink /\ Len(burst[m]) < 2)

MCNext ==
    \/ \E m \in Masters, b \in Shapes : MayIssue(m, b) /\ IssueWrite(m, b)
    \/ Progress

MCSpec == Init /\ [][MCNext]_vars /\ Fairness
==============================================================================
