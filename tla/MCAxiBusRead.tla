----------------------------- MODULE MCAxiBusRead -----------------------------
(* TLC instances of AxiBusRead: the reads the masters issue.                 *)
EXTENDS AxiBusRead

\* Each id is used for one destination: id 0 for slave 0, id 1 for slave 1,
\* id 2 for an unmapped address (the sink of a two-slave bus).
OneDestinationPerId ==
    {[dst |-> 0, id |-> 0, beats |-> 2], [dst |-> 1, id |-> 1, beats |-> 1],
     [dst |-> 2, id |-> 2, beats |-> 2]}

\* Single beats towards slave 0 and the sink of a one-slave bus: with one beat a
\* refused read can go unanswered and hold its ticket.
OneSlave == {[dst |-> 0, id |-> 0, beats |-> 1], [dst |-> 1, id |-> 1, beats |-> 1]}

\* Reads of slave 0 alone.
MappedOnly == {[dst |-> 0, id |-> 0, beats |-> 1]}
================================================================================
