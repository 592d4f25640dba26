---------------------------- MODULE MCMemoryPath ----------------------------
(* Masters, transfers and a memory for the TLC runs of MemoryPath.            *)
EXTENDS MemoryPath

\* The second and third master are equals of lower priority.
ByMaster(s) == [m \in 0 .. 2 |-> s[m + 1]]
MCWeight   == ByMaster(<<2, 1, 1>>)
MCPriority == ByMaster(<<0, 1, 1>>)
MCQos      == ByMaster(<<3, 1, 1>>)
MCWindow   == ByMaster(<<2, 1, 1>>)

\* Over the end of a page from a misaligned address; longer than a burst, from behind the
\* header of an image; in one burst of whole beats.
MCTransfers == ByMaster(<<{[addr |-> 4092, size |-> 90]}, {[addr |-> 32, size |-> 130]},
                          {[addr |-> 16640, size |-> 256]}>>)
=============================================================================
