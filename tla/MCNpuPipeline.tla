---------------------------- MODULE MCNpuPipeline ----------------------------
(* Networks and configurations for the TLC runs of NpuPipeline.              *)
EXTENDS NpuPipeline

Plain(n, w, f) == [path |-> "plain", chunks |-> n, writes |-> w, fits |-> f]
Other(p)       == [path |-> p, chunks |-> 1, writes |-> <<TRUE>>, fits |-> FALSE]

\* Groups of one function: tiled, fused, and plain with and without a DRAM write.
Single == {Other("tiled"), Other("fused")}
            \cup {Plain(n, <<w>>, FALSE) : n \in 1 .. 3, w \in BOOLEAN}

\* Packet groups of two and three functions; all but the last hand their output on
\* inside the group.
Paired == {Plain(n, <<FALSE, w>>, FALSE) : n \in 1 .. 2, w \in BOOLEAN}
            \cup {Plain(2, <<FALSE, FALSE, TRUE>>, FALSE)}

\* Every network of up to three groups whose packet groups are followed by tiled
\* or fused groups only.
UpToThree ==
    LET Seqs(n) == [1 .. n -> Single \cup Paired] IN
    {s \in Seqs(1) \cup Seqs(2) \cup Seqs(3) :
        \A i, j \in DOMAIN s :
            i < j /\ s[i] \in Paired => s[j].path # "plain"}

\* Up to four plain layers that fit in the buffer beside each other; all but the
\* last keep their output in the buffer.
KeptUpToFour ==
    LET Kept(n) == Plain(n, <<FALSE>>, TRUE)
        Last(w) == Plain(2, <<w>>, FALSE)
    IN  {Append(s, Last(w)) : s \in {[i \in 1 .. k |-> Kept(c[i])] :
                                       k \in 1 .. 3, c \in [1 .. 3 -> 1 .. 3]},
                              w \in BOOLEAN}

\* One plain group.
OneGroup == {<<g>> : g \in {x \in Single \cup Paired : x.path = "plain"}}

\* Every network of UpToThree whose last group alone may be plain.
PlainAtTheEnd ==
    {n \in UpToThree : \A i \in DOMAIN n : n[i].path = "plain" => i = Len(n)}

On(layers, double, suppress, capacity, prefetch, starts) ==
    [net |-> layers, doubleBuffer |-> double, suppress |-> suppress,
     capacity |-> capacity, prefetch |-> prefetch, starts |-> starts]

\* The setups that complete: single-buffered; double-buffered when the layers that
\* overlap the next have nothing to write; under peak_bw, a single group.  A network
\* with nothing behind a plain group completes when it is started again, too.
Sound == {On(n, FALSE, FALSE, 0, 2, 1) : n \in UpToThree}
           \cup {On(n, TRUE, FALSE, 0, 2, 1) : n \in KeptUpToFour}
           \cup {On(n, FALSE, TRUE, 0, 2, 1) : n \in OneGroup}
           \cup {On(n, FALSE, FALSE, 0, 2, 2) : n \in PlainAtTheEnd}
           \cup {On(n, FALSE, TRUE, 0, 2, 2) : n \in OneGroup}

\* double_buffer "on", as in the MIDAP configurations: two plain layers, the second
\* of which fits in the buffer beside the output of the first.
TwoThatFit == {On(<<Plain(1, <<TRUE>>, TRUE), Plain(1, <<TRUE>>, FALSE)>>, TRUE, FALSE, 0, 1, 1)}

\* A packet group of two functions followed by a plain layer.
PairThenPlain ==
    {On(<<Plain(1, <<FALSE, TRUE>>, FALSE), Plain(1, <<TRUE>>, FALSE)>>, FALSE, FALSE, 0, 1, 1)}

\* A plain layer followed by a tiled one, started twice.
PlainThenTiled == {On(<<Plain(1, <<TRUE>>, FALSE), Other("tiled")>>, FALSE, FALSE, 0, 1, 2)}

\* Two plain layers, started twice.
TwoPlain ==
    {On(<<Plain(1, <<TRUE>>, FALSE), Plain(1, <<TRUE>>, FALSE)>>, FALSE, FALSE, 0, 1, 2)}

\* One plain layer of three chunks in a region that holds two.
LayerLargerThanRegion == {On(<<Plain(3, <<TRUE>>, FALSE)>>, FALSE, FALSE, 2, 1, 1)}
==============================================================================
