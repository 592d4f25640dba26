\* A packet group in the middle of the network.
SPECIFICATION FairSpec
CONSTANT Setups <- PairThenPlain
INVARIANT ReadWaitsForCompute
