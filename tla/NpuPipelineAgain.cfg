\* Two plain layers, started twice.
SPECIFICATION FairSpec
CONSTANT Setups <- TwoPlain
INVARIANT AllDoneMeansAllWritten
