\* Every setup under which the pipeline completes its run.
SPECIFICATION FairSpec
CONSTANT Setups <- Sound
INVARIANTS TypeOK ComputeUsesOwnOperands ReadWaitsForCompute NoHandOverLost AllDoneMeansAllWritten
PROPERTY RunCompletes
