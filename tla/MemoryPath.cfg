\* Three masters with transfers of one or two bursts, under each policy that needs no tier.
SPECIFICATION Spec
CONSTANTS
    NumMasters = 3
    Policies = {"RoundRobin", "WeightedRR", "FixedPriority"}
    Weight <- MCWeight
    Priority <- MCPriority
    Qos <- MCQos
    Window <- MCWindow
    Transfers <- MCTransfers
    BytesPerBeat = 64
    MaxBeats = 4
    Banks = 4
    LineBytes = 4096
    HitCycles = 1
    MissCycles = 2
INVARIANTS BurstsCoverTransfer EqualsTakeTurns
PROPERTIES EveryTransferCompletes
