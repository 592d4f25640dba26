\* One master whose only reads are refused.
SPECIFICATION Spec
CONSTANTS
    NumM = 1
    NumS = 1
    Ids = {0, 1}
    Shapes <- OneSlave
    MaxReads = 1
    Pool = 1
    MemCap = 4
    RdCap = 4
INVARIANT DecerrIsAnswered
