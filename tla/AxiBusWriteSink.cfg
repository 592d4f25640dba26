\* One master writes to a slave and to an address no slave owns.
SPECIFICATION Spec
CONSTANTS
    NumM = 1
    NumS = 1
    Ids = {0}
    Shapes <- SharedId
    MaxBursts = 2
    Pool = 2
    AwCap = 2
INVARIANT DecerrAfterData
