\* Two masters, two slaves and an unmapped region.  A stream that gets out of step
\* may stop for good, hence no deadlock check: EveryWriteAnswered says when writes
\* must go on.
SPECIFICATION MCSpec
CONSTANTS
    NumM = 2
    NumS = 2
    Ids = {0, 1, 2}
    Shapes <- OneDestinationPerId
    MaxBursts = 3
    Pool = 2
    AwCap = 3
CHECK_DEADLOCK FALSE
INVARIANTS TypeOK WBeatsFollowTheirAddress NoAwLost ResponseMatchesBurst WPathNeverCircular Routing Pairing
PROPERTY EveryWriteAnswered
