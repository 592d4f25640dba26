\* Two masters, two slaves and an unmapped region; the slaves always have room.
SPECIFICATION FairSpec
CONSTANTS
    NumM = 2
    NumS = 2
    Ids = {0, 1, 2}
    Shapes <- OneDestinationPerId
    MaxReads = 2
    Pool = 2
    MemCap = 4
    RdCap = 4
INVARIANTS TypeOK SlotsHoldTheirOwnBeats BeatsCrossOnce NoArLost
PROPERTY MappedReadAnswered
