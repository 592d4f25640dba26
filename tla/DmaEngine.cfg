\* A read and a write channel, each with one user at a time.
SPECIFICATION FairSpec
CONSTANTS
    Channels <- OneUser
    MaxLen = 4
    MaxJobs = 2
INVARIANTS TypeOK AcquireNeverBlocks TicketsAccountedFor DoneMeansCarried
PROPERTY CarriesInOrder
