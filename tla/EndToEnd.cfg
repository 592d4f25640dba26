\* Every program of three of six rows, three API layers, or a generated network,
\* run once or twice on each of four machines.
SPECIFICATION SystemSpec
CONSTANTS
    Rows <- SomeRows
    MaxRows = 3
    Hardware <- TwoMachines
    DramWords = 2048
    PlainLayers <- Plain
    Geometries <- NothingSet
    Mappings <- NothingSet
    Tiles <- TwoTiles
    MaxLayers = 3
    BlobSizes <- NothingSet
    Networks = {"single", "test"}
    NetConfigs <- SmallInput
    PeChoices <- NothingSet
    TypeOverrides <- NothingSet
    IndexOverrides <- NothingSet
    Machines <- SomeMachines
    MaxRuns = 2
    DnnBase = 1048576
INVARIANTS SystemTypeOK ForwardedIsLatest NothingOverflows RunsReadAlike TiledLayersAreComplete EmissionsWithinWidth CompilerForeseesTraffic
\* A behaviour ends once its image is refused, its last run is over or compute is ahead.
CHECK_DEADLOCK FALSE
