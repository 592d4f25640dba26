\* Every short program of ten rows, two API layers, or a built-in network.
SPECIFICATION Spec
CONSTANTS
    Rows <- SomeRows
    MaxRows = 3
    Hardware <- TwoMachines
    DramWords = 1024
    PlainLayers <- Plain
    Geometries <- Geometric
    Mappings <- SomeMappings
    Tiles <- SomeTiles
    MaxLayers = 2
    BlobSizes = {16}
    Networks = {"test", "single", "vgg16", "mobilenet_v1", "mobilenet_v2", "resnet18"}
    NetConfigs <- SmallInput
    PeChoices <- SomePes
    TypeOverrides <- OnePe
    IndexOverrides <- FirstPe
INVARIANTS LoadedIsTheProgram ConsumerReadsItsProducer RegionsApart AggregateIsTheSum PeBudgetKept TilesCoverOutput
\* A behaviour ends once its image is loaded or refused.
CHECK_DEADLOCK FALSE
