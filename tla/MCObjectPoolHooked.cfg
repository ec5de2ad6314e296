SPECIFICATION FullSpec
CONSTANTS
    Threads = {t1, t2}
    ChunkItems = 2
    BlockItems = 2
    GroupBlocks = 1
    MaxGroups = 2
    NoBlock = NoBlock
    NoObject = NoObject
SYMMETRY Symmetry
INVARIANT HandedOutOnce
