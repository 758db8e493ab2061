SPECIFICATION Spec
CONSTANTS
    last_block = 5
    BLOCKS_AT_ONCE = 2
    nb_passes = 2
    TLCPasses = {2}
    ListSizes = {2}
    MaxBB = 4
    MaxFaults = 2
INVARIANTS
    TypeOK
    CountsAgree
    BadBlocksFound
    GoodBlocksSpared
PROPERTY CheckProgresses
