SPECIFICATION Spec
CONSTANTS
    SectorSize = 4
    StreamSize = 15
    MaxCount = 9
INVARIANTS TypeOK NothingLost WholeSectorsOnly ImageComplete
