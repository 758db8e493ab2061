SPECIFICATION Spec
CONSTANTS
    FileSize = 11
    image_size = 10
    Bufs = {0, 1}
    SectorSize = 2
    buf_size = 4
    DiskSize = 14
    WRITE_RETRIES = 3
    WORD = 128
INVARIANTS TypeOK ImageOnDrive NoReadIntoWrittenBuffer NeverReadsPastSource
PROPERTY WriteDriveEnds
