SPECIFICATION Spec
CONSTANTS
    FileSize = 4
    MaxRead = 2
    Bufs = {b1, b2}
PROPERTIES ImplementsPromise ReportedDataIsInBuffer
