SPECIFICATION Spec
CONSTANTS
    FileSize = 3
    MaxRead = 2
PROPERTY ReportsBytesTransferred
