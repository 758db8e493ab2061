SPECIFICATION Spec
CONSTANTS
    p1 = p1
    p2 = p2
    A = A
    B = B
    Pids = {p1, p2}
    Writers = {p1}
    Drives = {A, B}
    MAX_BLOCKING_PROCESSES = 2
    WORD = 8
    MaxPass = 2
    MaxSelect = 2
    MaxChange = 1
    DRIVE_ACCESS_RETRIES = 2
INVARIANT WritersAreDetected
CHECK_DEADLOCK FALSE
