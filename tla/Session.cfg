SPECIFICATION Spec
CONSTANTS
    Devices = {d1, d2}
    MaxOps = 2
    MaxScans = 1
    MaxEvents = 1
INVARIANTS TypeOK OperationIsAlone ToldWhatHappened FormatsWhatWasConfirmed
PROPERTY ControlsComeBack
