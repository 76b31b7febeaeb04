SPECIFICATION Spec
CONSTANTS
    W = 6
    Data = {1, 2}
    LastCell = 3
INVARIANTS
    TypeOK
    LiveBytesStored
    PopsReturnWhatWasPushed
PROPERTIES
    WrongWordIsReported
