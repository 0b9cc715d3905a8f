SPECIFICATION FileSpec
CONSTANTS
    None = None
    File = {f1}
    Worker = {w1, w2}
    MaxRetries = 1
    MaxFaults = 3
INVARIANTS
    FileTypeOK
    NoFileLost
    OneMessagePerFile
PROPERTIES
    KeepsPromise
    MessagesEnd
CHECK_DEADLOCK FALSE
