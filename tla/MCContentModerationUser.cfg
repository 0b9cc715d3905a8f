SPECIFICATION Spec
CONSTANTS
    question = question
    answer = answer
    None = None
    Surface <- PairSurface
    Input <- PairInput
    MaxFaults = 0
    MaxCrashes = 0
PROPERTIES
    BlockedUserMessageStays
CHECK_DEADLOCK FALSE
