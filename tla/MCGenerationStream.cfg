SPECIFICATION MCSpec
CONSTANTS
    e1 = e1
    n1 = n1
    None = None
    Execution = {e1, e2}
    Node = {n1, n2}
    MaxFaults = 1
INVARIANTS
    GenerationTypeOK
    EventsOfOneExecution
    OneRunner
PROPERTIES
    LeaseKept
    EndsStand
    RunsEnd
CONSTRAINT MCBound
CHECK_DEADLOCK FALSE
