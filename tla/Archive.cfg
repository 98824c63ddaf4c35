CONSTANTS
    None = None
    Up = Up
    SourceName = SourceName
    Sources <- Trees
    Steps = 9
    Runs = 3
    Edits = 1
SPECIFICATION Spec
CHECK_DEADLOCK FALSE
INVARIANTS
    RoundTrip
    Extractable
    FailureLeavesNothing
