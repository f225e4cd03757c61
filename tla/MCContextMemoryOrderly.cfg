SPECIFICATION Spec
CONSTANTS
    MaxPrompts = 3
    MaxNotes = 1
    MaxSteps = 2
    MaxCalls = 1
    MaxCompactions = 1
    Failures <- MCNoFailure
    None = None
INVARIANTS
    RequestsShowPrompts
PROPERTIES
    OnlyOldIsCompacted
    UndoRestoresPreTurn
CHECK_DEADLOCK FALSE
