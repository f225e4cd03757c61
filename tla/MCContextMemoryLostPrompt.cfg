SPECIFICATION Spec
CONSTANTS
    MaxPrompts = 2
    MaxNotes = 1
    MaxSteps = 3
    MaxCalls = 2
    MaxCompactions = 1
    Failures <- MCCrash
    None = None
INVARIANTS
    RequestsShowPrompts
CHECK_DEADLOCK FALSE
