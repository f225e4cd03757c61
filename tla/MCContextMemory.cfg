SPECIFICATION Spec
CONSTANTS
    MaxPrompts = 2
    MaxNotes = 1
    MaxSteps = 2
    MaxCalls = 2
    MaxCompactions = 1
    Failures <- MCEveryFailure
    None = None
INVARIANTS
    TypeOK
    RequestsAreFaithful
    ParkedBehindOpenCalls
CHECK_DEADLOCK FALSE
