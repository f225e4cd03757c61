SPECIFICATION Spec
CONSTANTS
    MaxPrompts = 2
    MaxNotes = 1
    MaxSteps = 3
    MaxCalls = 2
    MaxCompactions = 1
    Failures <- MCListener
    None = None
PROPERTIES
    UndoRestoresPreTurn
CHECK_DEADLOCK FALSE
