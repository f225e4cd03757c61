SPECIFICATION Spec
CONSTANTS
    p1 = p1
    p2 = p2
    p3 = p3
    Prompts = {p1, p2, p3}
    MaxOtherTurns = 1
    MaxCompactions = 2
    Other = Other
    None = None
INVARIANTS
    InOnePlace
    ParkedHasWakeup
PROPERTIES
    PromptsAreAnswered
