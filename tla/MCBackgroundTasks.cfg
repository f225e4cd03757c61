SPECIFICATION Spec
CONSTANTS
    t1 = t1
    t2 = t2
    Tasks = {t1}
    Callers = {"tool", "deadline", "exit"}
    MaxPrompts = 1
    MaxUndos = 1
    MaxLosses = 2
    None = None
INVARIANTS
    ToldOnce
    EndIsTold
    ReportedSurvives
PROPERTIES
    StopsAreAnswered
