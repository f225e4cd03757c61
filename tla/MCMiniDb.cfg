SPECIFICATION Spec
CONSTANTS
    s1 = s1
    s2 = s2
    d = d
    t = t
    a = a
    b = b
    Writes = {s1, s2, d}
    Deletes = {d}
    Keys = {a}
    Key <- MCKey
    ManualCompaction = FALSE
    MaxCompactions = 1
    MaxFailures = 2
    MaxCrashes = 1
    None = None
INVARIANTS
    AckedSurvives
    LiveIsAcked
PROPERTIES
    WritesAreAnswered
