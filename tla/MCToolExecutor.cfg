SPECIFICATION ExecutorSpec
CONSTANTS
    N = 3
    Segment <- MCSegment
    CaseFold <- MCCaseFold
    Path <- MCPath
    DeclaredAccesses <- MCDeclaredAccesses
INVARIANTS
    BodiesNeverRace
    SkippedNeverRuns
    NothingLeftBehind
PROPERTIES
    AbortTerminates
