SPECIFICATION Spec
CONSTANTS
    N = 4
    Segment <- MCSegment
    CaseFold <- MCCaseFold
    Path <- MCPath
    DeclaredAccesses <- MCDeclaredAccesses
INVARIANTS
    NoRace
    QueueHasCause
PROPERTIES
    AllSettle
    ImplementsOrderedExclusion
