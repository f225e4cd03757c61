SPECIFICATION Spec
CONSTANTS
    prompt = prompt
    nextPrompt = nextPrompt
    notice = notice
    steer = steer
    handoff = handoff
    continuation = continuation
    Requests = {prompt, nextPrompt, steer, continuation}
    Admission <- MCAdmission
    Mergeable <- MCMergeable
    TurnScoped <- MCTurnScoped
    Seeded <- MCSeeded
    Continuation <- MCContinuation
    Handoff <- MCHandoff
    MaxSteps = 0
    MaxRetries = 0
    Waiters = {}
    None = None
INVARIANTS
    TypeOK
    TurnsConsistent
    PendingIsQueued
    NothingOutlivesItsTurn
PROPERTIES
    CancelledNeverMaterializes
    StartsInOrder
