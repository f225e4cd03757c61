SPECIFICATION Spec
CONSTANTS
    prompt = prompt
    nextPrompt = nextPrompt
    notice = notice
    steer = steer
    handoff = handoff
    continuation = continuation
    Requests = {prompt, notice, handoff}
    Admission <- MCAdmission
    Mergeable <- MCMergeable
    TurnScoped <- MCTurnScoped
    Seeded <- MCSeeded
    Continuation <- MCContinuation
    Handoff <- MCHandoff
    MaxSteps = 1
    MaxRetries = 1
    Waiters = {w1}
    None = None
INVARIANTS
    StepLimit
    NoLostWakeup
    QuiescenceExcludesTurns
PROPERTIES
    TurnsEnd
    WaitersResume
    DisposeSettles
