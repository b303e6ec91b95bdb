CONSTANTS
    a1 = a1
    a2 = a2
    c1 = c1
    c2 = c2
    p1 = p1
    p2 = p2
    Addr = {a1, a2}
    Core = {c1, c2}
    Prompt = {p1, p2}
    NoPrompt = NoPrompt
    Eligible <- MCEligible
    Capacity = 1
    MaxSteps = 2
    MaxLayers = 2
SPECIFICATION Spec
INVARIANTS
    LaunchFresh
    KnownPromptUsed
    OnePlanPerStep
    CaptureIsReal
SYMMETRY Symmetry
\* The bound on steps is reached, or strict mode stopped the worker.
CHECK_DEADLOCK FALSE
