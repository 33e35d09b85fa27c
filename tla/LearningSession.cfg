SPECIFICATION Spec
CONSTANTS
    s1 = s1
    s2 = s2
    a1 = a1
    a2 = a2
    high = high
    c1 = c1
    c2 = c2
    Session <- MCSession
    Aperture <- MCAperture
    Outcome <- MCOutcome
    PlanSteps <- MCPlanSteps
    NextAperture <- MCNextAperture
    Client <- MCClient
    MaxRuns = 1
    MaxDeaths = 2
    None = None
CHECK_DEADLOCK FALSE
SYMMETRY Symmetry
INVARIANTS
    SessionsAreSound
    AnswersStayTrue
