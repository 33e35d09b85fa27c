SPECIFICATION MCSpec
CONSTANTS
    b = b
    c1 = c1
    c2 = c2
    q = q
    s = s
    g1 = g1
    g2 = g2
    NoValue = NoValue
    Unsealed = Unsealed
    Baseline <- b
    Evaluation <- MCEvaluation
    Metric <- MCMetric
    Guarded <- MCGuarded
    Quality <- q
    Required <- MCRequired
    Allowed <- MCAllowed
    StageSeq <- MCStageSeq
    GateGroups = 2
    EvaluationGroups = 2
    MinReports = 2
    MaxReports = 2
    MaxPoints = 4
    Subject <- MCSubject
    Problem <- MCProblem
    Checkpoint <- MCCheckpoint
    BaselineCheckpoint <- MCBaselineCheckpoint
    Suite <- MCSuite
    Workload <- MCWorkload
    StoredSize <- MCStoredSize
    MaxProposals = 1
    MaxRevision = 4
    Id = {1, 2, 3}
CONSTRAINT OneChain
CHECK_DEADLOCK FALSE
INVARIANTS
    PromotionsAreEarned
    FrontIsRight
    EvolutionIsSound
    ExperienceIsHonest
PROPERTIES
    CanaryIsHonest
    PlanIsExact
