SPECIFICATION Spec
CONSTANTS
    a1 = a1
    a2 = a2
    t1 = t1
    t2 = t2
    NoAgent = NoAgent
    Null = Null
    Components <- TwoComponents
    Agents <- TwoAgents
    TaskIds <- TwoTasks
    MaxText = 7
    MaxRules = 3
    MaxDepth = 2
    MaxId = 5
INVARIANTS
    FramingIgnoresCuts
    LongestPathRoutes
    WalksAreComplete
    OutcomesFitAnswers
    MigrationSurvivesCrashes
    ArtifactsAreWhole
CHECK_DEADLOCK FALSE
