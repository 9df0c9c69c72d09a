SPECIFICATION MCSpec
CONSTANTS
    Declarations <- MCDeclarations
    Contexts <- MCContexts
    Leases <- MCLeases
    Tasks <- MCTasks
    Sessions <- MCSessions
    ArtifactIds = {"result"}
    Contents = {"x", "y"}
    Evidence = {"e1"}
    Operations = {"o1"}
    StartIds = {s1}
    PortAnswers = {"accepted", "rejected"}
    Reported = {"succeeded", "failed"}
    CleanupIds = {k1, k2}
    TerminalIds = {t1, t2}
    CommandIds = {1, 2, 3, 4, 5, 6, 7}
    Private = {7}
    Checkpoints = {c1, c2}
    Correlations = {"r1", "r2"}
    Cancellations = {"x1", "x2"}
    Digests = {"x", "y"}
    Deltas = {0, 1}
    EventBudget = 6
    AccountingBudget = 1
    RunMaxTime = 2
    RunLeases <- MCRunLeases
    FirstRunLease <- MCFirstLease
    RunObservations <- MCRunObservations
    LeaseEnd = 3
    QueueLimit = 2
    MaxEvents = 4
    MaxTurns = 2
    TalkMaxTime = 3
    Processes = {k1, k2}
    Checkouts = {t1, t2}
    Names = {c1, c2}
    MaxHead = 2
    MaxUpgrades = 3
    AuditBudget = 3
    None = None
SYMMETRY Symmetry
INVARIANTS RunsMatchTheirProjects  RunsAreControlled LayoutsAreWhole
PROPERTIES EndsAreFinal RegistrationsStay
CHECK_DEADLOCK FALSE
