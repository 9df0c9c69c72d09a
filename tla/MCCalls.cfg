SPECIFICATION MCSpec
CONSTANTS
    Jobs = {1, 2, 3}
    JobSpec <- MCJobSpec
    Contractors = {1, 2}
    Workers = {"w"}
    WorkerOf <- MCWorkerOf
    MaxConcurrency = 2
    Profiles <- MCProfiles
    Openers = {"p1", "p2"}
    None = None
    Tasks = {t}
    Revisions = {1, 2}
    Transport <- MCTransport
    MaxAttempts = 2
    CallBudget = 3
INVARIANTS  GrantsAreDecided
PROPERTIES ImplementsLifecycle 
CHECK_DEADLOCK FALSE
