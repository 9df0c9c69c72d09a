SPECIFICATION MCSpec
CONSTANTS
  JobCount = 3
  Workers = {"w1"}
  DispatchIds = {1}
  Dependencies <- Waits
  Priority <- Urgency
  Tenant <- OneTenant
  Needs <- Unit
  MaxAttempts <- Tries
  Deadline <- DueAtOne
  Capacity = 2
  MaxConcurrency = 2
  MaxQueued = 1
  LeaseSeconds = 2
  AgingQuantum = 1
  TenantLimit <- OneEach
  MaxNow = 3
  MaxJobs = 2
  NoTime = 9
  FairDependencies <- FairWaits
  FairPriority <- FairUrgency
  FairTenant <- OneTenant
  FairProject <- OneTenant
  FairNeeds <- AllOfSecond
  FairMaxAttempts <- FairTries
  RetryBudget <- FairRetries
  Backoff <- Unit
  FairDeadline <- DueAtOne
  Eligible <- OnFirst
  AgentCount = 1
  AgentCapacity <- ThreeUnits
  AgentSlots <- TwoSlots
  AgentQuota <- TwoSlots
  FairCapacity = 3
  FairMaxConcurrency = 2
  MaxActive = 2
  TenantQuota <- TwoEach
  ProjectQuota <- TwoEach
  MaxLate = 0
INVARIANTS ResourcesAreAccounted
PROPERTIES CheckpointsGoForward NobodyIsOvertakenLong KernelsKeepTheLifecycle
CHECK_DEADLOCK FALSE
