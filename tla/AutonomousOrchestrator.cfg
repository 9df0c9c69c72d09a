SPECIFICATION FairSpec
CONSTANTS
  N = 3
  Dependencies <- Waiting
  Worktree <- Shared
  MaxAttempts <- ThirdAgain
  MaxParallel = 2
  MaxFaults = 1
INVARIANTS
  
  JournalIsFollowed
  WorktreeIsExclusive
PROPERTIES
  Settles
CHECK_DEADLOCK FALSE
