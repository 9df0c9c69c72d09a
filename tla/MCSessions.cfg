SPECIFICATION MCSpec
CONSTANTS
    None = None
    Leases <- MCLeases
    Commands <- MCCommands
    Executable = "python"
    Helpers = {"helper"}
    Names = {"LANG"}
    Timeout = 2
    MaxTime = 4
    MaxPids = 4
    Forks <- MCForks
    Offered = {"stream"}
    MaxEvents = 3
    Oversized = {}
    MaxFailures = 1
INVARIANTS  RunsAreAlone
PROPERTIES CommandsEnd
CHECK_DEADLOCK FALSE
