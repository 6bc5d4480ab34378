SPECIFICATION Spec
CONSTANTS
    Tasks = {1, 2, 3, 4}
    Dependencies <- MCDependencies
    Authority <- MCAuthority
    MissionAuthority = 2
    MaxAuthority = 2
    MaxAttempts = 2
    MaxParallel = 1
    Timeout = 1
    Deadline = 2
    Conditions = {"local_node_offline"}
    Needs <- MCNeeds
    Failures = {"transient", "persistent"}
    Commands <- MCCommands
    MaxEvents = 1
    MaxClock = 2
INVARIANTS
    LeasesWithinLimit
    WorkIsAllowed
    ClaimsAreTrue
PROPERTIES
    AttemptsDoNotOverlap
CHECK_DEADLOCK FALSE
