SPECIFICATION Spec
CONSTANTS
    Tasks = {1, 2, 3, 4}
    Dependencies <- MCDependencies
    Authority <- MCAuthority
    MissionAuthority = 4
    MaxAuthority = 2
    MaxAttempts = 2
    MaxParallel = 1
    Timeout = 1
    Deadline = 2
    Conditions = {"local_node_offline"}
    Needs <- MCNeeds
    Failures = {"transient", "persistent", "fatal"}
    Commands = {}
    MaxEvents = 1
    MaxClock = 2
INVARIANTS
    OwnerMissionsWait
CHECK_DEADLOCK FALSE
