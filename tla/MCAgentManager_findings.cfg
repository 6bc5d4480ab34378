SPECIFICATION Spec
CONSTANTS
    t1 = t1
    t2 = t2
    t3 = t3
    dev = dev
    qa = qa
    arch = arch
    Nobody = Nobody
    Tasks = {t1, t2}
    Workers = {dev, qa}
    Dependencies <- NoDependencies
    CanDo <- AnyWorker
    Verifiers = {qa}
    Analysts = {qa}
    Capacity <- DevTwo
    MaxParallel = 2
    OwnerTasks = {}
    BoundedRecovery = {}
    FailureClasses = {"transient", "other"}
    RejectedResults = FALSE
    MaxFaults = 2
INVARIANTS
    FindingsAreAnalyses
