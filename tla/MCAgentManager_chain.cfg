SPECIFICATION FairSpec
CONSTANTS
    t1 = t1
    t2 = t2
    t3 = t3
    dev = dev
    qa = qa
    arch = arch
    Nobody = Nobody
    Tasks = {t1, t2, t3}
    Workers = {dev, qa, arch}
    Dependencies <- Chain
    CanDo <- AnyWorker
    Verifiers = {qa, arch}
    Analysts = {arch}
    Capacity <- CapacityOne
    MaxParallel = 2
    OwnerTasks = {t3}
    BoundedRecovery = {t1}
    FailureClasses = {"transient", "specialized"}
    RejectedResults = FALSE
    MaxFaults = 1
INVARIANTS
    DependenciesFirst
PROPERTIES
    EveryTaskSettles
