SPECIFICATION FairSpec
CONSTANTS
    t1 = t1
    t2 = t2
    t3 = t3
    dev = dev
    qa = qa
    arch = arch
    Nobody = Nobody
    Tasks = {t1, t2}
    Workers = {dev, qa}
    Dependencies <- NoDependencies
    CanDo <- AnyWorker
    Verifiers = {qa}
    Analysts = {qa}
    Capacity <- DevTwo
    MaxParallel = 2
    OwnerTasks = {t2}
    BoundedRecovery = {}
    FailureClasses = {"other"}
    RejectedResults = TRUE
    MaxFaults = 1
PROPERTIES
    ManagerKeepsRunning
