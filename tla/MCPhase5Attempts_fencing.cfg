SPECIFICATION AttemptsSpec
SYMMETRY Interchangeable
CONSTANTS
    s1 = s1
    s2 = s2
    prod = prod
    ver = ver
    d1 = d1
    d2 = d2
    l1 = l1
    l2 = l2
    e1 = e1
    e2 = e2
    NoAttempt = NoAttempt
    NoResult = NoResult
    NoManifest = NoManifest
    CrossDomain <- OnlyS1
    Workers = {prod, ver}
    Domains = {d1, d2}
    Leases = {l1, l2}
    Sources = {"src"}
    Evidence = {e1, e2}
    Specs = {s1, s2}
    MaxAttempts = 2
    MaxRevisions = 1
    MaxManifests = 1
    MaxRecoveries = 1
INVARIANTS
    OneResultPerAttempt
    CompletionIsProven
PROPERTIES
    FencesHoldUntilRecovery
    DecisionsAreCurrent
CHECK_DEADLOCK FALSE
