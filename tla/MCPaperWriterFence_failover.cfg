SPECIFICATION Spec
SYMMETRY Twins
CONSTANTS
    a1 = a1
    a2 = a2
    b1 = b1
    Primary = Primary
    Failover = Failover
    Nobody = Nobody
    Procs = {a1, a2, b1}
    Machine <- OnePeer
    Ttls = {2}
    Margin = 1
    MaxAge = 1
    MaxRequests = 2
    MaxTime = 4
INVARIANTS
    LeaseIsExclusive
    RequestsGrantOnce
    OneGuardPerEpoch
PROPERTIES
    RetiredGuardsStayRetired
    ImplementsSingleWriter
CHECK_DEADLOCK FALSE
