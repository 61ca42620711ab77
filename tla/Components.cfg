\* The liveness of the components, one at a time.
SPECIFICATION ComponentsSpec
CONSTANTS
    i1 = i1  i2 = i2
    o1 = o1  o2 = o2  o3 = o3
    m1 = m1  m2 = m2  m3 = m3
    eth = eth
    None = None
    Instances = {i1}
    Opps = {o1, o2}
    Msgs = {m1, m2, m3}
    OppOf <- Siblings
    ChainOf <- OneChain
    Mortal = {}
    Stoppable = {}
    MaxConcurrent = 2
    MaxPerChain = 1
    QueueMax = 2
    HighWater = 2
    LowWater = 0
    MaxCbAttempts = 2
    ConflictThreshold = 3
    ConflictWindow = 1
    ConflictMinAge = 1
    ExecTimeout = 1
    LockTtl = 2
    DedupTtl = 2
    PendingMaxAge = 2
    RecoverLimit = 3
    MaxFaults = 1
    Trades = {t1, t2, t3}
    FailureThreshold = 2
    HalfOpenMax = 2
    ChainSlots = 2
    RequeueMax = 2
    FailureCap = 3
    Entries = {e1, e2}
    Polls = {q1, q2}
    NoPoll = none
    k2 = k2
    Coordinators = {k1, k2}
    Messages = {m1, m2}
    NoCoordinator = none
    MaxRetries = 2
    RouterThreshold = 2
INVARIANTS
    ProbesAccountedFor ClosedBelowThreshold
    OnePollChain NeverSilent StopIsFinal
    ForwardTypeOK ForwardedAtMostOnce AckedIsSettled
PROPERTIES
    EveryMessageSettles QueueDrains ReadingResumes
    HalfOpenDecides NewIsRead StopReturns
    NoForwardAfterRelease ForwardingEnds StopGivesUpLeadership
\* Consumers and coordinators stop, and every message comes to an end.
CHECK_DEADLOCK FALSE
