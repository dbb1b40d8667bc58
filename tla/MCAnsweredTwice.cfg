SPECIFICATION ServerSpec
CONSTANTS
    b1 = b1  b2 = b2  s1 = s1  c1 = c1  r1 = r1  l1 = l1  e1 = e1  p1 = p1  t1 = t1
    k1 = k1  w1 = w1  w2 = w2
    Null = Null
    Torn = Torn
    States = {s1}
    Caches = {c1}
    Entries = {e1}
    Replicas = {r1}
    Locations = {l1}
    Boots = {b1, b2}
    Leases = {k1}
    Payloads = {p1}
    TombstoneIds = {t1}
    Subjects = {s1}
    Epochs = {2}
    Fences = {1}
    RecordInputs <- ServedRecords
    CacheInputs <- ServedCaches
    LocationInputs <- ServedLocations
    ReplicaInputs = {}
    LeaseInputs = {}
    TombstoneInputs <- ServedTombstones
    HealthInputs = {}
    FreshnessInputs = {}
    ReachabilityInputs = {"REACHABLE"}
    IntegrityInputs = {}
    LifecycleInputs = {}
    CacheHealthInputs = {}
    CapacityInputs = {}
    InvalidateKinds = {}
    MaxRecords = 3
    MaxTombstones = 4
    MaxLeaseGeneration = 4
    MaxSaves = 0
    MaxRestarts = 5
    Connections = {w1, w2}
    Suspended = {}
    StartImage <- StartFile
    RequestKinds = {"INVALIDATE"}
    RecordIds = {1}
    InvalidateInputs <- BadInvalidations
    MaxRequests <- FewRequests
CHECK_DEADLOCK FALSE
INVARIANT
    AnswersMatch
