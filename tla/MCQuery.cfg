SPECIFICATION Spec
CONSTANTS
    b1 = b1  b2 = b2  s1 = s1  s2 = s2  c1 = c1  c2 = c2  r1 = r1  r2 = r2  r3 = r3
    l1 = l1  l2 = l2  e1 = e1  p1 = p1  t1 = t1  k1 = k1
    Null = Null
    States = {s1}
    Caches = {c1}
    Entries = {e1}
    Replicas = {r1, r2, r3}
    Locations = {l1, l2}
    Boots = {b1, b2}
    Leases = {}
    Payloads = {p1}
    TombstoneIds = {t1}
    Subjects = {s1}
    Epochs = {1}
    Fences = {0}
    RecordInputs <- QueriedRecords
    CacheInputs <- QueriedCaches
    LocationInputs <- QueriedLocations
    ReplicaInputs <- QueriedReplicas
    LeaseInputs = {}
    TombstoneInputs <- QueriedTombstones
    HealthInputs = {"DEGRADED"}
    FreshnessInputs = {"STALE"}
    ReachabilityInputs = {}
    IntegrityInputs = {}
    LifecycleInputs = {}
    CacheHealthInputs = {}
    CapacityInputs = {}
    InvalidateKinds = {"REPLICA"}
    MaxRecords = 3
    MaxTombstones = 1
    MaxLeaseGeneration = 0
    Queries <- SampleQueries
CONSTRAINT
    QueriedOrRanked
INVARIANTS
    QueryMatchesScan
    CandidatesAreNewest
PROPERTIES
    SelectionIsStable
