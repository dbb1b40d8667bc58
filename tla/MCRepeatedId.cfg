SPECIFICATION PersistentSpec
CONSTANTS
    b1 = b1  s1 = s1  c1 = c1  r1 = r1  l1 = l1  e1 = e1  p1 = p1  t1 = t1  k1 = k1
    Null = Null
    Torn = Torn
    States = {s1}
    Caches = {c1}
    Entries = {e1}
    Replicas = {r1}
    Locations = {l1}
    Boots = {b1}
    Leases = {}
    Payloads = {p1}
    TombstoneIds = {t1}
    Subjects = {s1}
    Epochs = {1, 2}
    Fences = {0}
    RecordInputs <- SavedRecords
    CacheInputs <- SavedCaches
    LocationInputs <- SavedLocations
    ReplicaInputs <- SavedReplicas
    LeaseInputs = {}
    TombstoneInputs = {}
    HealthInputs = {}
    FreshnessInputs = {}
    ReachabilityInputs = {}
    IntegrityInputs = {}
    LifecycleInputs = {}
    CacheHealthInputs = {}
    CapacityInputs = {}
    InvalidateKinds = {}
    MaxRecords = 2
    MaxTombstones = 0
    MaxLeaseGeneration = 0
    MaxSaves = 2
    MaxRestarts = 1
CHECK_DEADLOCK FALSE
INVARIANTS
    SavedIsRecoverable
