SPECIFICATION Spec
CONSTANTS
    b1 = b1  b2 = b2  s1 = s1  s2 = s2  c1 = c1  c2 = c2  r1 = r1  r2 = r2
    l1 = l1  l2 = l2  e1 = e1  p1 = p1  t1 = t1  k1 = k1
    Null = Null
    States = {s1}
    Caches = {c1, c2}
    Entries = {e1}
    Replicas = {r1, r2}
    Locations = {l1, l2}
    Boots = {b1}
    Leases = {}
    Payloads = {p1}
    TombstoneIds = {t1}
    Subjects = {s1, l1}
    Epochs = {1}
    Fences = {0}
    RecordInputs <- HistoryRecords
    CacheInputs <- HistoryCaches
    LocationInputs <- HistoryLocations
    ReplicaInputs <- HistoryReplicas
    LeaseInputs = {}
    TombstoneInputs <- HistoryTombstones
    HealthInputs = {}
    FreshnessInputs = {}
    ReachabilityInputs = {}
    IntegrityInputs = {}
    LifecycleInputs = {}
    CacheHealthInputs = {}
    CapacityInputs = {}
    InvalidateKinds = {"STATE", "REPLICA"}
    MaxRecords = 3
    MaxTombstones = 1
    MaxLeaseGeneration = 0
INVARIANTS
    TypeOK
    CurrentIsNewest
    BuriedNeverCurrent
    UniqueCurrentCopy
PROPERTIES
    HistoryIsAppendOnly
    ImplementsCatalog
