------------------------- MODULE DirectoryAuthority -------------------------
(***************************************************************************)
(* Who owns what, and what is derived from it: a descriptor keeps its      *)
(* incarnation and its fence, whatever a record was validated against is   *)
(* still there, and the indexes and the gauges tell the truth about the    *)
(* records.                                                                *)
(***************************************************************************)
EXTENDS DirectorySafety

(* What no step may do to a registered descriptor: remove it, give it to another *)
(* incarnation, or move its fence or generation back.                            *)
KeepsCaches ==
    \A c \in Caches : caches[c] # Null =>
        /\ caches'[c] # Null
        /\ caches'[c].worker_boot = caches[c].worker_boot
        /\ caches'[c].fence >= caches[c].fence

KeepsLocations ==
    \A l \in Locations : locations[l] # Null =>
        /\ locations'[l] # Null
        /\ locations'[l].worker_boot = locations[l].worker_boot
        /\ locations'[l].fence >= locations[l].fence
        /\ locations'[l].generation >= locations[l].generation

KeepsReplicas ==
    \A r \in Replicas : replicas[r] # Null =>
        replicas'[r] # Null /\ replicas'[r].boot = replicas[r].boot

KeepsLeases ==
    \A l \in Leases : leases[l] # Null =>
        leases'[l] # Null /\ leases'[l].holder = leases[l].holder

(* A registered cache, location, replica or lease is a descriptor. *)
LEMMA DescriptorTypes ==
    ASSUME CanonicalTypeOK
    PROVE  /\ \A c \in Caches : caches[c] # Null => caches[c] \in CacheDescriptor
           /\ \A l \in Locations : locations[l] # Null => locations[l] \in LocationDescriptor
           /\ \A r \in Replicas : replicas[r] # Null => replicas[r] \in ReplicaDescriptor
           /\ \A l \in Leases : leases[l] # Null => leases[l] \in LeaseDescriptor
           /\ DOMAIN caches = Caches /\ DOMAIN locations = Locations
           /\ DOMAIN replicas = Replicas /\ DOMAIN leases = Leases
  BY DEF CanonicalTypeOK, OrNull

(* Which handlers write the descriptor maps at all. *)
LEMMA DescriptorFrame ==
    ASSUME [AnyStep]_vars
    PROVE  /\ \/ caches' = caches
              \/ \E b \in Boots : on_worker_loss(b)
              \/ \E in \in CacheInputs : \E e : register_cache(in, e)
              \/ AnyCacheUpdate
              \/ \E c \in Caches : \E e : invalidate_cache(c, e)
           /\ \/ locations' = locations
              \/ \E b \in Boots : on_worker_loss(b)
              \/ \E in \in LocationInputs : \E e : register_location(in, e)
              \/ \E l \in Locations : \E e : invalidate_location(l, e)
           /\ \/ replicas' = replicas
              \/ \E in \in ReplicaInputs : \E e : register_replica(in, e)
           /\ \/ leases' = leases
              \/ \E b \in Boots : on_worker_loss(b)
              \/ AnyLease
<1> USE DEF descriptors
<1>1. CASE SessionStep
  BY <1>1 DEF SessionStep, register_worker_session, on_worker_loss
<1>2. CASE AnyRegister
  BY <1>2 DEF AnyRegister, register_cache, register_location, register_replica, register_entry
<1>3. CASE AnyUpdate
  <2>1. ASSUME NEW i, NEW r, NEW env, ApplyEvidence(i, r, env)
        PROVE  UNCHANGED descriptors
    BY <2>1 DEF ApplyEvidence
  <2> QED
    BY <1>3, <2>1 DEF AnyUpdate, RecordUpdate, update_health, update_freshness,
                      update_reachability, update_integrity, update_lifecycle
<1>4. CASE AnyCacheUpdate
  BY <1>4 DEF AnyCacheUpdate, update_cache_health, update_cache_capacity
<1>5. CASE AnyLease
  BY <1>5 DEF AnyLease, register_lease, renew_lease, expire_lease, revoke_lease, LeaseFrame
<1>6. CASE AnyInvalidate
  BY <1>6 DEF AnyInvalidate, invalidate_state, invalidate_location, invalidate_replica,
              invalidate_cache, invalidate_worker_boot, InvalidateFrame
<1>7. CASE AnyTombstone  BY <1>7 DEF AnyTombstone, tombstone
<1>8. CASE ensure_indexes  BY <1>8 DEF ensure_indexes
<1>9. CASE UNCHANGED vars  BY <1>9 DEF vars
<1> QED  BY <1>1, <1>2, <1>3, <1>4, <1>5, <1>6, <1>7, <1>8, <1>9 DEF AnyStep

(* No handler removes a cache, hands it to another incarnation or unfences it. *)
LEMMA CachesKept ==
    ASSUME CanonicalTypeOK, [AnyStep]_vars PROVE KeepsCaches
<1>0. \A d \in CacheDescriptor : d # Null /\ d.fence >= d.fence
  BY NullAssumption DEF CacheDescriptor
<1>1. CASE caches' = caches
  BY <1>0, <1>1, DescriptorTypes DEF KeepsCaches
<1>2. ASSUME NEW b \in Boots, on_worker_loss(b) PROVE KeepsCaches
  <2>1. ASSUME NEW d \in CacheDescriptor
        PROVE  LET q == [d EXCEPT !.reachability = "UNREACHABLE", !.health = "UNAVAILABLE",
                                  !.freshness = "STALE"]
               IN  q # Null /\ q.worker_boot = d.worker_boot /\ q.fence >= d.fence
    <3>1. [d EXCEPT !.reachability = "UNREACHABLE", !.health = "UNAVAILABLE",
                    !.freshness = "STALE"] \in CacheDescriptor
      BY DEF CacheDescriptor, Freshness, Reachability, Health
    <3> QED  BY <1>0, <3>1 DEF CacheDescriptor
  <2> QED  BY <1>0, <1>2, <2>1, DescriptorTypes DEF KeepsCaches, on_worker_loss
<1>3. ASSUME NEW in \in CacheInputs, NEW e, register_cache(in, e) PROVE KeepsCaches
  <2>1. in.desc \in CacheDescriptor  BY InputAssumption
  <2> QED  BY <1>0, <1>3, <2>1, DescriptorTypes DEF KeepsCaches, register_cache
<1>4. CASE AnyCacheUpdate
  <2>1. ASSUME NEW c \in Caches, caches[c] # Null, NEW d \in CacheDescriptor,
               caches' = [caches EXCEPT ![c] = d],
               d.worker_boot = caches[c].worker_boot, d.fence >= caches[c].fence
        PROVE  KeepsCaches
    BY <1>0, <2>1, DescriptorTypes DEF KeepsCaches
  <2>2. PICK c \in Caches, env \in Authorized :
           \/ \E in \in CacheHealthInputs :
                  update_cache_health(c, in.health, in.reachability, env)
           \/ \E n \in CapacityInputs : update_cache_capacity(c, n, env)
    BY <1>4 DEF AnyCacheUpdate
  <2>3. /\ caches[c] # Null /\ caches[c] \in CacheDescriptor
        /\ env.fence >= caches[c].fence /\ env.fence \in Nat
    BY <2>2, DescriptorTypes DEF update_cache_health, update_cache_capacity,
                                 check_cache_authority, Authorized
  <2>4. ASSUME NEW in \in CacheHealthInputs,
               update_cache_health(c, in.health, in.reachability, env)
        PROVE  KeepsCaches
    <3> DEFINE d == [caches[c] EXCEPT !.health = in.health, !.reachability = in.reachability,
                                      !.fence = env.fence]
    <3>1. in.health \in Health /\ in.reachability \in Reachability  BY InputAssumption
    <3>2. /\ d \in CacheDescriptor
          /\ d.worker_boot = caches[c].worker_boot /\ d.fence >= caches[c].fence
      BY <2>3, <3>1 DEF CacheDescriptor
    <3>3. caches' = [caches EXCEPT ![c] = d]
      BY <2>4, DescriptorTypes DEF update_cache_health
    <3> HIDE DEF d
    <3> QED  BY <2>1, <2>3, <3>2, <3>3
  <2>5. ASSUME NEW n \in CapacityInputs, update_cache_capacity(c, n, env)
        PROVE  KeepsCaches
    <3> DEFINE d == [caches[c] EXCEPT !.capacity = n, !.fence = env.fence]
    <3>1. n \in Nat  BY InputAssumption
    <3>2. /\ d \in CacheDescriptor
          /\ d.worker_boot = caches[c].worker_boot /\ d.fence >= caches[c].fence
      BY <2>3, <3>1 DEF CacheDescriptor
    <3>3. caches' = [caches EXCEPT ![c] = d]
      BY <2>5, DescriptorTypes DEF update_cache_capacity
    <3> HIDE DEF d
    <3> QED  BY <2>1, <2>3, <3>2, <3>3
  <2> QED  BY <2>2, <2>4, <2>5
<1>5. ASSUME NEW c \in Caches, NEW e, invalidate_cache(c, e) PROVE KeepsCaches
  <2>1. CASE caches[c] = Null
    BY <1>0, <1>5, <2>1, DescriptorTypes DEF KeepsCaches, invalidate_cache
  <2>2. CASE caches[c] # Null
    <3>1. caches' = [caches EXCEPT ![c].reachability = "UNREACHABLE",
                                   ![c].health = "UNAVAILABLE"]
      BY <1>5, <2>2 DEF invalidate_cache
    <3>2. caches[c] \in CacheDescriptor  BY <2>2, DescriptorTypes
    <3>3. caches'[c] \in CacheDescriptor
      BY <3>1, <3>2, DescriptorTypes DEF CacheDescriptor, Health, Reachability
    <3>4. caches'[c].worker_boot = caches[c].worker_boot /\ caches'[c].fence = caches[c].fence
          /\ \A d \in Caches \ {c} : caches'[d] = caches[d]
      BY <3>1, <3>2, DescriptorTypes DEF CacheDescriptor
    <3> QED  BY <1>0, <3>2, <3>3, <3>4, DescriptorTypes DEF KeepsCaches
  <2> QED  BY <2>1, <2>2
<1> QED  BY <1>1, <1>2, <1>3, <1>4, <1>5, DescriptorFrame

(* No handler removes a location, hands it to another incarnation, unfences it *)
(* or lowers its generation.                                                   *)
LEMMA LocationsKept ==
    ASSUME CanonicalTypeOK, [AnyStep]_vars PROVE KeepsLocations
<1>0. \A d \in LocationDescriptor : d # Null /\ d.fence >= d.fence /\ d.generation >= d.generation
  BY NullAssumption DEF LocationDescriptor
<1>1. CASE locations' = locations
  BY <1>0, <1>1, DescriptorTypes DEF KeepsLocations
<1>2. ASSUME NEW b \in Boots, on_worker_loss(b) PROVE KeepsLocations
  <2>1. ASSUME NEW d \in LocationDescriptor
        PROVE  LET q == [d EXCEPT !.freshness = "REVALIDATION_REQUIRED",
                                  !.reachability = "REVALIDATION_REQUIRED",
                                  !.health = "UNAVAILABLE"]
               IN  /\ q # Null /\ q.worker_boot = d.worker_boot
                   /\ q.fence >= d.fence /\ q.generation >= d.generation
    <3>1. [d EXCEPT !.freshness = "REVALIDATION_REQUIRED",
                    !.reachability = "REVALIDATION_REQUIRED",
                    !.health = "UNAVAILABLE"] \in LocationDescriptor
      BY DEF LocationDescriptor, Freshness, Reachability, Health
    <3> QED  BY <1>0, <3>1 DEF LocationDescriptor
  <2> QED  BY <1>0, <1>2, <2>1, DescriptorTypes DEF KeepsLocations, on_worker_loss
<1>3. ASSUME NEW in \in LocationInputs, NEW e, register_location(in, e) PROVE KeepsLocations
  <2>1. in.desc \in LocationDescriptor  BY InputAssumption
  <2> QED  BY <1>0, <1>3, <2>1, DescriptorTypes DEF KeepsLocations, register_location
<1>4. ASSUME NEW l \in Locations, NEW e, invalidate_location(l, e) PROVE KeepsLocations
  <2>1. CASE locations[l] = Null
    BY <1>0, <1>4, <2>1, DescriptorTypes DEF KeepsLocations, invalidate_location
  <2>2. CASE locations[l] # Null
    <3>1. locations' = [locations EXCEPT ![l].reachability = "UNREACHABLE",
                                         ![l].freshness = "STALE"]
      BY <1>4, <2>2 DEF invalidate_location
    <3>2. locations[l] \in LocationDescriptor  BY <2>2, DescriptorTypes
    <3>3. locations'[l] \in LocationDescriptor
      BY <3>1, <3>2, DescriptorTypes DEF LocationDescriptor, Freshness, Reachability
    <3>4. /\ locations'[l].worker_boot = locations[l].worker_boot
          /\ locations'[l].fence = locations[l].fence
          /\ locations'[l].generation = locations[l].generation
          /\ \A k \in Locations \ {l} : locations'[k] = locations[k]
      BY <3>1, <3>2, DescriptorTypes DEF LocationDescriptor
    <3> QED  BY <1>0, <3>2, <3>3, <3>4, DescriptorTypes DEF KeepsLocations
  <2> QED  BY <2>1, <2>2
<1> QED  BY <1>1, <1>2, <1>3, <1>4, DescriptorFrame

(* No handler removes a replica or hands it to another incarnation. *)
LEMMA ReplicasKept ==
    ASSUME CanonicalTypeOK, [AnyStep]_vars PROVE KeepsReplicas
<1>1. CASE replicas' = replicas  BY <1>1 DEF KeepsReplicas
<1>2. ASSUME NEW in \in ReplicaInputs, NEW e, register_replica(in, e) PROVE KeepsReplicas
  <2>1. in.desc \in ReplicaDescriptor  BY InputAssumption
  <2> QED  BY <1>2, <2>1, NullAssumption, DescriptorTypes DEF KeepsReplicas, register_replica
<1> QED  BY <1>1, <1>2, DescriptorFrame

(* No handler removes a lease or hands it to another holder. *)
LEMMA LeasesKept ==
    ASSUME CanonicalTypeOK, [AnyStep]_vars PROVE KeepsLeases
<1>1. CASE leases' = leases  BY <1>1 DEF KeepsLeases
<1>2. ASSUME NEW l \in Leases, leases[l] # Null, NEW d,
             leases' = [leases EXCEPT ![l] = d], d \in LeaseDescriptor,
             d.holder = leases[l].holder
      PROVE  KeepsLeases
  BY <1>2, NullAssumption, DescriptorTypes DEF KeepsLeases
<1>3. ASSUME NEW b \in Boots, on_worker_loss(b) PROVE KeepsLeases
  <2>1. ASSUME NEW d \in LeaseDescriptor
        PROVE  LET q == [d EXCEPT !.state = "REVALIDATION_REQUIRED"]
               IN  q # Null /\ q.holder = d.holder
    <3>1. [d EXCEPT !.state = "REVALIDATION_REQUIRED"] \in LeaseDescriptor
      BY DEF LeaseDescriptor, LeaseState
    <3> QED  BY <3>1, NullAssumption DEF LeaseDescriptor
  <2> QED  BY <1>3, <2>1, NullAssumption, DescriptorTypes DEF KeepsLeases, on_worker_loss
<1>4. ASSUME NEW in \in LeaseInputs, NEW e, register_lease(in, e) PROVE KeepsLeases
  <2>1. in.desc \in LeaseDescriptor  BY InputAssumption
  <2> QED  BY <1>4, <2>1, NullAssumption, DescriptorTypes DEF KeepsLeases, register_lease
<1>5. ASSUME NEW l \in Leases, NEW env \in Authorized, renew_lease(l, env) PROVE KeepsLeases
  <2> DEFINE d == [leases[l] EXCEPT !.state = "ACTIVE", !.generation = @ + 1,
                                    !.fence = env.fence]
  <2>1. leases[l] # Null /\ leases[l] \in LeaseDescriptor
    BY <1>5, DescriptorTypes DEF renew_lease
  <2>2. d \in LeaseDescriptor /\ d.holder = leases[l].holder
    <3>1. leases[l].generation + 1 \in Nat /\ env.fence \in Nat
      BY <2>1 DEF LeaseDescriptor, Authorized
    <3> QED  BY <2>1, <3>1 DEF LeaseDescriptor, LeaseState
  <2>3. leases' = [leases EXCEPT ![l] = d]
    BY <1>5, DescriptorTypes DEF renew_lease
  <2> QED  BY <1>2, <2>1, <2>2, <2>3
<1>6. ASSUME NEW l \in Leases, NEW env \in Authorized, expire_lease(l, env) PROVE KeepsLeases
  <2> DEFINE d == [leases[l] EXCEPT !.state = "EXPIRED", !.fence = env.fence]
  <2>1. leases[l] # Null /\ leases[l] \in LeaseDescriptor
    BY <1>6, DescriptorTypes DEF expire_lease
  <2>2. d \in LeaseDescriptor /\ d.holder = leases[l].holder
    BY <2>1 DEF LeaseDescriptor, LeaseState, Authorized
  <2>3. leases' = [leases EXCEPT ![l] = d]
    BY <1>6, DescriptorTypes DEF expire_lease
  <2> QED  BY <1>2, <2>1, <2>2, <2>3
<1>7. ASSUME NEW l \in Leases, revoke_lease(l) PROVE KeepsLeases
  <2> DEFINE d == [leases[l] EXCEPT !.state = "REVOKED"]
  <2>1. leases[l] # Null /\ leases[l] \in LeaseDescriptor
    BY <1>7, DescriptorTypes DEF revoke_lease
  <2>2. d \in LeaseDescriptor /\ d.holder = leases[l].holder
    BY <2>1 DEF LeaseDescriptor, LeaseState
  <2>3. leases' = [leases EXCEPT ![l] = d]
    BY <1>7, DescriptorTypes DEF revoke_lease
  <2> QED  BY <1>2, <2>1, <2>2, <2>3
<1> QED  BY <1>1, <1>3, <1>4, <1>5, <1>6, <1>7, DescriptorFrame DEF AnyLease

(* Authority is keyed by incarnation and fenced within it, for every handler:   *)
(* nothing takes over a descriptor or moves a fence back                        *)
(* (check_update_authority, check_cache_authority and the checks of every       *)
(* registration).                                                               *)
THEOREM AuthorityFenced == Spec => AuthorityIsFenced
<1> DEFINE A ==
        /\ \A i \in DOMAIN records : records'[i].fence >= records[i].fence
        /\ \A c \in Caches : caches[c] # Null =>
               /\ caches'[c].worker_boot = caches[c].worker_boot
               /\ caches'[c].fence >= caches[c].fence
        /\ \A l \in Locations : locations[l] # Null =>
               /\ locations'[l].worker_boot = locations[l].worker_boot
               /\ locations'[l].fence >= locations[l].fence
               /\ locations'[l].generation >= locations[l].generation
        /\ \A r \in Replicas : replicas[r] # Null => replicas'[r].boot = replicas[r].boot
        /\ \A l \in Leases : leases[l] # Null => leases'[l].holder = leases[l].holder
<1>1. TypeOK /\ [AnyStep]_vars => [A]_vars
  <2> SUFFICES ASSUME CanonicalTypeOK, [AnyStep]_vars PROVE A
    BY DEF TypeOK
  <2>1. \A i \in DOMAIN records : records'[i].fence >= records[i].fence
    BY RecordsSurvive DEF KeepsRecord
  <2> QED
    BY <2>1, CachesKept, LocationsKept, ReplicasKept, LeasesKept
       DEF KeepsCaches, KeepsLocations, KeepsReplicas, KeepsLeases
<1>2. [][A]_vars <=> AuthorityIsFenced  BY DEF AuthorityIsFenced
<1> QED  BY <1>1, <1>2, TypeCorrect, NextIsAny, PTL DEF Spec

-----------------------------------------------------------------------------
(* What records refer to, and what is derived from them. *)

(* RecordsAreOwned is inductive: registration finds everything in place, and no *)
(* handler takes a descriptor away.                                             *)
LEMMA OwnedStep ==
    ASSUME CanonicalTypeOK, RecordsAreOwned, [AnyStep]_vars
    PROVE  RecordsAreOwned'
<1>0. KeepsCaches /\ KeepsLocations /\ KeepsReplicas
  BY CachesKept, LocationsKept, ReplicasKept
<1>1. ASSUME NEW i \in DOMAIN records PROVE
          LET c == records[i].copy IN
          /\ records'[i].copy = c
          /\ caches'[c.cache] # Null /\ replicas'[c.replica] # Null
          /\ locations'[c.location] # Null
          /\ locations'[c.location].worker_boot = c.worker_boot
  <2> DEFINE c == records[i].copy
  <2>1. c.cache \in Caches /\ c.replica \in Replicas /\ c.location \in Locations
    BY RecordsDomain DEF DirectoryRecord, Copy, CopyOver
  <2>2. records'[i].copy = c  BY RecordsSurvive DEF KeepsRecord
  <2>3. /\ caches[c.cache] # Null /\ replicas[c.replica] # Null
        /\ locations[c.location] # Null /\ locations[c.location].worker_boot = c.worker_boot
    BY DEF RecordsAreOwned
  <2> HIDE DEF c
  <2>4. /\ caches'[c.cache] # Null /\ replicas'[c.replica] # Null
        /\ locations'[c.location] # Null
        /\ locations'[c.location].worker_boot = c.worker_boot
    BY <1>0, <2>1, <2>3 DEF KeepsCaches, KeepsLocations, KeepsReplicas
  <2> QED  BY <2>2, <2>4 DEF c
<1>2. CASE KeepsHistory  BY <1>1, <1>2 DEF KeepsHistory, RecordsAreOwned
<1>3. CASE \E in \in RecordInputs, env \in Authorized : register_entry(in, env)
  <2>1. PICK in \in RecordInputs, env \in Authorized : register_entry(in, env)
    BY <1>3
  <2>2. PICK id \in Nat \ {0} :
           /\ check_registration(in.copy, env)
           /\ DOMAIN records' = 1..(Len(records) + 1)
           /\ DOMAIN records = 1..(Len(records) + 1 - 1)
           /\ records'[Len(records) + 1] = NewRecord(in, env, id)
    BY <2>1, RegisterShape
  <2>3. records'[Len(records) + 1].copy = in.copy  BY <2>2 DEF NewRecord
  <2>4. caches' = caches /\ locations' = locations /\ replicas' = replicas
    BY <2>1 DEF register_entry, descriptors
  <2>5. LET c == in.copy IN
        /\ caches'[c.cache] # Null /\ replicas'[c.replica] # Null
        /\ locations'[c.location] # Null
        /\ locations'[c.location].worker_boot = c.worker_boot
    BY <2>2, <2>4 DEF check_registration, ValidTarget
  <2>6. \A i \in DOMAIN records' : i \in DOMAIN records \/ i = Len(records) + 1
    BY <2>2, RecordsDomain
  <2> QED  BY <1>1, <2>3, <2>5, <2>6 DEF RecordsAreOwned
<1> QED  BY <1>2, <1>3, StepShape

(* StateIndexAgrees is inductive: what adds a record dirties the indexes, and   *)
(* what leaves them alone changes no copy, an update refused half-way included. *)
LEMMA IndexStep ==
    ASSUME CanonicalTypeOK, StateIndexAgrees, [AnyStep]_vars
    PROVE  StateIndexAgrees'
<1>1. CASE indexes' = Null  BY <1>1 DEF StateIndexAgrees
<1>2. CASE indexes' = indexes
  <2>1. CASE KeepsHistory
    BY <1>2, <2>1 DEF KeepsHistory, KeepsRecord, StateIndexAgrees
  <2>2. CASE \E in \in RecordInputs, env \in Authorized : register_entry(in, env)
    BY <1>1, <2>2 DEF register_entry, MarkDirty
  <2> QED  BY <2>1, <2>2, StepShape
<1>3. CASE ensure_indexes
  <2>1. indexes' = records /\ records' = records  BY <1>3 DEF ensure_indexes, history
  <2> QED  BY <2>1 DEF StateIndexAgrees
<1>4. indexes' = Null \/ indexes' = indexes \/ ensure_indexes
  <2> USE DEF MarkDirty, derived
  <2>1. CASE SessionStep
    BY <2>1 DEF SessionStep, register_worker_session, on_worker_loss
  <2>2. CASE AnyRegister
    BY <2>2 DEF AnyRegister, register_cache, register_location, register_replica, register_entry
  <2>3. CASE AnyUpdate
    <3>1. ASSUME NEW i, NEW r, NEW env, ApplyEvidence(i, r, env)
          PROVE  indexes' = Null \/ indexes' = indexes
      BY <3>1 DEF ApplyEvidence
    <3> QED
      BY <2>3, <3>1 DEF AnyUpdate, RecordUpdate, update_health, update_freshness,
                        update_reachability, update_integrity, update_lifecycle
  <2>4. CASE AnyCacheUpdate
    BY <2>4 DEF AnyCacheUpdate, update_cache_health, update_cache_capacity
  <2>5. CASE AnyLease
    BY <2>5 DEF AnyLease, register_lease, renew_lease, expire_lease, revoke_lease
  <2>6. CASE AnyInvalidate
    BY <2>6 DEF AnyInvalidate, invalidate_state, invalidate_location, invalidate_replica,
                invalidate_cache, invalidate_worker_boot
  <2>7. CASE AnyTombstone  BY <2>7 DEF AnyTombstone, tombstone
  <2>8. CASE UNCHANGED vars  BY <2>8 DEF vars
  <2> QED  BY <2>1, <2>2, <2>3, <2>4, <2>5, <2>6, <2>7, <2>8 DEF AnyStep
<1> QED  BY <1>1, <1>2, <1>3, <1>4

(* What the gauges of whole objects count. *)
KeepsCounted ==
    /\ UNCHANGED <<caches, locations, replicas, leases, tombstones>>
    /\ DOMAIN records' = DOMAIN records
    /\ \A i \in DOMAIN records : /\ records'[i].current = records[i].current
                                 /\ records'[i].copy = records[i].copy

(* A record whose place in the vector is rewritten by an update that is refused *)
(* half-way is counted as before.                                               *)
LEMMA RefusedIsCounted ==
    ASSUME CanonicalTypeOK, NEW i \in DOMAIN records, NEW r, NEW env,
           r.current = records[i].current, r.copy = records[i].copy,
           ApplyEvidence(i, r, env)
    PROVE  recompute_accounting \/ (accounting' = accounting /\ KeepsCounted)
<1>1. CASE MarkDirty  BY <1>1 DEF MarkDirty
<1>2. CASE records' = [records EXCEPT ![i] = r] /\ UNCHANGED derived
  BY <1>2, RecordsDomain DEF ApplyEvidence, KeepsCounted, derived, descriptors
<1> QED  BY <1>1, <1>2 DEF ApplyEvidence

(* A step recomputes the gauges or touches nothing that CountsExact counts. *)
LEMMA AccountingShape ==
    ASSUME CanonicalTypeOK, [AnyStep]_vars
    PROVE  recompute_accounting \/ (accounting' = accounting /\ KeepsCounted)
<1>0. ASSUME UNCHANGED <<records, caches, locations, replicas, leases, tombstones>>
      PROVE  KeepsCounted
  BY <1>0 DEF KeepsCounted
<1>1. CASE SessionStep
  <2>1. ASSUME NEW b, register_worker_session(b)
        PROVE  accounting' = accounting /\ KeepsCounted
    BY <1>0, <2>1 DEF register_worker_session, history, descriptors, derived
  <2> QED  BY <1>1, <2>1 DEF SessionStep, on_worker_loss, MarkDirty
<1>2. CASE AnyRegister
  BY <1>2 DEF AnyRegister, register_cache, register_location, register_replica,
              register_entry, MarkDirty
<1>3. CASE AnyUpdate
  <2>1. PICK i \in DOMAIN records, env \in Authorized : RecordUpdate(i, env)
    BY <1>3 DEF AnyUpdate
  <2>2. records[i] \in DirectoryRecord  BY RecordsDomain
  <2>3. ASSUME NEW x
        PROVE  /\ [records[i] EXCEPT !.health = x].current = records[i].current
               /\ [records[i] EXCEPT !.health = x].copy = records[i].copy
               /\ [records[i] EXCEPT !.freshness = x].current = records[i].current
               /\ [records[i] EXCEPT !.freshness = x].copy = records[i].copy
               /\ [records[i] EXCEPT !.reachability = x].current = records[i].current
               /\ [records[i] EXCEPT !.reachability = x].copy = records[i].copy
               /\ [records[i] EXCEPT !.integrity = x].current = records[i].current
               /\ [records[i] EXCEPT !.integrity = x].copy = records[i].copy
    BY <2>2 DEF DirectoryRecord
  <2> QED
    BY <2>1, <2>3, RefusedIsCounted
       DEF RecordUpdate, update_health, update_freshness, update_reachability,
           update_integrity, update_lifecycle, MarkDirty
<1>4. CASE AnyCacheUpdate
  BY <1>4 DEF AnyCacheUpdate, update_cache_health, update_cache_capacity, MarkDirty
<1>5. CASE AnyLease
  BY <1>5 DEF AnyLease, register_lease, renew_lease, expire_lease, revoke_lease, MarkDirty
<1>6. CASE AnyInvalidate
  BY <1>6 DEF AnyInvalidate, invalidate_state, invalidate_location, invalidate_replica,
              invalidate_cache, invalidate_worker_boot, MarkDirty
<1>7. CASE AnyTombstone  BY <1>7 DEF AnyTombstone, tombstone, MarkDirty
<1>8. CASE ensure_indexes  BY <1>0, <1>8 DEF ensure_indexes, history, descriptors
<1>9. CASE UNCHANGED vars  BY <1>0, <1>9 DEF vars, history, descriptors, derived
<1> QED  BY <1>1, <1>2, <1>3, <1>4, <1>5, <1>6, <1>7, <1>8, <1>9 DEF AnyStep

(* CountsExact is inductive. *)
LEMMA CountsStep ==
    ASSUME CanonicalTypeOK, CountsExact, [AnyStep]_vars
    PROVE  CountsExact'
<1>1. CASE recompute_accounting  BY <1>1 DEF recompute_accounting, CountsExact
<1>2. CASE accounting' = accounting /\ KeepsCounted
  <2>1. /\ {i \in DOMAIN records' : records'[i].current}
              = {i \in DOMAIN records : records[i].current}
        /\ {i \in DOMAIN records' : ~records'[i].current}
              = {i \in DOMAIN records : ~records[i].current}
        /\ {records'[i].copy.state_id : i \in DOMAIN records'}
              = {records[i].copy.state_id : i \in DOMAIN records}
    BY <1>2 DEF KeepsCounted
  <2>2. /\ CountRecords(LAMBDA r : r.current)' = CountRecords(LAMBDA r : r.current)
        /\ CountRecords(LAMBDA r : ~r.current)' = CountRecords(LAMBDA r : ~r.current)
        /\ Cardinality({records'[i].copy.state_id : i \in DOMAIN records'})
              = Cardinality({records[i].copy.state_id : i \in DOMAIN records})
    BY <2>1 DEF CountRecords
  <2>3. /\ Registered(caches)' = Registered(caches)
        /\ Registered(locations)' = Registered(locations)
        /\ Registered(replicas)' = Registered(replicas)
        /\ CountLeases("ACTIVE")' = CountLeases("ACTIVE")
        /\ CountLeases("EXPIRED")' = CountLeases("EXPIRED")
        /\ Len(tombstones)' = Len(tombstones)
    BY <1>2 DEF KeepsCounted, Registered, CountLeases
  <2>4. LET Counts(a) == <<a.caches, a.locations, a.replicas, a.current_records,
                           a.historical_records, a.logical_states, a.active_leases,
                           a.expired_leases, a.tombstones>>
        IN  Counts(Gauges)' = Counts(Gauges)
    BY <2>2, <2>3 DEF Gauges
  <2> QED  BY <1>2, <2>4 DEF CountsExact
<1> QED  BY <1>1, <1>2, AccountingShape

(* What the gauges are counted from, and the gauges, are left alone. *)
KeepsGauges ==
    UNCHANGED <<records, caches, locations, replicas, leases, tombstones, accounting>>

(* Only a retired record refuses an evidence update, and it stays retired. *)
LEMMA RefusedIsRetired ==
    ASSUME CanonicalTypeOK, NEW i \in DOMAIN records, NEW r, NEW env,
           r.lifecycle = records[i].lifecycle, ApplyEvidence(i, r, env)
    PROVE  recompute_accounting \/ HasRetired'
<1>1. CASE MarkDirty  BY <1>1 DEF MarkDirty
<1>2. CASE /\ ~can_lifecycle(records[i].lifecycle, derive_lifecycle(r))
           /\ records' = [records EXCEPT ![i] = r]
  <2>1. records[i].lifecycle \in {"SUPERSEDED", "TOMBSTONED"}
    BY <1>2 DEF can_lifecycle
  <2>2. i \in DOMAIN records' /\ records'[i] = r  BY <1>2, RecordsDomain
  <2> QED  BY <2>1, <2>2 DEF HasRetired
<1> QED  BY <1>1, <1>2 DEF ApplyEvidence

(* A step recomputes the gauges, keeps them and what they count, or is refused. *)
LEMMA RecountShape ==
    ASSUME CanonicalTypeOK, [AnyStep]_vars
    PROVE  recompute_accounting \/ KeepsGauges \/ HasRetired'
<1>1. CASE SessionStep
  <2>1. ASSUME NEW b, register_worker_session(b) PROVE KeepsGauges
    BY <2>1 DEF register_worker_session, history, descriptors, derived, KeepsGauges
  <2> QED  BY <1>1, <2>1 DEF SessionStep, on_worker_loss, MarkDirty
<1>2. CASE AnyRegister
  BY <1>2 DEF AnyRegister, register_cache, register_location, register_replica,
              register_entry, MarkDirty
<1>3. CASE AnyUpdate
  <2>1. PICK i \in DOMAIN records, env \in Authorized : RecordUpdate(i, env)
    BY <1>3 DEF AnyUpdate
  <2>2. records[i] \in DirectoryRecord  BY RecordsDomain
  <2>3. ASSUME NEW x
        PROVE  /\ [records[i] EXCEPT !.health = x].lifecycle = records[i].lifecycle
               /\ [records[i] EXCEPT !.freshness = x].lifecycle = records[i].lifecycle
               /\ [records[i] EXCEPT !.reachability = x].lifecycle = records[i].lifecycle
               /\ [records[i] EXCEPT !.integrity = x].lifecycle = records[i].lifecycle
    BY <2>2 DEF DirectoryRecord
  <2> QED
    BY <2>1, <2>3, RefusedIsRetired
       DEF RecordUpdate, update_health, update_freshness, update_reachability,
           update_integrity, update_lifecycle, MarkDirty
<1>4. CASE AnyCacheUpdate
  BY <1>4 DEF AnyCacheUpdate, update_cache_health, update_cache_capacity, MarkDirty
<1>5. CASE AnyLease
  BY <1>5 DEF AnyLease, register_lease, renew_lease, expire_lease, revoke_lease, MarkDirty
<1>6. CASE AnyInvalidate
  BY <1>6 DEF AnyInvalidate, invalidate_state, invalidate_location, invalidate_replica,
              invalidate_cache, invalidate_worker_boot, MarkDirty
<1>7. CASE AnyTombstone  BY <1>7 DEF AnyTombstone, tombstone, MarkDirty
<1>8. CASE ensure_indexes
  BY <1>8 DEF ensure_indexes, history, descriptors, KeepsGauges
<1>9. CASE UNCHANGED vars
  BY <1>9 DEF vars, history, descriptors, derived, KeepsGauges
<1> QED  BY <1>1, <1>2, <1>3, <1>4, <1>5, <1>6, <1>7, <1>8, <1>9 DEF AnyStep

(* GaugesLagOnRetired is inductive. *)
LEMMA LagStep ==
    ASSUME CanonicalTypeOK, GaugesLagOnRetired, [AnyStep]_vars
    PROVE  GaugesLagOnRetired'
<1>1. CASE recompute_accounting  BY <1>1 DEF recompute_accounting, GaugesLagOnRetired
<1>2. CASE KeepsGauges
  <2>1. Gauges' = Gauges
    BY <1>2 DEF KeepsGauges, Gauges, CountRecords, CountLocations, CountLeases, Registered
  <2> QED  BY <1>2, <2>1 DEF GaugesLagOnRetired, KeepsGauges, HasRetired
<1>3. CASE HasRetired'  BY <1>3 DEF GaugesLagOnRetired
<1> QED  BY <1>1, <1>2, <1>3, RecountShape

-----------------------------------------------------------------------------
(* The inductive invariant of ownership and of the derived state. *)
OwnershipInv == TypeOK /\ RecordsAreOwned /\ StateIndexAgrees /\ CountsExact

(* Every handler preserves the invariant. *)
LEMMA OwnershipStep == OwnershipInv /\ [AnyStep]_vars => OwnershipInv'
  BY TypeStep, OwnedStep, IndexStep, CountsStep DEF OwnershipInv, TypeOK

(* The directory always satisfies it. *)
THEOREM OwnershipInductive == Spec => []OwnershipInv
<1>1. Init => OwnershipInv
  <2>1. Init => TypeOK /\ records = <<>> /\ indexes = Null /\ accounting = Gauges
    BY TypeInit DEF Init
  <2> QED  BY <2>1 DEF OwnershipInv, RecordsAreOwned, StateIndexAgrees, CountsExact
<1> QED  BY <1>1, OwnershipStep, NextIsAny, PTL DEF Spec

(* What a record was validated against when it was registered is never taken    *)
(* away from it, nor given to another incarnation (check_registration against   *)
(* the re-registrations of register_cache, register_replica, register_location).*)
THEOREM RecordsStayOwned == Spec => []RecordsAreOwned
<1>1. OwnershipInv => RecordsAreOwned  BY DEF OwnershipInv
<1> QED  BY <1>1, OwnershipInductive, PTL

(* The index by state lists every record under its state whenever it is not     *)
(* marked dirty, a half-done update included (ensure_indexes, indexes_dirty_).  *)
THEOREM IndexAgrees == Spec => []StateIndexAgrees
<1>1. OwnershipInv => StateIndexAgrees  BY DEF OwnershipInv
<1> QED  BY <1>1, OwnershipInductive, PTL

(* The gauges that count whole objects are exact after every handler, those     *)
(* that do not recompute them included (recompute_accounting).                  *)
THEOREM GaugesExact == Spec => []CountsExact
<1>1. OwnershipInv => CountsExact  BY DEF OwnershipInv
<1> QED  BY <1>1, OwnershipInductive, PTL

(* Every gauge, those of evidence included, is what a recount would find until  *)
(* a record is retired; only a retired record refuses an evidence update after  *)
(* it has been assigned (update_health and its siblings, can_lifecycle).        *)
THEOREM GaugesLag == Spec => []GaugesLagOnRetired
<1>1. Init => GaugesLagOnRetired  BY DEF Init, GaugesLagOnRetired
<1>2. OwnershipInv /\ GaugesLagOnRetired /\ [AnyStep]_vars => GaugesLagOnRetired'
  BY LagStep DEF OwnershipInv, TypeOK
<1> QED  BY <1>1, <1>2, OwnershipInductive, NextIsAny, PTL DEF Spec
=============================================================================
