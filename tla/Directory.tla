----------------------------- MODULE Directory -----------------------------
(***************************************************************************)
(* The coordinator's canonical directory: worker sessions, cache, location,*)
(* replica and lease descriptors, the append-only vector of records with   *)
(* its per-state generation fence, tombstones, and the derived indexes and *)
(* gauges.  One action per mutating member function of class Directory; a  *)
(* refused request changes nothing, so a refusal is a stuttering step.     *)
(*                                                                         *)
(* Data abstraction.  A record's immutable part is its `copy'.  (node,     *)
(* worker, worker_boot) is one owner, the boot; bytes and digests are one  *)
(* payload; a lease's clock fields are dropped (nothing compares them with *)
(* a clock); event counters, timestamps and explanations are left out.     *)
(***************************************************************************)
EXTENDS DirectoryTypes, Sequences, FiniteSets

CONSTANTS
    States, Caches, Entries, Replicas, Locations, Boots, Leases, Payloads,
    TombstoneIds, Subjects,   \* Subjects: what a tombstone may target
    Null,                     \* a null identity, and an absent map entry
    Epochs, Fences,           \* epochs and fences an envelope may carry
    RecordInputs, CacheInputs, LocationInputs, ReplicaInputs, LeaseInputs,
    TombstoneInputs,          \* the requests workers send
    HealthInputs, FreshnessInputs, ReachabilityInputs, IntegrityInputs,
    LifecycleInputs, CacheHealthInputs, CapacityInputs,
    InvalidateKinds,          \* the kinds of invalidation requested
    MaxRecords, MaxTombstones, MaxLeaseGeneration   \* bounds

OrNull(S) == S \cup {Null}

(* What identifies and describes one cached copy; never changed afterwards. *)
CopyOver(ids(_)) ==
    [state_id: ids(States), state_generation: Nat, cache: ids(Caches),
     entry: ids(Entries), replica: ids(Replicas), location: ids(Locations),
     worker_boot: Boots, domain: MemoryDomain, payload: Payloads,
     location_generation: Nat, replica_generation: Nat]

Copy == CopyOver(LAMBDA S : S)

DirectoryRecord ==
    [record_id: Nat \ {0}, copy: Copy, health: Health, freshness: Freshness,
     integrity: Integrity, reachability: Reachability, lease: EmbeddedLease,
     boot: Boots, fence: Nat, record_generation: Nat,
     lifecycle: LifecycleState, current: BOOLEAN]

CacheDescriptor ==
    [worker_boot: Boots, health: Health, reachability: Reachability,
     freshness: Freshness, capacity: Nat, fence: Nat]

LocationDescriptor ==
    [worker_boot: Boots, domain: MemoryDomain, generation: Nat,
     reachability: Reachability, freshness: Freshness, health: Health, fence: Nat]

ReplicaDescriptor ==
    [location: Locations, cache: Caches, entry: Entries, boot: Boots]

LeaseDescriptor ==
    [holder: Boots, state: LeaseState, generation: Nat, fence: Nat]

TombstoneRecord ==
    [tombstone_id: TombstoneIds, kind: TombstoneCode, subject: Subjects,
     floor: Nat, worker_boot: Boots]

Accounting ==
    [caches: Nat, locations: Nat, replicas: Nat, cuda_locations: Nat,
     host_locations: Nat, storage_locations: Nat, current_records: Nat,
     historical_records: Nat, logical_states: Nat, reachable_records: Nat,
     stale_records: Nat, degraded_records: Nat, corrupt_records: Nat,
     active_leases: Nat, expired_leases: Nat, tombstones: Nat]

AuthorityEnvelope == [epoch: Epochs, boot: Boots, fence: Fences]

(* A record as a worker sends it; record_id 0 asks the directory for an id. *)
RecordInput ==
    [record_id: Nat, copy: CopyOver(OrNull), health: Health, freshness: Freshness,
     integrity: Integrity, reachability: Reachability, lease: EmbeddedLease]

ASSUME InputAssumption ==
    /\ Epochs \subseteq Nat /\ Fences \subseteq Nat
    /\ RecordInputs \subseteq RecordInput
    /\ CacheInputs \subseteq [id: OrNull(Caches), desc: CacheDescriptor]
    /\ LocationInputs \subseteq [id: OrNull(Locations), desc: LocationDescriptor]
    /\ ReplicaInputs \subseteq [id: OrNull(Replicas), desc: ReplicaDescriptor]
    /\ LeaseInputs \subseteq [id: OrNull(Leases), desc: LeaseDescriptor]
    /\ TombstoneInputs \subseteq
           [tombstone_id: OrNull(TombstoneIds), kind: TombstoneCode,
            subject: Subjects, floor: Nat, worker_boot: Boots]
    /\ HealthInputs \subseteq Health
    /\ FreshnessInputs \subseteq Freshness
    /\ ReachabilityInputs \subseteq Reachability
    /\ IntegrityInputs \subseteq Integrity
    /\ LifecycleInputs \subseteq LifecycleState
    /\ CacheHealthInputs \subseteq [health: Health, reachability: Reachability]
    /\ CapacityInputs \subseteq Nat

(* The target of a STATE tombstone is a state id. *)
ASSUME SubjectAssumption ==
    \A t \in TombstoneInputs : t.kind = "STATE" => t.subject \in States

ASSUME FiniteAssumption ==
    /\ IsFiniteSet(States) /\ IsFiniteSet(Caches) /\ IsFiniteSet(Locations)
    /\ IsFiniteSet(Replicas) /\ IsFiniteSet(Leases)

ASSUME NullAssumption ==
    /\ Null \notin States \cup Caches \cup Entries \cup Replicas \cup Locations
                   \cup Leases \cup Boots \cup TombstoneIds
    /\ Null \notin CacheDescriptor
    /\ Null \notin LocationDescriptor
    /\ Null \notin ReplicaDescriptor
    /\ Null \notin LeaseDescriptor

VARIABLES
    epoch,                 \* epoch_
    directory_generation,  \* directory_generation_
    records,               \* records_: every record ever registered, in order
    caches, locations, replicas, leases,   \* the descriptor maps
    tombstones,            \* tombstones_
    current_state_gen,     \* current_state_gen_: the generation fence of a state
    workers,               \* workers_: no session, or one that is live or lost
    next_obj,              \* next_obj_
    indexes,               \* what build_indexes last indexed; Null while dirty
    accounting             \* the gauges of accounting_

descriptors == <<caches, locations, replicas, leases>>
history == <<directory_generation, records, current_state_gen, next_obj>>
derived == <<indexes, accounting>>
vars == <<epoch, history, descriptors, tombstones, workers, derived>>

(* A state nothing was registered for has no entry in current_state_gen_. *)
NoGen == -1

-----------------------------------------------------------------------------
(* Derived state *)

CountRecords(P(_)) == Cardinality({i \in DOMAIN records : P(records[i])})
CountLocations(D) ==
    Cardinality({l \in Locations : locations[l] # Null /\ locations[l].domain \in D})
CountLeases(s) == Cardinality({l \in Leases : leases[l] # Null /\ leases[l].state = s})
Registered(f) == Cardinality({x \in DOMAIN f : f[x] # Null})

(* The gauges recompute_accounting derives from the canonical state. *)
Gauges ==
    [caches |-> Registered(caches),
     locations |-> Registered(locations),
     replicas |-> Registered(replicas),
     cuda_locations |-> CountLocations({"CUDA_DEVICE"}),
     host_locations |-> CountLocations({"HOST_MEMORY", "HOST_PINNED"}),
     storage_locations |->
         CountLocations({"LOCAL_FILESYSTEM", "LOCAL_NVME_CLASS",
                         "SHARED_FILESYSTEM_CLASS", "OBJECT_STORAGE_CLASS"}),
     current_records |-> CountRecords(LAMBDA r : r.current),
     historical_records |-> CountRecords(LAMBDA r : ~r.current),
     logical_states |-> Cardinality({records[i].copy.state_id : i \in DOMAIN records}),
     reachable_records |-> CountRecords(LAMBDA r : r.reachability \in {"REACHABLE", "DEGRADED"}),
     stale_records |-> CountRecords(LAMBDA r : r.freshness = "STALE"),
     degraded_records |-> CountRecords(LAMBDA r : r.health = "DEGRADED"),
     corrupt_records |-> CountRecords(LAMBDA r : r.integrity = "CORRUPT"),
     active_leases |-> CountLeases("ACTIVE"),
     expired_leases |-> CountLeases("EXPIRED"),
     tombstones |-> Len(tombstones)]

recompute_accounting == accounting' = Gauges'

(* Faulty variants, used only to show that the properties detect them, stand    *)
(* next to the definition they vary; their names end in the fault.              *)
MarkDirty_KeepsIndex == UNCHANGED indexes /\ recompute_accounting

(* The tail of every mutation: indexes_dirty_ = true; recompute_accounting(). *)
MarkDirty == indexes' = Null /\ recompute_accounting

-----------------------------------------------------------------------------
Init ==
    /\ epoch = 1
    /\ directory_generation = 0
    /\ records = <<>>
    /\ caches = [c \in Caches |-> Null]
    /\ locations = [l \in Locations |-> Null]
    /\ replicas = [r \in Replicas |-> Null]
    /\ leases = [l \in Leases |-> Null]
    /\ tombstones = <<>>
    /\ current_state_gen = [s \in States |-> NoGen]
    /\ workers = [b \in Boots |-> "NONE"]
    /\ next_obj = 1
    /\ indexes = Null
    /\ accounting = Gauges

(* The records whose index is in S, each changed by F; the others as they are. *)
ForRecords(S, F(_)) ==
    [i \in DOMAIN records |-> IF i \in S THEN F(records[i]) ELSE records[i]]

Retire(lifecycle, r) == [r EXCEPT !.current = FALSE, !.lifecycle = lifecycle]

-----------------------------------------------------------------------------
(* Worker sessions *)

worker_live(b) == b # Null /\ workers[b] = "LIVE"

register_worker_session(b) ==
    /\ ~worker_live(b)
    /\ workers' = [workers EXCEPT ![b] = "LIVE"]
    /\ UNCHANGED <<epoch, history, descriptors, tombstones, derived>>

on_worker_loss_KeepsLeases(b) ==
    /\ worker_live(b)
    /\ workers' = [workers EXCEPT ![b] = "LOST"]
    /\ records' = ForRecords({i \in DOMAIN records : records[i].copy.worker_boot = b}, LoseRecord)
    /\ locations' = [l \in Locations |->
           IF locations[l] # Null /\ locations[l].worker_boot = b
           THEN [locations[l] EXCEPT !.freshness = "REVALIDATION_REQUIRED",
                                     !.reachability = "REVALIDATION_REQUIRED",
                                     !.health = "UNAVAILABLE"]
           ELSE locations[l]]
    /\ caches' = [c \in Caches |->
           IF caches[c] # Null /\ caches[c].worker_boot = b
           THEN [caches[c] EXCEPT !.reachability = "UNREACHABLE",
                                  !.health = "UNAVAILABLE",
                                  !.freshness = "STALE"]
           ELSE caches[c]]
    /\ UNCHANGED <<epoch, directory_generation, replicas, leases, tombstones,
                   current_state_gen, next_obj>>
    /\ MarkDirty

on_worker_loss(b) ==
    /\ worker_live(b)
    /\ workers' = [workers EXCEPT ![b] = "LOST"]
    /\ records' = ForRecords({i \in DOMAIN records : records[i].copy.worker_boot = b}, LoseRecord)
    /\ locations' = [l \in Locations |->
           IF locations[l] # Null /\ locations[l].worker_boot = b
           THEN [locations[l] EXCEPT !.freshness = "REVALIDATION_REQUIRED",
                                     !.reachability = "REVALIDATION_REQUIRED",
                                     !.health = "UNAVAILABLE"]
           ELSE locations[l]]
    /\ caches' = [c \in Caches |->
           IF caches[c] # Null /\ caches[c].worker_boot = b
           THEN [caches[c] EXCEPT !.reachability = "UNREACHABLE",
                                  !.health = "UNAVAILABLE",
                                  !.freshness = "STALE"]
           ELSE caches[c]]
    /\ leases' = [l \in Leases |->
           IF leases[l] # Null /\ leases[l].holder = b
           THEN [leases[l] EXCEPT !.state = "REVALIDATION_REQUIRED"]
           ELSE leases[l]]
    /\ UNCHANGED <<epoch, directory_generation, replicas, tombstones,
                   current_state_gen, next_obj>>
    /\ MarkDirty

-----------------------------------------------------------------------------
(* Registration of descriptors.  e is the epoch of the request's envelope. *)

register_cache(in, e) ==
    /\ in.id # Null
    /\ e = epoch
    /\ worker_live(in.desc.worker_boot)
    /\ caches[in.id] # Null =>
           /\ caches[in.id].worker_boot = in.desc.worker_boot
           /\ in.desc.fence >= caches[in.id].fence
    /\ caches' = [caches EXCEPT ![in.id] = in.desc]
    /\ UNCHANGED <<epoch, history, locations, replicas, leases, tombstones, workers>>
    /\ MarkDirty

register_location_AnyOwner(in, e) ==
    /\ in.id # Null
    /\ e = epoch
    /\ worker_live(in.desc.worker_boot)
    /\ locations' = [locations EXCEPT ![in.id] = in.desc]
    /\ UNCHANGED <<epoch, history, caches, replicas, leases, tombstones, workers>>
    /\ MarkDirty

(* A Null id stands for an empty locator as well: both are refused first. *)
register_location(in, e) ==
    /\ in.id # Null
    /\ e = epoch
    /\ worker_live(in.desc.worker_boot)
    /\ locations[in.id] # Null =>
           /\ locations[in.id].worker_boot = in.desc.worker_boot
           /\ in.desc.fence >= locations[in.id].fence
           /\ in.desc.generation >= locations[in.id].generation
    /\ locations' = [locations EXCEPT ![in.id] = in.desc]
    /\ UNCHANGED <<epoch, history, caches, replicas, leases, tombstones, workers>>
    /\ MarkDirty

register_replica(in, e) ==
    /\ in.id # Null
    /\ locations[in.desc.location] # Null
    /\ e = epoch
    /\ worker_live(in.desc.boot)
    /\ replicas[in.id] # Null => replicas[in.id].boot = in.desc.boot
    /\ replicas' = [replicas EXCEPT ![in.id] = in.desc]
    /\ UNCHANGED <<epoch, history, caches, locations, leases, tombstones, workers>>
    /\ MarkDirty

-----------------------------------------------------------------------------
(* Registration of records *)

(* Kinds compared with a generation floor, by identity alone, or by nothing. *)
FlooredKinds == {"STATE", "CACHE", "ENTRY", "REPLICA", "LOCATION", "COMPATIBILITY"}

TombstoneCovers(t, kind, subject, generation) ==
    /\ t.kind = kind
    /\ t.kind # "GENERIC" => t.subject = subject
    /\ t.kind \in FlooredKinds => generation <= t.floor

covered_by_tombstone(kind, subject, generation) ==
    \E n \in DOMAIN tombstones : TombstoneCovers(tombstones[n], kind, subject, generation)

SameCopy(c, d) ==
    /\ c.state_id = d.state_id /\ c.state_generation = d.state_generation
    /\ c.replica = d.replica /\ c.location = d.location /\ c.cache = d.cache

(* The checks of check_registration that concern the request and its descriptors. *)
ValidTarget(c, env) ==
    /\ Null \notin {c.state_id, c.cache, c.entry, c.replica, c.location}
    /\ env.epoch = epoch
    /\ worker_live(env.boot)
    /\ caches[c.cache] # Null
    /\ locations[c.location] # Null
    /\ replicas[c.replica] # Null
    /\ replicas[c.replica].location = c.location
    /\ replicas[c.replica].cache = c.cache
    /\ replicas[c.replica].entry = c.entry
    /\ locations[c.location].worker_boot = c.worker_boot
    /\ locations[c.location].domain = c.domain
    /\ locations[c.location].reachability # "UNREACHABLE"

(* A current or superseded record of the same copy, benign or conflicting. *)
IsDuplicate(c) ==
    \E i \in DOMAIN records :
        /\ records[i].current \/ records[i].lifecycle = "SUPERSEDED"
        /\ SameCopy(records[i].copy, c)

check_registration_AllowsDuplicate(c, env) ==
    /\ ValidTarget(c, env)
    /\ ~covered_by_tombstone("STATE", c.state_id, c.state_generation)
    /\ c.state_generation >= current_state_gen[c.state_id]

check_registration_AllowsStale(c, env) ==
    /\ ValidTarget(c, env)
    /\ ~covered_by_tombstone("STATE", c.state_id, c.state_generation)
    /\ ~IsDuplicate(c)

check_registration_IgnoresTombstones(c, env) ==
    /\ ValidTarget(c, env)
    /\ c.state_generation >= current_state_gen[c.state_id]
    /\ ~IsDuplicate(c)

check_registration(c, env) ==
    /\ ValidTarget(c, env)
    /\ ~covered_by_tombstone("STATE", c.state_id, c.state_generation)
    /\ c.state_generation >= current_state_gen[c.state_id]
    /\ ~IsDuplicate(c)

(* The two loops of commit_record: current records of an older generation of the *)
(* state (if a newer generation is published), and current records of an older   *)
(* incarnation of the same replica at the same location.                         *)
OlderGeneration(i, c) ==
    /\ current_state_gen[c.state_id] # NoGen
    /\ c.state_generation > current_state_gen[c.state_id]
    /\ records[i].copy.state_generation < c.state_generation

OlderIncarnation(i, c, id) ==
    /\ records[i].record_id # id
    /\ \/ c.replica_generation > records[i].copy.replica_generation
       \/ c.location_generation > records[i].copy.location_generation

SamePlace(i, c) ==
    records[i].copy.replica = c.replica /\ records[i].copy.location = c.location

SupersededBy_OnlySamePlace(c, id) ==
    {i \in DOMAIN records :
        /\ records[i].current
        /\ records[i].copy.state_id = c.state_id
        /\ SamePlace(i, c) /\ OlderIncarnation(i, c, id)}

SupersededBy_AnyPlace(c, id) ==
    {i \in DOMAIN records :
        /\ records[i].current
        /\ records[i].copy.state_id = c.state_id
        /\ OlderGeneration(i, c) \/ OlderIncarnation(i, c, id)}

SupersededBy(c, id) ==
    {i \in DOMAIN records :
        /\ records[i].current
        /\ records[i].copy.state_id = c.state_id
        /\ \/ OlderGeneration(i, c)
           \/ SamePlace(i, c) /\ OlderIncarnation(i, c, id)}

NewRecord_IdKept(in, env, id) ==
    [record_id |-> in.record_id, copy |-> in.copy, health |-> in.health,
     freshness |-> in.freshness, integrity |-> in.integrity,
     reachability |-> in.reachability, lease |-> in.lease,
     boot |-> env.boot, fence |-> env.fence,
     record_generation |-> directory_generation + 1,
     lifecycle |-> InitialLifecycle(in), current |-> TRUE]

NewRecord(in, env, id) ==
    [record_id |-> id, copy |-> in.copy, health |-> in.health,
     freshness |-> in.freshness, integrity |-> in.integrity,
     reachability |-> in.reachability, lease |-> in.lease,
     boot |-> env.boot, fence |-> env.fence,
     record_generation |-> directory_generation + 1,
     lifecycle |-> InitialLifecycle(in), current |-> TRUE]

commit_record(in, env, id) ==
    /\ records' = Append(ForRecords(SupersededBy(in.copy, id),
                                    LAMBDA r : Retire("SUPERSEDED", r)),
                         NewRecord(in, env, id))
    /\ current_state_gen' =
           [current_state_gen EXCEPT ![in.copy.state_id] = in.copy.state_generation]
    /\ directory_generation' = directory_generation + 1

register_entry(in, env) ==
    /\ Len(records) < MaxRecords
    /\ check_registration(in.copy, env)
    /\ IF in.record_id = 0
       THEN commit_record(in, env, next_obj) /\ next_obj' = next_obj + 1
       ELSE commit_record(in, env, in.record_id) /\ UNCHANGED next_obj
    /\ UNCHANGED <<epoch, descriptors, tombstones, workers>>
    /\ MarkDirty

-----------------------------------------------------------------------------
(* Controlled updates *)

(* find_record_index: the first record with this id. *)
IsRecordIndex(i, id) ==
    /\ records[i].record_id = id
    /\ \A j \in 1..(i - 1) : records[j].record_id # id

check_update_authority_Unfenced(r, env) ==
    /\ env.epoch = epoch
    /\ r.boot = env.boot

check_update_authority(r, env) ==
    /\ env.epoch = epoch
    /\ r.boot = env.boot
    /\ env.fence >= r.fence

(* The common body of the four evidence updates; r is record i with the field  *)
(* already assigned, which an illegal lifecycle transition does not undo.      *)
ApplyEvidence(i, r, env) ==
    /\ check_update_authority(records[i], env)
    /\ UNCHANGED <<epoch, directory_generation, current_state_gen, next_obj,
                   descriptors, tombstones, workers>>
    /\ \/ /\ can_lifecycle(records[i].lifecycle, derive_lifecycle(r))
          /\ records' = [records EXCEPT ![i] =
                 [r EXCEPT !.lifecycle = derive_lifecycle(r), !.fence = env.fence]]
          /\ MarkDirty
       \/ /\ ~can_lifecycle(records[i].lifecycle, derive_lifecycle(r))
          /\ records' = [records EXCEPT ![i] = r]
          /\ UNCHANGED derived

update_health(i, h, env) ==
    ApplyEvidence(i, [records[i] EXCEPT !.health = h], env)

update_freshness(i, f, env) ==
    ApplyEvidence(i, [records[i] EXCEPT !.freshness = f], env)

update_reachability(i, reach, env) ==
    ApplyEvidence(i, [records[i] EXCEPT !.reachability = reach], env)

update_integrity(i, integ, env) ==
    ApplyEvidence(i, [records[i] EXCEPT !.integrity = integ], env)

update_lifecycle_Revives(i, s, env) ==
    /\ check_update_authority(records[i], env)
    /\ can_lifecycle(records[i].lifecycle, s)
    /\ records' = [records EXCEPT ![i].lifecycle = s, ![i].fence = env.fence,
                                  ![i].current = TRUE]
    /\ UNCHANGED <<epoch, directory_generation, current_state_gen, next_obj,
                   descriptors, tombstones, workers>>
    /\ MarkDirty

update_lifecycle(i, s, env) ==
    /\ check_update_authority(records[i], env)
    /\ can_lifecycle(records[i].lifecycle, s)
    /\ records' = [records EXCEPT ![i].lifecycle = s, ![i].fence = env.fence]
    /\ UNCHANGED <<epoch, directory_generation, current_state_gen, next_obj,
                   descriptors, tombstones, workers>>
    /\ MarkDirty

check_cache_authority(c, env) ==
    /\ caches[c] # Null
    /\ env.epoch = epoch
    /\ caches[c].worker_boot = env.boot
    /\ env.fence >= caches[c].fence

update_cache_health(c, h, reach, env) ==
    /\ check_cache_authority(c, env)
    /\ caches' = [caches EXCEPT ![c].health = h, ![c].reachability = reach,
                                ![c].fence = env.fence]
    /\ UNCHANGED <<epoch, history, locations, replicas, leases, tombstones, workers>>
    /\ MarkDirty

update_cache_capacity(c, n, env) ==
    /\ check_cache_authority(c, env)
    /\ caches' = [caches EXCEPT ![c].capacity = n, ![c].fence = env.fence]
    /\ UNCHANGED <<epoch, history, locations, replicas, leases, tombstones, workers>>
    /\ MarkDirty

-----------------------------------------------------------------------------
(* Leases.  Only register_lease dirties the indexes. *)

LeaseFrame ==
    UNCHANGED <<epoch, history, caches, locations, replicas, tombstones, workers>>

register_lease(in, e) ==
    /\ in.id # Null
    /\ e = epoch
    /\ worker_live(in.desc.holder)
    /\ leases[in.id] # Null => leases[in.id].holder = in.desc.holder
    /\ leases' = [leases EXCEPT ![in.id] = in.desc]
    /\ LeaseFrame
    /\ MarkDirty

renew_lease(l, env) ==
    /\ leases[l] # Null
    /\ env.epoch = epoch
    /\ leases[l].holder = env.boot
    /\ env.fence > leases[l].fence
    /\ leases[l].state # "REVOKED"
    /\ leases[l].generation < MaxLeaseGeneration
    /\ leases' = [leases EXCEPT ![l].state = "ACTIVE",
                                ![l].generation = @ + 1,
                                ![l].fence = env.fence]
    /\ LeaseFrame
    /\ UNCHANGED indexes
    /\ recompute_accounting

expire_lease(l, env) ==
    /\ leases[l] # Null
    /\ leases[l].holder = env.boot
    /\ leases' = [leases EXCEPT ![l].state = "EXPIRED", ![l].fence = env.fence]
    /\ LeaseFrame
    /\ UNCHANGED indexes
    /\ recompute_accounting

revoke_lease_KeepsGauges(l) ==
    /\ leases[l] # Null
    /\ leases' = [leases EXCEPT ![l].state = "REVOKED"]
    /\ LeaseFrame
    /\ UNCHANGED derived

revoke_lease(l) ==
    /\ leases[l] # Null
    /\ leases' = [leases EXCEPT ![l].state = "REVOKED"]
    /\ LeaseFrame
    /\ UNCHANGED indexes
    /\ recompute_accounting

-----------------------------------------------------------------------------
(* Invalidation and tombstones *)

InvalidateFrame ==
    UNCHANGED <<epoch, directory_generation, current_state_gen, next_obj,
                replicas, leases, tombstones, workers>>

MarkInvalidated(r) == Retire("INVALIDATED", r)
MarkUnreachable(r) == [Retire("INVALIDATED", r) EXCEPT !.reachability = "UNREACHABLE"]

(* A foreign record is passed over unless the requesting incarnation is live. *)
invalidate_state(s, g, env) ==
    /\ env.epoch = epoch
    /\ records' = ForRecords(
           {i \in DOMAIN records :
               /\ records[i].copy.state_id = s
               /\ records[i].copy.state_generation = g
               /\ records[i].current
               /\ records[i].boot = env.boot \/ worker_live(env.boot)},
           MarkInvalidated)
    /\ UNCHANGED <<caches, locations>>
    /\ InvalidateFrame
    /\ MarkDirty

invalidate_location(l, e) ==
    /\ e = epoch
    /\ records' = ForRecords(
           {i \in DOMAIN records : records[i].copy.location = l /\ records[i].current},
           MarkUnreachable)
    /\ locations' = IF locations[l] = Null THEN locations
                    ELSE [locations EXCEPT ![l].reachability = "UNREACHABLE",
                                           ![l].freshness = "STALE"]
    /\ UNCHANGED caches
    /\ InvalidateFrame
    /\ MarkDirty

invalidate_replica(r, e) ==
    /\ e = epoch
    /\ records' = ForRecords(
           {i \in DOMAIN records : records[i].copy.replica = r /\ records[i].current},
           MarkInvalidated)
    /\ UNCHANGED <<caches, locations>>
    /\ InvalidateFrame
    /\ MarkDirty

invalidate_cache(c, e) ==
    /\ e = epoch
    /\ records' = ForRecords(
           {i \in DOMAIN records : records[i].copy.cache = c /\ records[i].current},
           MarkInvalidated)
    /\ caches' = IF caches[c] = Null THEN caches
                 ELSE [caches EXCEPT ![c].reachability = "UNREACHABLE",
                                     ![c].health = "UNAVAILABLE"]
    /\ UNCHANGED locations
    /\ InvalidateFrame
    /\ MarkDirty

invalidate_worker_boot(b, e) ==
    /\ e = epoch
    /\ records' = ForRecords(
           {i \in DOMAIN records : records[i].copy.worker_boot = b /\ records[i].current},
           MarkUnreachable)
    /\ UNCHANGED <<caches, locations>>
    /\ InvalidateFrame
    /\ MarkDirty

BuriedBy_BelowFloor(t) ==
    {i \in DOMAIN records :
        /\ t.kind = "STATE"
        /\ records[i].copy.state_id = t.subject
        /\ records[i].copy.state_generation < t.floor}

(* Only a STATE tombstone marks records; the other kinds are merely stored. *)
BuriedBy(t) ==
    {i \in DOMAIN records :
        /\ t.kind = "STATE"
        /\ records[i].copy.state_id = t.subject
        /\ records[i].copy.state_generation <= t.floor}

tombstone(t, e) ==
    /\ Len(tombstones) < MaxTombstones
    /\ t.tombstone_id # Null
    /\ e = epoch
    /\ worker_live(t.worker_boot)
    /\ tombstones' = Append(tombstones, t)
    /\ records' = ForRecords(BuriedBy(t), LAMBDA r : Retire("TOMBSTONED", r))
    /\ UNCHANGED <<epoch, directory_generation, current_state_gen, next_obj,
                   descriptors, workers>>
    /\ MarkDirty

(* Every query starts with ensure_indexes, its only effect on modelled state. *)
ensure_indexes ==
    /\ indexes = Null
    /\ indexes' = records
    /\ UNCHANGED <<epoch, history, descriptors, tombstones, workers, accounting>>

-----------------------------------------------------------------------------
SessionStep ==
    \E b \in Boots : register_worker_session(b) \/ on_worker_loss(b)

RegisterStep ==
    \/ \E in \in CacheInputs, e \in Epochs : register_cache(in, e)
    \/ \E in \in LocationInputs, e \in Epochs : register_location(in, e)
    \/ \E in \in ReplicaInputs, e \in Epochs : register_replica(in, e)
    \/ \E in \in RecordInputs, env \in AuthorityEnvelope : register_entry(in, env)

UpdateStep ==
    \E i \in DOMAIN records, env \in AuthorityEnvelope :
        /\ IsRecordIndex(i, records[i].record_id)
        /\ \/ \E h \in HealthInputs : update_health(i, h, env)
           \/ \E f \in FreshnessInputs : update_freshness(i, f, env)
           \/ \E reach \in ReachabilityInputs : update_reachability(i, reach, env)
           \/ \E integ \in IntegrityInputs : update_integrity(i, integ, env)
           \/ \E s \in LifecycleInputs : update_lifecycle(i, s, env)

CacheStep ==
    \E c \in Caches, env \in AuthorityEnvelope :
        \/ \E in \in CacheHealthInputs :
               update_cache_health(c, in.health, in.reachability, env)
        \/ \E n \in CapacityInputs : update_cache_capacity(c, n, env)

LeaseStep ==
    \/ \E in \in LeaseInputs, e \in Epochs : register_lease(in, e)
    \/ \E l \in Leases : 
           \/ \E env \in AuthorityEnvelope : renew_lease(l, env) \/ expire_lease(l, env)
           \/ revoke_lease(l)

InvalidateStep ==
    \/ /\ "STATE" \in InvalidateKinds
       /\ \E s \in States, env \in AuthorityEnvelope :
              \E g \in {records[i].copy.state_generation : i \in DOMAIN records} :
                  invalidate_state(s, g, env)
    \/ "LOCATION" \in InvalidateKinds /\ \E l \in Locations, e \in Epochs : invalidate_location(l, e)
    \/ "REPLICA" \in InvalidateKinds /\ \E r \in Replicas, e \in Epochs : invalidate_replica(r, e)
    \/ "CACHE" \in InvalidateKinds /\ \E c \in Caches, e \in Epochs : invalidate_cache(c, e)
    \/ "WORKER_BOOT" \in InvalidateKinds /\ \E b \in Boots, e \in Epochs : invalidate_worker_boot(b, e)

TombstoneStep == \E t \in TombstoneInputs, e \in Epochs : tombstone(t, e)

Next ==
    \/ SessionStep \/ RegisterStep \/ UpdateStep \/ CacheStep
    \/ LeaseStep \/ InvalidateStep \/ TombstoneStep \/ ensure_indexes

Spec == Init /\ [][Next]_vars

-----------------------------------------------------------------------------
(* Properties *)

CanonicalTypeOK ==
    /\ epoch \in Nat
    /\ directory_generation \in Nat
    /\ records \in Seq(DirectoryRecord)
    /\ caches \in [Caches -> OrNull(CacheDescriptor)]
    /\ locations \in [Locations -> OrNull(LocationDescriptor)]
    /\ replicas \in [Replicas -> OrNull(ReplicaDescriptor)]
    /\ leases \in [Leases -> OrNull(LeaseDescriptor)]
    /\ tombstones \in Seq(TombstoneRecord)
    /\ current_state_gen \in [States -> Nat \cup {NoGen}]
    /\ workers \in [Boots -> {"NONE", "LIVE", "LOST"}]
    /\ next_obj \in Nat \ {0}

(* The canonical state keeps the shape every handler relies on, and no gauge   *)
(* is ever negative: accounting_.validate() has nothing to report.             *)
TypeOK ==
    /\ CanonicalTypeOK
    /\ indexes \in OrNull(Seq(DirectoryRecord))
    /\ accounting \in Accounting

(* Publishing a fresher generation supersedes every older one: whatever the    *)
(* interleaving of registrations, invalidations and losses, a current record   *)
(* carries exactly the generation the fence current_state_gen_ holds, so two   *)
(* generations of a state are never current together.                          *)
CurrentIsNewest ==
    \A i \in DOMAIN records :
        records[i].current =>
            records[i].copy.state_generation = current_state_gen[records[i].copy.state_id]

(* Tombstones block resurrection: no record a STATE tombstone covers is         *)
(* current, neither one it found (tombstone) nor one registered after it        *)
(* (check_registration), whoever registers it.                                  *)
BuriedNeverCurrent ==
    \A i \in DOMAIN records, n \in DOMAIN tombstones :
        TombstoneCovers(tombstones[n], "STATE", records[i].copy.state_id,
                        records[i].copy.state_generation)
            => ~records[i].current

(* A retried or duplicated registration never makes a second current record     *)
(* of the same copy (state, generation, replica, location, cache).              *)
UniqueCurrentCopy ==
    \A i, j \in DOMAIN records :
        records[i].current /\ records[j].current
            /\ SameCopy(records[i].copy, records[j].copy) => i = j

(* Everything a record was validated against is still there: its cache, its     *)
(* replica and its location are registered and the location still belongs to    *)
(* the incarnation the record names, although all three may be registered       *)
(* again at any time, by any live worker.                                       *)
RecordsAreOwned ==
    \A i \in DOMAIN records :
        LET c == records[i].copy IN
        /\ caches[c.cache] # Null
        /\ replicas[c.replica] # Null
        /\ locations[c.location] # Null
        /\ locations[c.location].worker_boot = c.worker_boot

(* The index a query by exact state walks (by_state) lists every record under   *)
(* its state, even after an update that failed half-way and did not dirty it:   *)
(* the indexed query and the canonical scan see the same records.               *)
StateIndexAgrees ==
    indexes # Null =>
        /\ DOMAIN indexes = DOMAIN records
        /\ \A i \in DOMAIN records : indexes[i].copy = records[i].copy

(* The gauges that count whole objects are exact in every state.                *)
CountsExact ==
    LET Counts(a) == <<a.caches, a.locations, a.replicas, a.current_records,
                       a.historical_records, a.logical_states, a.active_leases,
                       a.expired_leases, a.tombstones>>
    IN  Counts(accounting) = Counts(Gauges)

HasRetired ==
    \E i \in DOMAIN records : records[i].lifecycle \in {"SUPERSEDED", "TOMBSTONED"}

(* accounting.hpp promises exact accounting, but an evidence update assigns the *)
(* record before can_lifecycle is asked and, refused, returns before the gauges *)
(* are recomputed.  A gauge may so be wrong, but only while a retired record    *)
(* exists to refuse: until then every update, loss and invalidation, in any     *)
(* order, leaves every gauge what a recount would find.                         *)
GaugesLagOnRetired == accounting # Gauges => HasRetired

(* History is preserved, not erased: a record is never removed, reordered or    *)
(* rewritten (its copy, its id, its asserting incarnation), and one that left   *)
(* the current set never returns to it, not even by an update of its own        *)
(* incarnation.  The generation fence of a state never moves back.              *)
HistoryIsAppendOnly ==
    [][/\ Len(records') >= Len(records)
       /\ \A i \in DOMAIN records :
              /\ records'[i].copy = records[i].copy
              /\ records'[i].record_id = records[i].record_id
              /\ records'[i].boot = records[i].boot
              /\ records'[i].current => records[i].current
       /\ \A s \in States : current_state_gen'[s] >= current_state_gen[s]]_vars

(* Authority is keyed by incarnation first and fenced within it: no step lets   *)
(* another incarnation take over a cache, a location, a replica or a lease, and *)
(* no step moves the fence of a record, a cache or a location, or the           *)
(* generation of a location, backwards.                                         *)
AuthorityIsFenced ==
    [][/\ \A i \in DOMAIN records : records'[i].fence >= records[i].fence
       /\ \A c \in Caches : caches[c] # Null =>
              /\ caches'[c].worker_boot = caches[c].worker_boot
              /\ caches'[c].fence >= caches[c].fence
       /\ \A l \in Locations : locations[l] # Null =>
              /\ locations'[l].worker_boot = locations[l].worker_boot
              /\ locations'[l].fence >= locations[l].fence
              /\ locations'[l].generation >= locations[l].generation
       /\ \A r \in Replicas : replicas[r] # Null => replicas'[r].boot = replicas[r].boot
       /\ \A l \in Leases : leases[l] # Null => leases'[l].holder = leases[l].holder]_vars

-----------------------------------------------------------------------------
(* What the documentation says and the code does not do; a run refutes it.     *)

(* README: availability requires current authority and liveness.  The current   *)
(* record of an incarnation that is not live is never AVAILABLE.  Refuted:      *)
(* check_registration asks whether the asserting incarnation is live, not the   *)
(* one the record names as its source, and check_update_authority asks neither, *)
(* so a late update undoes what on_worker_loss recorded.                        *)
AvailableSourceIsLive ==
    \A i \in DOMAIN records :
        records[i].current /\ records[i].lifecycle = "AVAILABLE"
            => worker_live(records[i].copy.worker_boot)
=============================================================================
