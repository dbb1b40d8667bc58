-------------------------- MODULE DirectoryProofs --------------------------
(***************************************************************************)
(* Type correctness of the directory for every set of identities, every    *)
(* input and every bound: one lemma per handler for the canonical state,   *)
(* and the derived indexes and gauges from what every handler ends with.   *)
(***************************************************************************)
EXTENDS DirectoryRefinement, FiniteSetTheorems, TLAPS

(* The steps of the directory under any envelope, for any target of an         *)
(* invalidation: Next, whose envelopes are bounded for TLC, and the requests   *)
(* the coordinator serves are instances of it.                                 *)
Authorized == [epoch: Nat, boot: Boots, fence: Nat]

AnyRegister ==
    \/ \E in \in CacheInputs : \E e : register_cache(in, e)
    \/ \E in \in LocationInputs : \E e : register_location(in, e)
    \/ \E in \in ReplicaInputs : \E e : register_replica(in, e)
    \/ \E in \in RecordInputs, env \in Authorized : register_entry(in, env)

RecordUpdate(i, env) ==
    \/ \E h \in HealthInputs : update_health(i, h, env)
    \/ \E f \in FreshnessInputs : update_freshness(i, f, env)
    \/ \E reach \in ReachabilityInputs : update_reachability(i, reach, env)
    \/ \E integ \in IntegrityInputs : update_integrity(i, integ, env)
    \/ \E s \in LifecycleInputs : update_lifecycle(i, s, env)

AnyUpdate == \E i \in DOMAIN records, env \in Authorized : RecordUpdate(i, env)

AnyCacheUpdate ==
    \E c \in Caches, env \in Authorized :
        \/ \E in \in CacheHealthInputs :
               update_cache_health(c, in.health, in.reachability, env)
        \/ \E n \in CapacityInputs : update_cache_capacity(c, n, env)

AnyLease ==
    \/ \E in \in LeaseInputs : \E e : register_lease(in, e)
    \/ \E l \in Leases :
           \/ \E env \in Authorized : renew_lease(l, env) \/ expire_lease(l, env)
           \/ revoke_lease(l)

AnyInvalidate ==
    \/ \E s, g, env : invalidate_state(s, g, env)
    \/ \E l \in Locations : \E e : invalidate_location(l, e)
    \/ \E r, e : invalidate_replica(r, e)
    \/ \E c \in Caches : \E e : invalidate_cache(c, e)
    \/ \E b, e : invalidate_worker_boot(b, e)

AnyTombstone == \E t \in TombstoneInputs : \E e : tombstone(t, e)

AnyStep ==
    \/ SessionStep \/ AnyRegister \/ AnyUpdate \/ AnyCacheUpdate
    \/ AnyLease \/ AnyInvalidate \/ AnyTombstone \/ ensure_indexes

(* An envelope carries a natural epoch and fence, and a known incarnation. *)
LEMMA EnvelopeType == AuthorityEnvelope \subseteq Authorized
<1>1. Epochs \subseteq Nat /\ Fences \subseteq Nat  BY InputAssumption
<1> QED  BY <1>1 DEF AuthorityEnvelope, Authorized

(* What the model lets workers request, the lemmas below are about. *)
LEMMA NextIsAny == Next => AnyStep
<1>1. RegisterStep => AnyRegister  BY EnvelopeType DEF RegisterStep, AnyRegister
<1>2. UpdateStep => AnyUpdate  BY EnvelopeType DEF UpdateStep, AnyUpdate, RecordUpdate
<1>3. CacheStep => AnyCacheUpdate  BY EnvelopeType DEF CacheStep, AnyCacheUpdate
<1>4. LeaseStep => AnyLease  BY EnvelopeType DEF LeaseStep, AnyLease
<1>5. InvalidateStep => AnyInvalidate  BY DEF InvalidateStep, AnyInvalidate
<1>6. TombstoneStep => AnyTombstone  BY DEF TombstoneStep, AnyTombstone
<1> QED  BY <1>1, <1>2, <1>3, <1>4, <1>5, <1>6 DEF Next, AnyStep

-----------------------------------------------------------------------------
(* The vector of records *)

(* A function on 1..n is a sequence of length n. *)
LEMMA SeqOfFunction ==
    ASSUME NEW S, NEW n \in Nat, NEW f \in [1..n -> S]
    PROVE  f \in Seq(S) /\ Len(f) = n /\ DOMAIN f = 1..n
  OBVIOUS

(* The shape of the vector of records. *)
LEMMA RecordsDomain ==
    CanonicalTypeOK => /\ Len(records) \in Nat
                       /\ DOMAIN records = 1..Len(records)
                       /\ \A i \in DOMAIN records : records[i] \in DirectoryRecord
  BY DEF CanonicalTypeOK

(* A pass over the records that maps each to a record keeps the vector well typed. *)
LEMMA ForRecordsLemma ==
    ASSUME CanonicalTypeOK, NEW f, f = [i \in DOMAIN records |-> f[i]],
           \A i \in DOMAIN records : f[i] \in DirectoryRecord
    PROVE  f \in Seq(DirectoryRecord) /\ Len(f) = Len(records) /\ DOMAIN f = DOMAIN records
  <1>1. f \in [1..Len(records) -> DirectoryRecord]  BY RecordsDomain
  <1> QED  BY <1>1, RecordsDomain, SeqOfFunction

(* LoseRecord, the part of on_worker_loss about one record, returns a record. *)
LEMMA LoseType ==
    ASSUME NEW r \in DirectoryRecord
    PROVE  LoseRecord(r) \in DirectoryRecord
  BY DEF LoseRecord, DirectoryRecord, Freshness, Reachability, LifecycleState

(* Retiring a record with some lifecycle returns a record. *)
LEMMA RetireType ==
    ASSUME NEW r \in DirectoryRecord, NEW s \in LifecycleState
    PROVE  /\ Retire(s, r) \in DirectoryRecord
           /\ [Retire(s, r) EXCEPT !.reachability = "UNREACHABLE"] \in DirectoryRecord
  BY DEF Retire, DirectoryRecord, Reachability

(* derive_lifecycle returns a lifecycle state. *)
LEMMA DeriveType ==
    ASSUME NEW r PROVE derive_lifecycle(r) \in LifecycleState
  BY DEF derive_lifecycle, LifecycleState

-----------------------------------------------------------------------------
(* Gauges are natural numbers. *)

GaugesOK == Gauges \in Accounting

(* Every gauge recompute_accounting derives is a natural number: it counts a finite set. *)
LEMMA GaugesType == CanonicalTypeOK => GaugesOK
<1> SUFFICES ASSUME CanonicalTypeOK PROVE Gauges \in Accounting
  BY DEF GaugesOK
<1>1. IsFiniteSet(DOMAIN records)
  BY RecordsDomain, FS_Interval
<1>2. \A S : S \in SUBSET DOMAIN records => Cardinality(S) \in Nat
  BY <1>1, FS_Subset, FS_CardinalityType
<1>3. Cardinality({records[i].copy.state_id : i \in DOMAIN records}) \in Nat
  <2>1. {records[i].copy.state_id : i \in DOMAIN records} \in SUBSET States
    BY RecordsDomain DEF DirectoryRecord, Copy, CopyOver
  <2> QED  BY <2>1, FiniteAssumption, FS_Subset, FS_CardinalityType
<1>4. \A S : S \in SUBSET Locations \/ S \in SUBSET Caches \/ S \in SUBSET Replicas
              \/ S \in SUBSET Leases => Cardinality(S) \in Nat
  BY FiniteAssumption, FS_Subset, FS_CardinalityType
<1>5. /\ DOMAIN caches = Caches /\ DOMAIN locations = Locations
      /\ DOMAIN replicas = Replicas /\ Len(tombstones) \in Nat
  BY DEF CanonicalTypeOK
<1>6. /\ CountRecords(LAMBDA r : r.current) \in Nat
      /\ CountRecords(LAMBDA r : ~r.current) \in Nat
      /\ CountRecords(LAMBDA r : r.reachability \in {"REACHABLE", "DEGRADED"}) \in Nat
      /\ CountRecords(LAMBDA r : r.freshness = "STALE") \in Nat
      /\ CountRecords(LAMBDA r : r.health = "DEGRADED") \in Nat
      /\ CountRecords(LAMBDA r : r.integrity = "CORRUPT") \in Nat
  BY <1>2 DEF CountRecords
<1>7. /\ Registered(caches) \in Nat /\ Registered(locations) \in Nat
      /\ Registered(replicas) \in Nat
  BY <1>4, <1>5 DEF Registered
<1>8. \A A : CountLocations(A) \in Nat  BY <1>4 DEF CountLocations
<1>9. \A s : CountLeases(s) \in Nat  BY <1>4 DEF CountLeases
<1> QED
  BY <1>3, <1>5, <1>6, <1>7, <1>8, <1>9 DEF Gauges, Accounting

(* The same of the gauges recomputed at the end of a step. *)
LEMMA GaugesTypeNext == CanonicalTypeOK' => Gauges' \in Accounting
<1>1. CanonicalTypeOK' => GaugesOK'  BY GaugesType, PTL
<1> QED  BY <1>1 DEF GaugesOK

-----------------------------------------------------------------------------
(* Every action keeps the canonical state well typed. *)

(* register_worker_session keeps the canonical types. *)
LEMMA RegisterSessionType ==
    ASSUME CanonicalTypeOK, NEW b \in Boots, register_worker_session(b)
    PROVE  CanonicalTypeOK'
  BY DEF CanonicalTypeOK, register_worker_session, history, descriptors

(* on_worker_loss keeps the canonical types of all the maps it rewrites. *)
LEMMA WorkerLossType ==
    ASSUME CanonicalTypeOK, NEW b \in Boots, on_worker_loss(b)
    PROVE  CanonicalTypeOK'
<1>1. records' \in Seq(DirectoryRecord)
  BY ForRecordsLemma, RecordsDomain, LoseType DEF on_worker_loss, ForRecords
<1>2. locations' \in [Locations -> OrNull(LocationDescriptor)]
  <2>1. ASSUME NEW d \in LocationDescriptor
        PROVE  [d EXCEPT !.freshness = "REVALIDATION_REQUIRED",
                         !.reachability = "REVALIDATION_REQUIRED",
                         !.health = "UNAVAILABLE"] \in LocationDescriptor
    BY DEF LocationDescriptor, Freshness, Reachability, Health
  <2> QED  BY <2>1 DEF CanonicalTypeOK, on_worker_loss, OrNull
<1>3. caches' \in [Caches -> OrNull(CacheDescriptor)]
  <2>1. ASSUME NEW d \in CacheDescriptor
        PROVE  [d EXCEPT !.reachability = "UNREACHABLE", !.health = "UNAVAILABLE",
                         !.freshness = "STALE"] \in CacheDescriptor
    BY DEF CacheDescriptor, Freshness, Reachability, Health
  <2> QED  BY <2>1 DEF CanonicalTypeOK, on_worker_loss, OrNull
<1>4. leases' \in [Leases -> OrNull(LeaseDescriptor)]
  BY DEF CanonicalTypeOK, on_worker_loss, OrNull, LeaseDescriptor, LeaseState
<1>5. workers' \in [Boots -> {"NONE", "LIVE", "LOST"}]
  BY DEF CanonicalTypeOK, on_worker_loss
<1> QED
  BY <1>1, <1>2, <1>3, <1>4, <1>5 DEF CanonicalTypeOK, on_worker_loss

(* Registering a cache, a location or a replica keeps the canonical types. *)
LEMMA RegisterDescriptorType ==
    ASSUME CanonicalTypeOK, NEW e,
           \/ \E in \in CacheInputs : register_cache(in, e)
           \/ \E in \in LocationInputs : register_location(in, e)
           \/ \E in \in ReplicaInputs : register_replica(in, e)
           \/ \E in \in LeaseInputs : register_lease(in, e)
    PROVE  CanonicalTypeOK'
<1>1. ASSUME NEW in \in CacheInputs, register_cache(in, e) PROVE CanonicalTypeOK'
  <2>1. caches' \in [Caches -> OrNull(CacheDescriptor)]
    BY <1>1, InputAssumption DEF CanonicalTypeOK, register_cache, OrNull
  <2> QED  BY <1>1, <2>1 DEF CanonicalTypeOK, register_cache, history
<1>2. ASSUME NEW in \in LocationInputs, register_location(in, e) PROVE CanonicalTypeOK'
  <2>1. locations' \in [Locations -> OrNull(LocationDescriptor)]
    BY <1>2, InputAssumption DEF CanonicalTypeOK, register_location, OrNull
  <2> QED  BY <1>2, <2>1 DEF CanonicalTypeOK, register_location, history
<1>3. ASSUME NEW in \in ReplicaInputs, register_replica(in, e) PROVE CanonicalTypeOK'
  <2>1. replicas' \in [Replicas -> OrNull(ReplicaDescriptor)]
    BY <1>3, InputAssumption DEF CanonicalTypeOK, register_replica, OrNull
  <2> QED  BY <1>3, <2>1 DEF CanonicalTypeOK, register_replica, history
<1>4. ASSUME NEW in \in LeaseInputs, register_lease(in, e) PROVE CanonicalTypeOK'
  <2>1. leases' \in [Leases -> OrNull(LeaseDescriptor)]
    BY <1>4, InputAssumption DEF CanonicalTypeOK, register_lease, OrNull
  <2> QED  BY <1>4, <2>1 DEF CanonicalTypeOK, register_lease, LeaseFrame, history
<1> QED  BY <1>1, <1>2, <1>3, <1>4

(* What commit_record appends is a record: a copy that passed check_registration has no
   null identity, and its id is positive, generated or explicit. *)
LEMMA NewRecordType ==
    ASSUME CanonicalTypeOK, NEW in \in RecordInputs, NEW env \in Authorized,
           check_registration(in.copy, env), NEW id \in Nat \ {0}
    PROVE  NewRecord(in, env, id) \in DirectoryRecord /\ in.copy \in Copy
<1>1. in \in RecordInput  BY InputAssumption
<1>2. in.copy \in Copy
  <2>1. in.copy \in CopyOver(OrNull)  BY <1>1 DEF RecordInput
  <2>2. /\ in.copy.state_id # Null /\ in.copy.cache # Null /\ in.copy.entry # Null
        /\ in.copy.replica # Null /\ in.copy.location # Null
    BY DEF check_registration, ValidTarget
  <2> QED  BY <2>1, <2>2 DEF CopyOver, Copy, OrNull
<1>3. /\ InitialLifecycle(in) \in LifecycleState
      /\ directory_generation + 1 \in Nat
      /\ env.boot \in Boots /\ env.fence \in Nat
  <2>1. InitialLifecycle(in) \in LifecycleState
    BY DEF InitialLifecycle, LifecycleState
  <2>2. directory_generation + 1 \in Nat
    BY DEF CanonicalTypeOK
  <2> QED  BY <2>1, <2>2 DEF Authorized
<1> QED
  BY <1>1, <1>2, <1>3 DEF NewRecord, DirectoryRecord, RecordInput

(* The two superseding loops of commit_record keep the vector well typed. *)
LEMMA SupersedeType ==
    ASSUME CanonicalTypeOK, NEW S
    PROVE  LET f == ForRecords(S, LAMBDA r : Retire("SUPERSEDED", r))
           IN  f \in Seq(DirectoryRecord) /\ Len(f) = Len(records)
               /\ DOMAIN f = DOMAIN records
<1> DEFINE f == ForRecords(S, LAMBDA r : Retire("SUPERSEDED", r))
<1>1. \A i \in DOMAIN records : f[i] \in DirectoryRecord
  BY RecordsDomain, RetireType DEF ForRecords, LifecycleState
<1>2. f = [i \in DOMAIN records |-> f[i]]
  BY DEF ForRecords
<1> HIDE DEF f
<1>3. f \in Seq(DirectoryRecord) /\ Len(f) = Len(records) /\ DOMAIN f = DOMAIN records
  BY <1>1, <1>2, ForRecordsLemma
<1> QED  BY <1>3 DEF f

(* register_entry keeps the canonical types. *)
LEMMA RegisterEntryType ==
    ASSUME CanonicalTypeOK, NEW in \in RecordInputs, NEW env \in Authorized,
           register_entry(in, env)
    PROVE  CanonicalTypeOK'
<1>1. PICK id \in Nat \ {0} :
         /\ commit_record(in, env, id)
         /\ next_obj' \in Nat \ {0}
  <2>1. in.record_id \in Nat /\ next_obj \in Nat \ {0}
    BY InputAssumption DEF CanonicalTypeOK, RecordInput
  <2>2. CASE in.record_id = 0
    BY <2>1, <2>2 DEF register_entry
  <2>3. CASE in.record_id # 0
    BY <2>1, <2>3 DEF register_entry
  <2> QED  BY <2>2, <2>3
<1>2. check_registration(in.copy, env)  BY DEF register_entry
<1>3. records' \in Seq(DirectoryRecord)
  <2> DEFINE f == ForRecords(SupersededBy(in.copy, id), LAMBDA r : Retire("SUPERSEDED", r))
  <2>1. f \in Seq(DirectoryRecord)  BY SupersedeType
  <2>2. NewRecord(in, env, id) \in DirectoryRecord  BY <1>2, NewRecordType
  <2>3. records' = Append(f, NewRecord(in, env, id))  BY <1>1 DEF commit_record
  <2> HIDE DEF f
  <2> QED  BY <2>1, <2>2, <2>3
<1>4. in.copy \in Copy  BY <1>2, NewRecordType
<1>5. /\ current_state_gen' \in [States -> Nat \cup {NoGen}]
      /\ directory_generation' \in Nat
  BY <1>1, <1>4 DEF commit_record, CanonicalTypeOK, Copy, CopyOver
<1> QED
  BY <1>1, <1>3, <1>5 DEF CanonicalTypeOK, register_entry, descriptors

(* An evidence update, accepted or refused half-way, keeps the canonical types. *)
LEMMA ApplyEvidenceType ==
    ASSUME CanonicalTypeOK, NEW i \in DOMAIN records, NEW env \in Authorized,
           NEW r \in DirectoryRecord, ApplyEvidence(i, r, env)
    PROVE  CanonicalTypeOK'
<1>1. [r EXCEPT !.lifecycle = derive_lifecycle(r), !.fence = env.fence] \in DirectoryRecord
  BY DeriveType DEF Authorized, DirectoryRecord
<1>2. \E q \in DirectoryRecord : records' = [records EXCEPT ![i] = q]
  BY <1>1 DEF ApplyEvidence
<1>3. records' \in Seq(DirectoryRecord)
  BY <1>2 DEF CanonicalTypeOK
<1> QED  BY <1>3 DEF CanonicalTypeOK, ApplyEvidence, descriptors

(* Every controlled update of a record keeps the canonical types. *)
LEMMA UpdateType ==
    ASSUME CanonicalTypeOK, AnyUpdate
    PROVE  CanonicalTypeOK'
<1>1. PICK i \in DOMAIN records, env \in Authorized : RecordUpdate(i, env)
  BY DEF AnyUpdate
<1>2. records[i] \in DirectoryRecord  BY RecordsDomain
<1>3. ASSUME NEW h \in HealthInputs, update_health(i, h, env) PROVE CanonicalTypeOK'
  <2>1. [records[i] EXCEPT !.health = h] \in DirectoryRecord
    BY <1>2, InputAssumption DEF DirectoryRecord
  <2> QED  BY <1>3, <2>1, ApplyEvidenceType DEF update_health
<1>4. ASSUME NEW f \in FreshnessInputs, update_freshness(i, f, env) PROVE CanonicalTypeOK'
  <2>1. [records[i] EXCEPT !.freshness = f] \in DirectoryRecord
    BY <1>2, InputAssumption DEF DirectoryRecord
  <2> QED  BY <1>4, <2>1, ApplyEvidenceType DEF update_freshness
<1>5. ASSUME NEW reach \in ReachabilityInputs, update_reachability(i, reach, env)
      PROVE  CanonicalTypeOK'
  <2>1. [records[i] EXCEPT !.reachability = reach] \in DirectoryRecord
    BY <1>2, InputAssumption DEF DirectoryRecord
  <2> QED  BY <1>5, <2>1, ApplyEvidenceType DEF update_reachability
<1>6. ASSUME NEW integ \in IntegrityInputs, update_integrity(i, integ, env)
      PROVE  CanonicalTypeOK'
  <2>1. [records[i] EXCEPT !.integrity = integ] \in DirectoryRecord
    BY <1>2, InputAssumption DEF DirectoryRecord
  <2> QED  BY <1>6, <2>1, ApplyEvidenceType DEF update_integrity
<1>7. ASSUME NEW s \in LifecycleInputs, update_lifecycle(i, s, env) PROVE CanonicalTypeOK'
  <2>1. [records[i] EXCEPT !.lifecycle = s, !.fence = env.fence] \in DirectoryRecord
    BY <1>2, InputAssumption DEF Authorized, DirectoryRecord
  <2>2. records' = [records EXCEPT ![i] =
                       [records[i] EXCEPT !.lifecycle = s, !.fence = env.fence]]
    BY <1>7, RecordsDomain DEF update_lifecycle, CanonicalTypeOK
  <2>3. records' \in Seq(DirectoryRecord)
    BY <2>1, <2>2 DEF CanonicalTypeOK
  <2> QED  BY <1>7, <2>3 DEF CanonicalTypeOK, update_lifecycle, descriptors
<1> QED  BY <1>1, <1>3, <1>4, <1>5, <1>6, <1>7 DEF RecordUpdate

(* Every controlled update of a cache keeps the canonical types. *)
LEMMA CacheUpdateType ==
    ASSUME CanonicalTypeOK, AnyCacheUpdate
    PROVE  CanonicalTypeOK'
<1>1. PICK c \in Caches, env \in Authorized :
         \/ \E in \in CacheHealthInputs :
                update_cache_health(c, in.health, in.reachability, env)
         \/ \E n \in CapacityInputs : update_cache_capacity(c, n, env)
  BY DEF AnyCacheUpdate
<1>2. caches[c] # Null => caches[c] \in CacheDescriptor
  BY DEF CanonicalTypeOK, OrNull
<1>3. ASSUME NEW in \in CacheHealthInputs,
             update_cache_health(c, in.health, in.reachability, env)
      PROVE  CanonicalTypeOK'
  <2>1. in.health \in Health /\ in.reachability \in Reachability
    BY InputAssumption
  <2>2. caches[c] \in CacheDescriptor
    BY <1>2, <1>3 DEF update_cache_health, check_cache_authority
  <2>3. caches' \in [Caches -> OrNull(CacheDescriptor)]
    BY <1>3, <2>1, <2>2
       DEF Authorized, update_cache_health, CanonicalTypeOK, OrNull, CacheDescriptor
  <2> QED  BY <1>3, <2>3 DEF CanonicalTypeOK, update_cache_health, history
<1>4. ASSUME NEW n \in CapacityInputs, update_cache_capacity(c, n, env)
      PROVE  CanonicalTypeOK'
  <2>1. n \in Nat  BY InputAssumption
  <2>2. caches[c] \in CacheDescriptor
    BY <1>2, <1>4 DEF update_cache_capacity, check_cache_authority
  <2>3. caches' \in [Caches -> OrNull(CacheDescriptor)]
    BY <1>4, <2>1, <2>2
       DEF Authorized, update_cache_capacity, CanonicalTypeOK, OrNull, CacheDescriptor
  <2> QED  BY <1>4, <2>3 DEF CanonicalTypeOK, update_cache_capacity, history
<1> QED  BY <1>1, <1>3, <1>4

(* Renewing, expiring and revoking keep a lease a lease. *)
LEMMA LeaseType ==
    ASSUME CanonicalTypeOK, AnyLease
    PROVE  CanonicalTypeOK'
<1>1. ASSUME NEW in \in LeaseInputs, NEW e, register_lease(in, e)
      PROVE  CanonicalTypeOK'
  BY <1>1, RegisterDescriptorType
<1>2. ASSUME NEW l \in Leases, NEW env \in Authorized, renew_lease(l, env)
      PROVE  CanonicalTypeOK'
  <2>1. leases[l] \in LeaseDescriptor
    BY <1>2 DEF renew_lease, CanonicalTypeOK, OrNull
  <2>2. leases' \in [Leases -> OrNull(LeaseDescriptor)]
    BY <1>2, <2>1
       DEF Authorized, renew_lease, CanonicalTypeOK, OrNull, LeaseDescriptor, LeaseState
  <2> QED  BY <1>2, <2>2 DEF CanonicalTypeOK, renew_lease, LeaseFrame, history
<1>3. ASSUME NEW l \in Leases, NEW env \in Authorized, expire_lease(l, env)
      PROVE  CanonicalTypeOK'
  <2>1. leases[l] \in LeaseDescriptor
    BY <1>3 DEF expire_lease, CanonicalTypeOK, OrNull
  <2>2. leases' \in [Leases -> OrNull(LeaseDescriptor)]
    BY <1>3, <2>1
       DEF Authorized, expire_lease, CanonicalTypeOK, OrNull, LeaseDescriptor, LeaseState
  <2> QED  BY <1>3, <2>2 DEF CanonicalTypeOK, expire_lease, LeaseFrame, history
<1>4. ASSUME NEW l \in Leases, revoke_lease(l) PROVE CanonicalTypeOK'
  <2>1. leases[l] \in LeaseDescriptor
    BY <1>4 DEF revoke_lease, CanonicalTypeOK, OrNull
  <2>2. leases' \in [Leases -> OrNull(LeaseDescriptor)]
    BY <1>4, <2>1 DEF revoke_lease, CanonicalTypeOK, OrNull, LeaseDescriptor, LeaseState
  <2> QED  BY <1>4, <2>2 DEF CanonicalTypeOK, revoke_lease, LeaseFrame, history
<1> QED  BY <1>1, <1>2, <1>3, <1>4 DEF AnyLease

(* Marking any set of records invalidated or unreachable keeps them records. *)
LEMMA MarkType ==
    ASSUME CanonicalTypeOK, NEW S
    PROVE  /\ ForRecords(S, MarkInvalidated) \in Seq(DirectoryRecord)
           /\ ForRecords(S, MarkUnreachable) \in Seq(DirectoryRecord)
           /\ ForRecords(S, LAMBDA r : Retire("TOMBSTONED", r)) \in Seq(DirectoryRecord)
<1>1. ForRecords(S, MarkInvalidated) \in Seq(DirectoryRecord)
  BY ForRecordsLemma, RecordsDomain, RetireType DEF ForRecords, MarkInvalidated, LifecycleState
<1>2. ForRecords(S, MarkUnreachable) \in Seq(DirectoryRecord)
  BY ForRecordsLemma, RecordsDomain, RetireType DEF ForRecords, MarkUnreachable, LifecycleState
<1>3. ForRecords(S, LAMBDA r : Retire("TOMBSTONED", r)) \in Seq(DirectoryRecord)
  BY ForRecordsLemma, RecordsDomain, RetireType DEF ForRecords, LifecycleState
<1> QED  BY <1>1, <1>2, <1>3

(* An invalidation retires records and may dim a cache or a location. *)
LEMMA InvalidateType ==
    ASSUME CanonicalTypeOK, AnyInvalidate
    PROVE  CanonicalTypeOK'
<1>1. ASSUME NEW s, NEW g, NEW env, invalidate_state(s, g, env) PROVE CanonicalTypeOK'
  <2>1. records' \in Seq(DirectoryRecord)  BY <1>1, MarkType DEF invalidate_state
  <2> QED  BY <1>1, <2>1 DEF CanonicalTypeOK, invalidate_state, InvalidateFrame
<1>2. ASSUME NEW l \in Locations, NEW e, invalidate_location(l, e) PROVE CanonicalTypeOK'
  <2>1. records' \in Seq(DirectoryRecord)  BY <1>2, MarkType DEF invalidate_location
  <2>2. locations' \in [Locations -> OrNull(LocationDescriptor)]
    <3>1. CASE locations[l] = Null
      BY <1>2, <3>1 DEF invalidate_location, CanonicalTypeOK
    <3>2. CASE locations[l] # Null
      <4>1. locations[l] \in LocationDescriptor  BY <3>2 DEF CanonicalTypeOK, OrNull
      <4> QED
        BY <1>2, <3>2, <4>1 DEF invalidate_location, CanonicalTypeOK, OrNull,
                                LocationDescriptor, Reachability, Freshness
    <3> QED  BY <3>1, <3>2
  <2> QED  BY <1>2, <2>1, <2>2 DEF CanonicalTypeOK, invalidate_location, InvalidateFrame
<1>3. ASSUME NEW r, NEW e, invalidate_replica(r, e) PROVE CanonicalTypeOK'
  <2>1. records' \in Seq(DirectoryRecord)  BY <1>3, MarkType DEF invalidate_replica
  <2> QED  BY <1>3, <2>1 DEF CanonicalTypeOK, invalidate_replica, InvalidateFrame
<1>4. ASSUME NEW c \in Caches, NEW e, invalidate_cache(c, e) PROVE CanonicalTypeOK'
  <2>1. records' \in Seq(DirectoryRecord)  BY <1>4, MarkType DEF invalidate_cache
  <2>2. caches' \in [Caches -> OrNull(CacheDescriptor)]
    <3>1. CASE caches[c] = Null
      BY <1>4, <3>1 DEF invalidate_cache, CanonicalTypeOK
    <3>2. CASE caches[c] # Null
      <4>1. caches[c] \in CacheDescriptor  BY <3>2 DEF CanonicalTypeOK, OrNull
      <4> QED
        BY <1>4, <3>2, <4>1 DEF invalidate_cache, CanonicalTypeOK, OrNull,
                                CacheDescriptor, Reachability, Health
    <3> QED  BY <3>1, <3>2
  <2> QED  BY <1>4, <2>1, <2>2 DEF CanonicalTypeOK, invalidate_cache, InvalidateFrame
<1>5. ASSUME NEW b, NEW e, invalidate_worker_boot(b, e) PROVE CanonicalTypeOK'
  <2>1. records' \in Seq(DirectoryRecord)  BY <1>5, MarkType DEF invalidate_worker_boot
  <2> QED  BY <1>5, <2>1 DEF CanonicalTypeOK, invalidate_worker_boot, InvalidateFrame
<1> QED  BY <1>1, <1>2, <1>3, <1>4, <1>5 DEF AnyInvalidate

(* A tombstone is appended with its id, and retires records. *)
LEMMA TombstoneType ==
    ASSUME CanonicalTypeOK, NEW t \in TombstoneInputs, NEW e, tombstone(t, e)
    PROVE  CanonicalTypeOK'
<1>1. records' \in Seq(DirectoryRecord)  BY MarkType DEF tombstone
<1>2. t \in TombstoneRecord
  <2>1. t \in [tombstone_id: OrNull(TombstoneIds), kind: TombstoneCode,
               subject: Subjects, floor: Nat, worker_boot: Boots]
    BY InputAssumption
  <2> QED  BY <2>1 DEF tombstone, TombstoneRecord, OrNull
<1>3. tombstones' \in Seq(TombstoneRecord)  BY <1>2 DEF tombstone, CanonicalTypeOK
<1> QED  BY <1>1, <1>3 DEF CanonicalTypeOK, tombstone, descriptors

(* Every step keeps the canonical state well typed. *)
LEMMA CanonicalStepType ==
    ASSUME CanonicalTypeOK, [AnyStep]_vars
    PROVE  CanonicalTypeOK'
<1>1. CASE SessionStep
  BY <1>1, RegisterSessionType, WorkerLossType DEF SessionStep
<1>2. CASE AnyRegister
  BY <1>2, RegisterDescriptorType, RegisterEntryType DEF AnyRegister
<1>3. CASE AnyUpdate  BY <1>3, UpdateType
<1>4. CASE AnyCacheUpdate  BY <1>4, CacheUpdateType
<1>5. CASE AnyLease  BY <1>5, LeaseType
<1>6. CASE AnyInvalidate  BY <1>6, InvalidateType
<1>7. CASE AnyTombstone  BY <1>7, TombstoneType DEF AnyTombstone
<1>8. CASE ensure_indexes
  BY <1>8 DEF ensure_indexes, CanonicalTypeOK, history, descriptors
<1>9. CASE UNCHANGED vars
  BY <1>9 DEF vars, CanonicalTypeOK, history, descriptors
<1> QED  BY <1>1, <1>2, <1>3, <1>4, <1>5, <1>6, <1>7, <1>8, <1>9 DEF AnyStep

(* How a step treats the derived state: it leaves an index alone, dirties it or *)
(* rebuilds it, and leaves the gauges alone or recomputes them.                 *)
LEMMA DerivedShape ==
    ASSUME [AnyStep]_vars
    PROVE  /\ indexes' \in {indexes, Null, records}
           /\ accounting' = accounting \/ recompute_accounting
<1> USE DEF MarkDirty, derived, recompute_accounting
<1>1. CASE SessionStep
  BY <1>1 DEF SessionStep, register_worker_session, on_worker_loss
<1>2. CASE AnyRegister
  BY <1>2 DEF AnyRegister, register_cache, register_location, register_replica, register_entry
<1>3. CASE AnyUpdate
  <2>1. ASSUME NEW i, NEW r, NEW env, ApplyEvidence(i, r, env)
        PROVE  /\ indexes' \in {indexes, Null, records}
               /\ accounting' = accounting \/ recompute_accounting
    BY <2>1 DEF ApplyEvidence
  <2>2. ASSUME NEW i, NEW s, NEW env, update_lifecycle(i, s, env)
        PROVE  /\ indexes' \in {indexes, Null, records}
               /\ accounting' = accounting \/ recompute_accounting
    BY <2>2 DEF update_lifecycle
  <2> HIDE DEF recompute_accounting
  <2> QED
    BY <1>3, <2>1, <2>2 DEF AnyUpdate, RecordUpdate, update_health, update_freshness,
                            update_reachability, update_integrity
<1>4. CASE AnyCacheUpdate
  BY <1>4 DEF AnyCacheUpdate, update_cache_health, update_cache_capacity
<1>5. CASE AnyLease
  BY <1>5 DEF AnyLease, register_lease, renew_lease, expire_lease, revoke_lease
<1>6. CASE AnyInvalidate
  BY <1>6 DEF AnyInvalidate, invalidate_state, invalidate_location, invalidate_replica,
              invalidate_cache, invalidate_worker_boot
<1>7. CASE AnyTombstone  BY <1>7 DEF AnyTombstone, tombstone
<1>8. CASE ensure_indexes  BY <1>8 DEF ensure_indexes
<1>9. CASE UNCHANGED vars  BY <1>9 DEF vars
<1> QED  BY <1>1, <1>2, <1>3, <1>4, <1>5, <1>6, <1>7, <1>8, <1>9 DEF AnyStep

(* The initial directory is well typed. *)
LEMMA TypeInit == Init => TypeOK
<1> SUFFICES ASSUME Init PROVE TypeOK
  OBVIOUS
<1>1. CanonicalTypeOK
  BY DEF Init, CanonicalTypeOK, OrNull
<1>2. accounting \in Accounting
  BY <1>1, GaugesType DEF Init, GaugesOK
<1> QED  BY <1>1, <1>2 DEF TypeOK, Init, OrNull

(* Every step of the directory keeps it well typed. *)
LEMMA TypeStep == TypeOK /\ [AnyStep]_vars => TypeOK'
<1> SUFFICES ASSUME TypeOK, [AnyStep]_vars PROVE TypeOK'
  OBVIOUS
<1>1. CanonicalTypeOK'  BY CanonicalStepType DEF TypeOK
<1>2. accounting' \in Accounting
  BY <1>1, DerivedShape, GaugesTypeNext DEF TypeOK, recompute_accounting
<1>3. indexes' \in OrNull(Seq(DirectoryRecord))
  BY DerivedShape DEF TypeOK, CanonicalTypeOK, OrNull
<1> QED  BY <1>1, <1>2, <1>3 DEF TypeOK

(* Whatever the workers request and in whatever order, every handler leaves    *)
(* records, descriptors, fences, tombstones, indexes and gauges well formed.   *)
THEOREM TypeCorrect == Spec => []TypeOK
  BY TypeInit, TypeStep, NextIsAny, PTL DEF Spec
=============================================================================
