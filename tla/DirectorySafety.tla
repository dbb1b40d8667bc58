--------------------------- MODULE DirectorySafety ---------------------------
(***************************************************************************)
(* The safety theorems of the directory.  Every step either keeps the      *)
(* vector of records in place, at most retiring some of them, or registers *)
(* exactly one; the invariants then follow from what registration and      *)
(* burial check, for any number of states, workers and requests.           *)
(***************************************************************************)
EXTENDS DirectoryProofs

(* What every step but a registration does to the history: the same records at *)
(* the same places, none revived, none refenced downwards.                     *)
KeepsRecord(r, q) ==
    /\ q.copy = r.copy /\ q.record_id = r.record_id /\ q.boot = r.boot
    /\ q.current => r.current
    /\ q.fence >= r.fence

KeepsHistory ==
    /\ Len(records') = Len(records) /\ DOMAIN records' = DOMAIN records
    /\ \A i \in DOMAIN records : KeepsRecord(records[i], records'[i])
    /\ current_state_gen' = current_state_gen

(* A record is kept by itself and by every marking the handlers apply. *)
LEMMA KeepMarked ==
    ASSUME NEW r \in DirectoryRecord
    PROVE  /\ KeepsRecord(r, r)
           /\ KeepsRecord(r, LoseRecord(r))
           /\ \A s : KeepsRecord(r, Retire(s, r))
           /\ KeepsRecord(r, MarkInvalidated(r))
           /\ KeepsRecord(r, MarkUnreachable(r))
  BY DEF KeepsRecord, LoseRecord, Retire, MarkInvalidated, MarkUnreachable, DirectoryRecord

(* A map over the vector that keeps every record keeps the history. *)
LEMMA KeepMapped ==
    ASSUME CanonicalTypeOK, current_state_gen' = current_state_gen,
           records' = [i \in DOMAIN records |-> records'[i]],
           \A i \in DOMAIN records : records'[i] \in DirectoryRecord /\ KeepsRecord(records[i], records'[i])
    PROVE  KeepsHistory
  BY ForRecordsLemma DEF KeepsHistory

(* A step that leaves the records alone keeps them. *)
LEMMA KeepUnchanged ==
    ASSUME CanonicalTypeOK, UNCHANGED <<records, current_state_gen>>
    PROVE  KeepsHistory
  BY RecordsDomain, KeepMarked DEF KeepsHistory

(* A controlled update keeps every record in its place and revives none. *)
LEMMA KeepUpdate ==
    ASSUME CanonicalTypeOK, AnyUpdate
    PROVE  KeepsHistory
<1>1. PICK i \in DOMAIN records, env \in Authorized : RecordUpdate(i, env)
  BY DEF AnyUpdate
<1>2. records[i] \in DirectoryRecord /\ env.fence \in Nat  BY RecordsDomain DEF Authorized
<1>3. ASSUME NEW q, records' = [records EXCEPT ![i] = q], KeepsRecord(records[i], q),
             current_state_gen' = current_state_gen
      PROVE  KeepsHistory
  <2>1. \A j \in DOMAIN records : KeepsRecord(records[j], records'[j])
    BY <1>3, RecordsDomain, KeepMarked
  <2>2. Len(records') = Len(records) /\ DOMAIN records' = DOMAIN records
    BY <1>3, RecordsDomain DEF CanonicalTypeOK
  <2> QED  BY <1>3, <2>1, <2>2 DEF KeepsHistory
<1>4. ASSUME NEW r, ApplyEvidence(i, r, env), KeepsRecord(records[i], r),
             r \in DirectoryRecord, r.fence = records[i].fence
      PROVE  KeepsHistory
  <2>1. env.fence >= records[i].fence
    BY <1>4 DEF ApplyEvidence, check_update_authority
  <2>2. KeepsRecord(records[i], [r EXCEPT !.lifecycle = derive_lifecycle(r), !.fence = env.fence])
    BY <1>2, <1>4, <2>1 DEF KeepsRecord, DirectoryRecord
  <2> QED  BY <1>3, <1>4, <2>2 DEF ApplyEvidence
<1>5. ASSUME NEW h \in HealthInputs, update_health(i, h, env) PROVE KeepsHistory
  <2>1. /\ [records[i] EXCEPT !.health = h] \in DirectoryRecord
        /\ KeepsRecord(records[i], [records[i] EXCEPT !.health = h])
        /\ [records[i] EXCEPT !.health = h].fence = records[i].fence
    BY <1>2, InputAssumption DEF KeepsRecord, DirectoryRecord
  <2> QED  BY <1>4, <1>5, <2>1 DEF update_health
<1>6. ASSUME NEW f \in FreshnessInputs, update_freshness(i, f, env) PROVE KeepsHistory
  <2>1. /\ [records[i] EXCEPT !.freshness = f] \in DirectoryRecord
        /\ KeepsRecord(records[i], [records[i] EXCEPT !.freshness = f])
        /\ [records[i] EXCEPT !.freshness = f].fence = records[i].fence
    BY <1>2, InputAssumption DEF KeepsRecord, DirectoryRecord
  <2> QED  BY <1>4, <1>6, <2>1 DEF update_freshness
<1>7. ASSUME NEW reach \in ReachabilityInputs, update_reachability(i, reach, env)
      PROVE  KeepsHistory
  <2>1. /\ [records[i] EXCEPT !.reachability = reach] \in DirectoryRecord
        /\ KeepsRecord(records[i], [records[i] EXCEPT !.reachability = reach])
        /\ [records[i] EXCEPT !.reachability = reach].fence = records[i].fence
    BY <1>2, InputAssumption DEF KeepsRecord, DirectoryRecord
  <2> QED  BY <1>4, <1>7, <2>1 DEF update_reachability
<1>8. ASSUME NEW integ \in IntegrityInputs, update_integrity(i, integ, env)
      PROVE  KeepsHistory
  <2>1. /\ [records[i] EXCEPT !.integrity = integ] \in DirectoryRecord
        /\ KeepsRecord(records[i], [records[i] EXCEPT !.integrity = integ])
        /\ [records[i] EXCEPT !.integrity = integ].fence = records[i].fence
    BY <1>2, InputAssumption DEF KeepsRecord, DirectoryRecord
  <2> QED  BY <1>4, <1>8, <2>1 DEF update_integrity
<1>9. ASSUME NEW s \in LifecycleInputs, update_lifecycle(i, s, env) PROVE KeepsHistory
  <2>1. env.fence >= records[i].fence
    BY <1>9 DEF update_lifecycle, check_update_authority
  <2>2. KeepsRecord(records[i], [records[i] EXCEPT !.lifecycle = s, !.fence = env.fence])
    BY <1>2, <2>1 DEF KeepsRecord, DirectoryRecord
  <2>3. records' = [records EXCEPT ![i] =
                       [records[i] EXCEPT !.lifecycle = s, !.fence = env.fence]]
    BY <1>9, RecordsDomain DEF update_lifecycle, CanonicalTypeOK
  <2> QED  BY <1>3, <1>9, <2>2, <2>3 DEF update_lifecycle
<1> QED  BY <1>1, <1>5, <1>6, <1>7, <1>8, <1>9 DEF RecordUpdate

(* Marking any set of records keeps the history. *)
LEMMA KeepForRecords ==
    ASSUME CanonicalTypeOK, current_state_gen' = current_state_gen, NEW S,
           \/ records' = ForRecords(S, LoseRecord)
           \/ records' = ForRecords(S, MarkInvalidated)
           \/ records' = ForRecords(S, MarkUnreachable)
           \/ records' = ForRecords(S, LAMBDA r : Retire("TOMBSTONED", r))
    PROVE  KeepsHistory
<1>1. CASE records' = ForRecords(S, LoseRecord)
  BY <1>1, RecordsDomain, KeepMarked, LoseType, KeepMapped DEF ForRecords
<1>2. CASE records' = ForRecords(S, MarkInvalidated)
  <2>1. \A r \in DirectoryRecord : MarkInvalidated(r) \in DirectoryRecord
    BY RetireType DEF MarkInvalidated, LifecycleState
  <2> QED  BY <1>2, <2>1, RecordsDomain, KeepMarked, KeepMapped DEF ForRecords
<1>3. CASE records' = ForRecords(S, MarkUnreachable)
  <2>1. \A r \in DirectoryRecord : MarkUnreachable(r) \in DirectoryRecord
    BY RetireType DEF MarkUnreachable, LifecycleState
  <2> QED  BY <1>3, <2>1, RecordsDomain, KeepMarked, KeepMapped DEF ForRecords
<1>4. CASE records' = ForRecords(S, LAMBDA r : Retire("TOMBSTONED", r))
  <2>1. \A r \in DirectoryRecord : Retire("TOMBSTONED", r) \in DirectoryRecord
    BY RetireType DEF LifecycleState
  <2> QED  BY <1>4, <2>1, RecordsDomain, KeepMarked, KeepMapped DEF ForRecords
<1> QED  BY <1>1, <1>2, <1>3, <1>4

(* A step registers one record or keeps the history. *)
LEMMA StepShape ==
    ASSUME CanonicalTypeOK, [AnyStep]_vars
    PROVE  \/ \E in \in RecordInputs, env \in Authorized : register_entry(in, env)
           \/ KeepsHistory
<1>1. CASE SessionStep
  <2>1. ASSUME NEW b, register_worker_session(b) PROVE KeepsHistory
    BY <2>1, KeepUnchanged DEF register_worker_session, history
  <2>2. ASSUME NEW b, on_worker_loss(b) PROVE KeepsHistory
    BY <2>2, KeepForRecords DEF on_worker_loss
  <2> QED  BY <1>1, <2>1, <2>2 DEF SessionStep
<1>2. CASE AnyRegister
  <2>1. ASSUME NEW in, NEW e,
               register_cache(in, e) \/ register_location(in, e) \/ register_replica(in, e)
        PROVE  KeepsHistory
    BY <2>1, KeepUnchanged DEF register_cache, register_location, register_replica, history
  <2> QED  BY <1>2, <2>1 DEF AnyRegister
<1>3. CASE AnyUpdate  BY <1>3, KeepUpdate
<1>4. CASE AnyCacheUpdate
  BY <1>4, KeepUnchanged DEF AnyCacheUpdate, update_cache_health, update_cache_capacity, history
<1>5. CASE AnyLease
  BY <1>5, KeepUnchanged DEF AnyLease, register_lease, renew_lease, expire_lease,
                             revoke_lease, LeaseFrame, history
<1>6. CASE AnyInvalidate
  <2>1. ASSUME NEW s, NEW g, NEW env, invalidate_state(s, g, env) PROVE KeepsHistory
    BY <2>1, KeepForRecords DEF invalidate_state, InvalidateFrame
  <2>2. ASSUME NEW l, NEW e, invalidate_location(l, e) PROVE KeepsHistory
    BY <2>2, KeepForRecords DEF invalidate_location, InvalidateFrame
  <2>3. ASSUME NEW r, NEW e, invalidate_replica(r, e) PROVE KeepsHistory
    BY <2>3, KeepForRecords DEF invalidate_replica, InvalidateFrame
  <2>4. ASSUME NEW c, NEW e, invalidate_cache(c, e) PROVE KeepsHistory
    BY <2>4, KeepForRecords DEF invalidate_cache, InvalidateFrame
  <2>5. ASSUME NEW b, NEW e, invalidate_worker_boot(b, e) PROVE KeepsHistory
    BY <2>5, KeepForRecords DEF invalidate_worker_boot, InvalidateFrame
  <2> QED  BY <1>6, <2>1, <2>2, <2>3, <2>4, <2>5 DEF AnyInvalidate
<1>7. CASE AnyTombstone
  BY <1>7, KeepForRecords DEF AnyTombstone, tombstone
<1>8. CASE ensure_indexes
  BY <1>8, KeepUnchanged DEF ensure_indexes, history
<1>9. CASE UNCHANGED vars
  BY <1>9, KeepUnchanged DEF vars, history
<1> QED  BY <1>1, <1>2, <1>3, <1>4, <1>5, <1>6, <1>7, <1>8, <1>9 DEF AnyStep

-----------------------------------------------------------------------------
(* What a registration does to the vector: one new current record at the end,  *)
(* the records already there retired or left alone.                            *)
LEMMA RegisterShape ==
    ASSUME CanonicalTypeOK, NEW in \in RecordInputs, NEW env \in Authorized,
           register_entry(in, env)
    PROVE  \E id \in Nat \ {0} :
           LET c == in.copy  n == Len(records) + 1 IN
           /\ check_registration(c, env) /\ c \in Copy
           /\ Len(records') = n /\ DOMAIN records' = 1..n /\ DOMAIN records = 1..(n - 1)
           /\ n \notin DOMAIN records
           /\ records'[n] = NewRecord(in, env, id)
           /\ \A i \in DOMAIN records :
                  records'[i] = IF i \in SupersededBy(c, id)
                                THEN Retire("SUPERSEDED", records[i]) ELSE records[i]
           /\ current_state_gen' =
                  [current_state_gen EXCEPT ![c.state_id] = c.state_generation]
<1>1. PICK id \in Nat \ {0} : commit_record(in, env, id)
  <2>1. in.record_id \in Nat /\ next_obj \in Nat \ {0}
    BY InputAssumption DEF CanonicalTypeOK, RecordInput
  <2> QED  BY <2>1 DEF register_entry
<1>2. check_registration(in.copy, env)  BY DEF register_entry
<1>3. in.copy \in Copy  BY <1>2, NewRecordType
<1> DEFINE f == ForRecords(SupersededBy(in.copy, id), LAMBDA r : Retire("SUPERSEDED", r))
<1>4. f \in Seq(DirectoryRecord) /\ Len(f) = Len(records) /\ DOMAIN f = DOMAIN records
  BY SupersedeType
<1>5. \A i \in DOMAIN records :
         f[i] = IF i \in SupersededBy(in.copy, id)
                THEN Retire("SUPERSEDED", records[i]) ELSE records[i]
  BY DEF ForRecords
<1>6. records' = Append(f, NewRecord(in, env, id))  BY <1>1 DEF commit_record
<1> HIDE DEF f
<1>7. /\ Len(records') = Len(records) + 1 /\ DOMAIN records' = 1..(Len(records) + 1)
      /\ records'[Len(records) + 1] = NewRecord(in, env, id)
      /\ \A i \in DOMAIN records : records'[i] = f[i]
  BY <1>4, <1>6, RecordsDomain
<1>8. DOMAIN records = 1..(Len(records) + 1 - 1) /\ Len(records) + 1 \notin DOMAIN records
  BY RecordsDomain
<1>9. current_state_gen' =
         [current_state_gen EXCEPT ![in.copy.state_id] = in.copy.state_generation]
  BY <1>1 DEF commit_record
<1> QED  BY <1>2, <1>3, <1>5, <1>7, <1>8, <1>9

(* A record survives every step at its place, with its copy, its id and its     *)
(* asserting incarnation; it is never revived nor refenced downwards.           *)
LEMMA RecordsSurvive ==
    ASSUME CanonicalTypeOK, [AnyStep]_vars
    PROVE  /\ Len(records') >= Len(records)
           /\ \A i \in DOMAIN records :
                  i \in DOMAIN records' /\ KeepsRecord(records[i], records'[i])
<1>1. CASE KeepsHistory  BY <1>1, RecordsDomain DEF KeepsHistory
<1>2. CASE \E in \in RecordInputs, env \in Authorized : register_entry(in, env)
  <2>1. PICK in \in RecordInputs, env \in Authorized : register_entry(in, env)
    BY <1>2
  <2>2. PICK id \in Nat \ {0} :
           /\ Len(records') = Len(records) + 1
           /\ DOMAIN records' = 1..(Len(records) + 1)
           /\ \A i \in DOMAIN records :
                  records'[i] = IF i \in SupersededBy(in.copy, id)
                                THEN Retire("SUPERSEDED", records[i]) ELSE records[i]
    BY <2>1, RegisterShape
  <2> QED  BY <2>2, RecordsDomain, KeepMarked
<1> QED  BY <1>1, <1>2, StepShape

(* CurrentIsNewest is inductive: a registration that raises the fence finds     *)
(* every current record of the state below it, and supersedes them all.         *)
LEMMA NewestStep ==
    ASSUME CanonicalTypeOK, CurrentIsNewest, [AnyStep]_vars
    PROVE  CurrentIsNewest'
<1>1. CASE KeepsHistory
  BY <1>1 DEF KeepsHistory, KeepsRecord, CurrentIsNewest
<1>2. CASE \E in \in RecordInputs, env \in Authorized : register_entry(in, env)
  <2>1. PICK in \in RecordInputs, env \in Authorized : register_entry(in, env)
    BY <1>2
  <2> DEFINE c == in.copy  n == Len(records) + 1
  <2>2. PICK id \in Nat \ {0} :
           /\ check_registration(c, env) /\ c \in Copy
           /\ DOMAIN records' = 1..n /\ DOMAIN records = 1..(n - 1)
           /\ records'[n] = NewRecord(in, env, id)
           /\ \A i \in DOMAIN records :
                  records'[i] = IF i \in SupersededBy(c, id)
                                THEN Retire("SUPERSEDED", records[i]) ELSE records[i]
           /\ current_state_gen' =
                  [current_state_gen EXCEPT ![c.state_id] = c.state_generation]
    BY <2>1, RegisterShape
  <2>3. /\ c.state_id \in States /\ c.state_generation \in Nat
        /\ c.state_generation >= current_state_gen[c.state_id]
        /\ DOMAIN current_state_gen = States
    BY <2>2 DEF Copy, CopyOver, check_registration, CanonicalTypeOK
  <2>4. ASSUME NEW i \in DOMAIN records, records'[i].current
        PROVE  records'[i].copy.state_generation
                   = current_state_gen'[records'[i].copy.state_id]
    <3>1. i \notin SupersededBy(c, id)
      BY <2>2, <2>4, RecordsDomain DEF Retire, DirectoryRecord
    <3>2. records'[i] = records[i]  BY <2>2, <3>1
    <3>3. /\ records[i].copy.state_id \in States
          /\ records[i].copy.state_generation \in Nat
          /\ records[i].copy.state_generation = current_state_gen[records[i].copy.state_id]
      BY <2>4, <3>2, RecordsDomain DEF CurrentIsNewest, DirectoryRecord, Copy, CopyOver
    <3>4. CASE records[i].copy.state_id # c.state_id
      BY <2>2, <2>3, <3>2, <3>3, <3>4
    <3>5. CASE records[i].copy.state_id = c.state_id
      <4>1. ~(c.state_generation > current_state_gen[c.state_id])
        BY <2>3, <2>4, <3>1, <3>2, <3>3, <3>5 DEF SupersededBy, OlderGeneration, NoGen
      <4> QED  BY <2>2, <2>3, <3>2, <3>3, <3>5, <4>1
    <3> QED  BY <3>4, <3>5
  <2>5. records'[n].copy.state_generation = current_state_gen'[records'[n].copy.state_id]
    BY <2>2, <2>3 DEF NewRecord
  <2>6. \A i \in DOMAIN records' : i \in DOMAIN records \/ i = n
    BY <2>2, RecordsDomain
  <2> QED  BY <2>4, <2>5, <2>6 DEF CurrentIsNewest
<1> QED  BY <1>1, <1>2, StepShape

(* UniqueCurrentCopy is inductive: registration refuses a copy that is current. *)
LEMMA UniqueStep ==
    ASSUME CanonicalTypeOK, UniqueCurrentCopy, [AnyStep]_vars
    PROVE  UniqueCurrentCopy'
<1>1. CASE KeepsHistory
  BY <1>1 DEF KeepsHistory, KeepsRecord, UniqueCurrentCopy
<1>2. CASE \E in \in RecordInputs, env \in Authorized : register_entry(in, env)
  <2>1. PICK in \in RecordInputs, env \in Authorized : register_entry(in, env)
    BY <1>2
  <2> DEFINE n == Len(records) + 1
  <2>2. PICK id \in Nat \ {0} :
           /\ check_registration(in.copy, env)
           /\ DOMAIN records' = 1..n /\ DOMAIN records = 1..(n - 1)
           /\ records'[n] = NewRecord(in, env, id)
    BY <2>1, RegisterShape
  <2>3. \A i \in DOMAIN records : records[i].current => ~SameCopy(records[i].copy, in.copy)
    BY <2>2 DEF check_registration, IsDuplicate
  <2>4. \A i \in DOMAIN records : KeepsRecord(records[i], records'[i])
    BY RecordsSurvive
  <2>5. records'[n].copy = in.copy  BY <2>2 DEF NewRecord
  <2>6. \A i \in DOMAIN records' : i \in DOMAIN records \/ i = n
    BY <2>2, RecordsDomain
  <2>7. \A a, b : SameCopy(a, b) <=> SameCopy(b, a)  BY DEF SameCopy
  <2>8. \A i \in DOMAIN records : /\ records'[i].copy = records[i].copy
                                  /\ records'[i].current => records[i].current
    BY <2>4 DEF KeepsRecord
  <2> HIDE DEF n
  <2> QED  BY <2>3, <2>5, <2>6, <2>7, <2>8 DEF UniqueCurrentCopy
<1> QED  BY <1>1, <1>2, StepShape

(* Only the tombstone handler touches the tombstones. *)
LEMMA TombstonesKept ==
    ASSUME [AnyStep]_vars
    PROVE  AnyTombstone \/ tombstones' = tombstones
<1>1. CASE SessionStep
  BY <1>1 DEF SessionStep, register_worker_session, on_worker_loss
<1>2. CASE AnyRegister
  BY <1>2 DEF AnyRegister, register_cache, register_location, register_replica, register_entry
<1>3. CASE AnyUpdate
  <2>1. ASSUME NEW i, NEW r, NEW env, ApplyEvidence(i, r, env)
        PROVE  tombstones' = tombstones
    BY <2>1 DEF ApplyEvidence
  <2> QED
    BY <1>3, <2>1 DEF AnyUpdate, RecordUpdate, update_health, update_freshness, update_reachability,
                      update_integrity, update_lifecycle
<1>4. CASE AnyCacheUpdate
  BY <1>4 DEF AnyCacheUpdate, update_cache_health, update_cache_capacity
<1>5. CASE AnyLease
  BY <1>5 DEF AnyLease, register_lease, renew_lease, expire_lease, revoke_lease, LeaseFrame
<1>6. CASE AnyInvalidate
  BY <1>6 DEF AnyInvalidate, invalidate_state, invalidate_location, invalidate_replica,
              invalidate_cache, invalidate_worker_boot, InvalidateFrame
<1>7. CASE ensure_indexes  BY <1>7 DEF ensure_indexes
<1>8. CASE UNCHANGED vars  BY <1>8 DEF vars
<1> QED  BY <1>1, <1>2, <1>3, <1>4, <1>5, <1>6, <1>7, <1>8 DEF AnyStep

(* BuriedNeverCurrent is inductive: burial retires what it covers, registration *)
(* refuses what is covered, and nothing revives a record.                       *)
LEMMA BuriedStep ==
    ASSUME CanonicalTypeOK, BuriedNeverCurrent, [AnyStep]_vars
    PROVE  BuriedNeverCurrent'
<1> DEFINE Covered(t, r) ==
        TombstoneCovers(t, "STATE", r.copy.state_id, r.copy.state_generation)
<1>1. \A i \in DOMAIN records, n \in DOMAIN tombstones :
         Covered(tombstones[n], records[i]) => ~records[i].current
  BY DEF BuriedNeverCurrent
<1>2. \A i \in DOMAIN records : /\ records'[i].copy = records[i].copy
                                /\ records'[i].current => records[i].current
  BY RecordsSurvive DEF KeepsRecord
<1>3. CASE AnyTombstone
  <2>1. PICK t \in TombstoneInputs : \E e : tombstone(t, e)
    BY <1>3 DEF AnyTombstone
  <2>2. records' = ForRecords(BuriedBy(t), LAMBDA r : Retire("TOMBSTONED", r))
    BY <2>1 DEF tombstone
  <2>3. DOMAIN records' = DOMAIN records  BY <2>2 DEF ForRecords
  <2>4. /\ DOMAIN tombstones' = 1..(Len(tombstones) + 1) /\ DOMAIN tombstones = 1..Len(tombstones)
        /\ Len(tombstones) \in Nat /\ tombstones'[Len(tombstones) + 1] = t
        /\ \A n \in DOMAIN tombstones : tombstones'[n] = tombstones[n]
    BY <2>1 DEF tombstone, CanonicalTypeOK
  <2>5. ASSUME NEW i \in DOMAIN records, Covered(t, records[i]) PROVE ~records'[i].current
    <3>1. i \in BuriedBy(t)
      BY <2>5 DEF TombstoneCovers, BuriedBy, FlooredKinds
    <3> QED  BY <2>2, <3>1, RecordsDomain DEF ForRecords, Retire, DirectoryRecord
  <2>6. \A n \in DOMAIN tombstones' : n \in DOMAIN tombstones \/ n = Len(tombstones) + 1
    BY <2>4
  <2>7. ASSUME NEW i \in DOMAIN records', NEW n \in DOMAIN tombstones',
               Covered(tombstones'[n], records'[i])
        PROVE  ~records'[i].current
    <3>1. Covered(tombstones'[n], records[i])  BY <1>2, <2>3, <2>7
    <3> HIDE DEF Covered
    <3> QED  BY <1>1, <1>2, <2>3, <2>4, <2>5, <2>6, <3>1
  <2> QED  BY <2>7 DEF BuriedNeverCurrent
<1>4. CASE tombstones' = tombstones
  <2>1. CASE KeepsHistory
    BY <1>1, <1>2, <1>4, <2>1 DEF KeepsHistory, BuriedNeverCurrent
  <2>2. CASE \E in \in RecordInputs, env \in Authorized : register_entry(in, env)
    <3>1. PICK in \in RecordInputs, env \in Authorized : register_entry(in, env)
      BY <2>2
    <3>2. PICK id \in Nat \ {0} :
             /\ check_registration(in.copy, env)
             /\ DOMAIN records' = 1..(Len(records) + 1)
             /\ DOMAIN records = 1..(Len(records) + 1 - 1)
             /\ records'[Len(records) + 1] = NewRecord(in, env, id)
      BY <3>1, RegisterShape
    <3>3. \A n \in DOMAIN tombstones : ~Covered(tombstones[n], records'[Len(records) + 1])
      BY <3>2 DEF check_registration, covered_by_tombstone, NewRecord
    <3>4. \A i \in DOMAIN records' : i \in DOMAIN records \/ i = Len(records) + 1
      BY <3>2, RecordsDomain
    <3>5. ASSUME NEW i \in DOMAIN records', NEW n \in DOMAIN tombstones',
                 Covered(tombstones'[n], records'[i])
          PROVE  ~records'[i].current
      <4>1. i \in DOMAIN records  BY <1>4, <3>3, <3>4, <3>5
      <4>2. Covered(tombstones[n], records[i])  BY <1>2, <1>4, <3>5, <4>1
      <4> HIDE DEF Covered
      <4> QED  BY <1>1, <1>2, <1>4, <4>1, <4>2
    <3> QED  BY <3>5 DEF BuriedNeverCurrent
  <2> QED  BY <2>1, <2>2, StepShape
<1> QED  BY <1>3, <1>4, TombstonesKept

-----------------------------------------------------------------------------
(* The inductive invariant. *)
SafetyInv == TypeOK /\ CurrentIsNewest /\ UniqueCurrentCopy /\ BuriedNeverCurrent

(* The directory always satisfies the inductive invariant. *)
THEOREM SafetyInductive == Spec => []SafetyInv
<1>1. Init => SafetyInv
  <2>1. Init => records = <<>>  BY DEF Init
  <2> QED
    BY <2>1, TypeInit DEF SafetyInv, CurrentIsNewest, UniqueCurrentCopy, BuriedNeverCurrent
<1>2. SafetyInv /\ [AnyStep]_vars => SafetyInv'
  BY TypeStep, NewestStep, UniqueStep, BuriedStep DEF SafetyInv, TypeOK
<1> QED  BY <1>1, <1>2, NextIsAny, PTL DEF Spec

(* Two generations of a state are never current together (commit_record).      *)
THEOREM NewestOnly == Spec => []CurrentIsNewest
<1>1. SafetyInv => CurrentIsNewest  BY DEF SafetyInv
<1> QED  BY <1>1, SafetyInductive, PTL

(* A retried registration never publishes a copy twice (check_registration).   *)
THEOREM NoDuplicateCopy == Spec => []UniqueCurrentCopy
<1>1. SafetyInv => UniqueCurrentCopy  BY DEF SafetyInv
<1> QED  BY <1>1, SafetyInductive, PTL

(* A buried generation is never current again (tombstone, check_registration). *)
THEOREM NoResurrection == Spec => []BuriedNeverCurrent
<1>1. SafetyInv => BuriedNeverCurrent  BY DEF SafetyInv
<1> QED  BY <1>1, SafetyInductive, PTL

(* The generation fence of a state only grows. *)
LEMMA FenceGrows ==
    ASSUME CanonicalTypeOK, [AnyStep]_vars
    PROVE  \A s \in States : current_state_gen'[s] >= current_state_gen[s]
<1>0. \A s \in States : current_state_gen[s] \in Int
  BY DEF CanonicalTypeOK, NoGen
<1>1. CASE KeepsHistory  BY <1>0, <1>1 DEF KeepsHistory
<1>2. CASE \E in \in RecordInputs, env \in Authorized : register_entry(in, env)
  <2>1. PICK in \in RecordInputs, env \in Authorized : register_entry(in, env)
    BY <1>2
  <2>2. /\ in.copy.state_generation >= current_state_gen[in.copy.state_id]
        /\ current_state_gen' =
               [current_state_gen EXCEPT ![in.copy.state_id] = in.copy.state_generation]
    BY <2>1 DEF register_entry, check_registration, commit_record
  <2> QED  BY <1>0, <2>2 DEF CanonicalTypeOK
<1> QED  BY <1>1, <1>2, StepShape

(* No handler erases, reorders, rewrites or revives a record, nor lowers a      *)
(* generation fence.                                                            *)
THEOREM HistoryPreserved == Spec => HistoryIsAppendOnly
<1> DEFINE A == /\ Len(records') >= Len(records)
                /\ \A i \in DOMAIN records :
                       /\ records'[i].copy = records[i].copy
                       /\ records'[i].record_id = records[i].record_id
                       /\ records'[i].boot = records[i].boot
                       /\ records'[i].current => records[i].current
                /\ \A s \in States : current_state_gen'[s] >= current_state_gen[s]
<1>1. TypeOK /\ [AnyStep]_vars => [A]_vars
  BY RecordsSurvive, FenceGrows DEF KeepsRecord, TypeOK
<1>2. [][A]_vars <=> HistoryIsAppendOnly  BY DEF HistoryIsAppendOnly
<1> QED  BY <1>1, <1>2, TypeCorrect, NextIsAny, PTL DEF Spec
=============================================================================
