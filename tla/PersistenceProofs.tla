------------------------- MODULE PersistenceProofs -------------------------
(***************************************************************************)
(* Saving is atomic, recovery confers nothing, and the safety of the       *)
(* directory survives crashes and restarts, burial in the file included.   *)
(***************************************************************************)
EXTENDS PersistenceRefinement, RefinementProofs, DirectoryAuthority

(* Files hold whole images or are torn, and a temporary file that was written  *)
(* is the image of the directory, which cannot change while dir_mutex_ is held.*)
StorageInv ==
    /\ mode \in {"UP", "SAVING", "DOWN"}
    /\ restarts \in Nat
    /\ file \in Image \cup {Null, Torn}
    /\ temp \in Image \cup {Null, Torn}
    /\ mode = "SAVING" /\ temp # Torn => temp = save_to_buffer

PersistentInv == CanonicalTypeOK /\ CurrentIsNewest /\ StorageInv

(* What save_to_buffer writes is a whole image. *)
LEMMA BufferType == CanonicalTypeOK => save_to_buffer \in Image
  BY DEF CanonicalTypeOK, save_to_buffer, Image

(* A directory that was just constructed is a recoverable image. *)
LEMMA BlankType == Blank \in Image /\ IsRecoverable(Blank)
  BY DEF Blank, Image, OrNull, IsRecoverable, CurrentGenerations

(* In a recoverable image a state has one current generation, which is the one *)
(* the rebuilt fence holds.                                                    *)
LEMMA RebuiltFence ==
    ASSUME NEW image \in Image, IsRecoverable(image)
    PROVE  /\ RebuiltGenerations(image.records) \in [States -> Nat \cup {NoGen}]
           /\ \A i \in DOMAIN image.records :
                  image.records[i].current =>
                      RebuiltGenerations(image.records)[image.records[i].copy.state_id]
                          = image.records[i].copy.state_generation
<1> DEFINE recs == image.records
<1>1. /\ recs \in Seq(DirectoryRecord)
      /\ \A i \in DOMAIN recs : recs[i] \in DirectoryRecord
  BY DEF Image
<1>2. \A i \in DOMAIN recs : /\ recs[i].copy.state_id \in States
                             /\ recs[i].copy.state_generation \in Nat
  BY <1>1 DEF DirectoryRecord, Copy, CopyOver
<1>3. \A s : CurrentGenerations(recs, s) \subseteq Nat
  BY <1>2 DEF CurrentGenerations
<1>4. \A s \in States : \A g, h \in CurrentGenerations(recs, s) : g = h
  BY DEF IsRecoverable
<1>5. ASSUME NEW s \in States, NEW g \in CurrentGenerations(recs, s)
      PROVE  RebuiltGenerations(recs)[s] = g
  <2>1. g \in Nat /\ \A h \in CurrentGenerations(recs, s) : h = g  BY <1>3, <1>4
  <2>2. \E f \in CurrentGenerations(recs, s) : \A h \in CurrentGenerations(recs, s) : h <= f
    BY <2>1
  <2>3. (CHOOSE f \in CurrentGenerations(recs, s) :
             \A h \in CurrentGenerations(recs, s) : h <= f) \in CurrentGenerations(recs, s)
    BY <2>2
  <2> QED  BY <2>1, <2>3 DEF RebuiltGenerations
<1>6. ASSUME NEW s \in States PROVE RebuiltGenerations(recs)[s] \in Nat \cup {NoGen}
  <2>1. CASE CurrentGenerations(recs, s) = {}  BY <2>1 DEF RebuiltGenerations
  <2>2. CASE CurrentGenerations(recs, s) # {}
    <3>1. PICK g \in CurrentGenerations(recs, s) : TRUE  BY <2>2
    <3> QED  BY <1>3, <1>5, <3>1
  <2> QED  BY <2>1, <2>2
<1>7. RebuiltGenerations(recs) = [s \in States |-> RebuiltGenerations(recs)[s]]
  BY DEF RebuiltGenerations
<1>8. RebuiltGenerations(recs) \in [States -> Nat \cup {NoGen}]
  BY <1>6, <1>7
<1>9. \A i \in DOMAIN recs : recs[i].current =>
         recs[i].copy.state_generation \in CurrentGenerations(recs, recs[i].copy.state_id)
  BY DEF CurrentGenerations
<1> QED  BY <1>2, <1>5, <1>8, <1>9

(* Recovering a record keeps its identity and quarantines its evidence. *)
LEMMA RecoverRecordLemma ==
    ASSUME NEW r \in DirectoryRecord
    PROVE  /\ RecoverRecord(r) \in DirectoryRecord
           /\ RecoverRecord(r).copy = r.copy /\ RecoverRecord(r).current = r.current
           /\ RecoverRecord(r).lifecycle # "AVAILABLE"
           /\ RecoverRecord(r).freshness # "CURRENT"
  BY DEF RecoverRecord, RecoverFreshness, DirectoryRecord, Freshness, Reachability, LifecycleState

(* Loading a recoverable image gives a well typed directory whose current      *)
(* records are of the newest generation, and in which nothing is live.         *)
LEMMA LoadLemma ==
    ASSUME NEW image \in Image, IsRecoverable(image), Load(image), next_obj' \in Nat \ {0}
    PROVE  /\ CanonicalTypeOK'
           /\ CurrentIsNewest'
           /\ \A b \in Boots : workers'[b] = "NONE"
           /\ \A l \in Leases : leases'[l] # Null => leases'[l].state # "ACTIVE"
           /\ \A i \in DOMAIN records' :
                  records'[i].lifecycle # "AVAILABLE" /\ records'[i].freshness # "CURRENT"
<1> DEFINE recs == image.records
<1>1. /\ recs \in Seq(DirectoryRecord) /\ DOMAIN recs = 1..Len(recs) /\ Len(recs) \in Nat
      /\ \A i \in DOMAIN recs : recs[i] \in DirectoryRecord
  BY DEF Image
<1>2. records' = [i \in DOMAIN recs |-> RecoverRecord(recs[i])]  BY DEF Load
<1> HIDE DEF recs
<1>3. records' \in Seq(DirectoryRecord)
  <2>1. records' \in [1..Len(recs) -> DirectoryRecord]
    BY <1>1, <1>2, RecoverRecordLemma
  <2> QED  BY <1>1, <2>1, SeqOfFunction
<1>4. DOMAIN records' = DOMAIN recs /\ \A i \in DOMAIN recs : records'[i] = RecoverRecord(recs[i])
  BY <1>2
<1>5. /\ current_state_gen' = RebuiltGenerations(recs)
      /\ workers' = [b \in Boots |-> "NONE"]
      /\ epoch' = image.epoch + 1 /\ directory_generation' = image.directory_generation
      /\ caches' = image.caches /\ replicas' = image.replicas
      /\ tombstones' = image.tombstones
  BY DEF Load, recs
<1>6. /\ RebuiltGenerations(recs) \in [States -> Nat \cup {NoGen}]
      /\ \A i \in DOMAIN recs : recs[i].current =>
             RebuiltGenerations(recs)[recs[i].copy.state_id] = recs[i].copy.state_generation
  BY RebuiltFence DEF recs
<1>7. locations' \in [Locations -> OrNull(LocationDescriptor)]
  <2>1. ASSUME NEW l \in OrNull(LocationDescriptor)
        PROVE  RecoverLocation(l) \in OrNull(LocationDescriptor)
    BY DEF RecoverLocation, RecoverFreshness, OrNull, LocationDescriptor, Freshness, Reachability
  <2>2. \A l \in Locations : image.locations[l] \in OrNull(LocationDescriptor)
    BY DEF Image
  <2> QED  BY <2>1, <2>2 DEF Load
<1>8. /\ leases' \in [Leases -> OrNull(LeaseDescriptor)]
      /\ \A l \in Leases : leases'[l] # Null => leases'[l].state # "ACTIVE"
  <2>1. ASSUME NEW l \in OrNull(LeaseDescriptor)
        PROVE  /\ RecoverLease(l) \in OrNull(LeaseDescriptor)
               /\ RecoverLease(l) # Null => RecoverLease(l).state # "ACTIVE"
    BY DEF RecoverLease, OrNull, LeaseDescriptor, LeaseState
  <2>2. \A l \in Leases : image.leases[l] \in OrNull(LeaseDescriptor)
    BY DEF Image
  <2> QED  BY <2>1, <2>2 DEF Load
<1>9. /\ epoch' \in Nat /\ directory_generation' \in Nat
      /\ caches' \in [Caches -> OrNull(CacheDescriptor)]
      /\ replicas' \in [Replicas -> OrNull(ReplicaDescriptor)]
      /\ tombstones' \in Seq(TombstoneRecord)
  BY <1>5 DEF Image
<1>10. CanonicalTypeOK'
  BY <1>3, <1>5, <1>6, <1>7, <1>8, <1>9 DEF CanonicalTypeOK
<1>11. CurrentIsNewest'
  BY <1>1, <1>4, <1>5, <1>6, RecoverRecordLemma DEF CurrentIsNewest
<1>12. \A i \in DOMAIN records' :
          records'[i].lifecycle # "AVAILABLE" /\ records'[i].freshness # "CURRENT"
  BY <1>1, <1>4, RecoverRecordLemma
<1> QED  BY <1>5, <1>8, <1>10, <1>11, <1>12

(* A coordinator that never saved satisfies the invariant. *)
LEMMA PersistentInvInit == PersistentInit => PersistentInv
<1> SUFFICES ASSUME PersistentInit PROVE PersistentInv
  OBVIOUS
<1>1. CanonicalTypeOK /\ records = <<>>
  BY TypeInit DEF PersistentInit, TypeOK, Init
<1>2. StorageInv  BY DEF PersistentInit, StorageInv
<1> QED  BY <1>1, <1>2 DEF PersistentInv, CurrentIsNewest

(* Steps that leave the directory alone leave its invariants and image alone. *)
LEMMA FrozenDirectory ==
    ASSUME UNCHANGED vars, CanonicalTypeOK, CurrentIsNewest
    PROVE  /\ CanonicalTypeOK' /\ CurrentIsNewest'
           /\ save_to_buffer' = save_to_buffer
  BY DEF vars, history, descriptors, CanonicalTypeOK, CurrentIsNewest, save_to_buffer

(* Every step of the directory, every step of a save, a crash, a restart and a
   recovery preserve the invariant. *)
LEMMA PersistentInvStep ==
    PersistentInv /\ [PersistentNext]_persistent_vars => PersistentInv'
<1> SUFFICES ASSUME PersistentInv, [PersistentNext]_persistent_vars PROVE PersistentInv'
  OBVIOUS
<1>0. CanonicalTypeOK /\ CurrentIsNewest /\ StorageInv /\ next_obj \in Nat \ {0}
  BY DEF PersistentInv, CanonicalTypeOK
<1>1. CASE mode = "UP" /\ Next /\ UNCHANGED storage
  <2>1. CanonicalTypeOK' /\ CurrentIsNewest'
    BY <1>0, <1>1, NextIsAny, CanonicalStepType, NewestStep
  <2>2. StorageInv'  BY <1>0, <1>1 DEF StorageInv, storage
  <2> QED  BY <2>1, <2>2 DEF PersistentInv
<1>2. CASE save_open
  <2>1. StorageInv'  BY <1>0, <1>2 DEF StorageInv, save_open
  <2> QED  BY <1>0, <1>2, <2>1, FrozenDirectory DEF PersistentInv, save_open
<1>3. CASE save_write
  <2>1. CanonicalTypeOK' /\ CurrentIsNewest' /\ save_to_buffer' = save_to_buffer
    BY <1>0, <1>3, FrozenDirectory DEF save_write
  <2>2. save_to_buffer \in Image  BY <1>0, BufferType
  <2>3. StorageInv'  BY <1>0, <1>3, <2>1, <2>2 DEF StorageInv, save_write
  <2> QED  BY <2>1, <2>3 DEF PersistentInv
<1>4. CASE save_fail
  <2>1. StorageInv'  BY <1>0, <1>4 DEF StorageInv, save_fail
  <2> QED  BY <1>0, <1>4, <2>1, FrozenDirectory DEF PersistentInv, save_fail
<1>5. CASE save_rename
  <2>1. StorageInv'  BY <1>0, <1>5 DEF StorageInv, save_rename
  <2> QED  BY <1>0, <1>5, <2>1, FrozenDirectory DEF PersistentInv, save_rename
<1>6. CASE crash
  <2>1. CanonicalTypeOK' /\ CurrentIsNewest'
    BY <1>6, BlankType, LoadLemma DEF crash
  <2>2. StorageInv'  BY <1>0, <1>6 DEF StorageInv, crash
  <2> QED  BY <2>1, <2>2 DEF PersistentInv
<1>7. CASE start
  <2>1. CanonicalTypeOK' /\ CurrentIsNewest'
    <3>1. CASE file = Null  BY <1>7, <3>1, BlankType, LoadLemma DEF start
    <3>2. CASE file # Null
      BY <1>0, <1>7, <3>2, LoadLemma DEF start, StorageInv
    <3> QED  BY <3>1, <3>2
  <2>2. StorageInv'  BY <1>0, <1>7 DEF StorageInv, start
  <2> QED  BY <2>1, <2>2 DEF PersistentInv
<1>8. CASE recover
  <2>1. CanonicalTypeOK' /\ CurrentIsNewest'
    BY <1>0, <1>8, LoadLemma DEF recover, StorageInv
  <2>2. StorageInv'  BY <1>0, <1>8 DEF StorageInv, recover
  <2> QED  BY <2>1, <2>2 DEF PersistentInv
<1>9. CASE UNCHANGED persistent_vars
  <2>1. UNCHANGED vars /\ UNCHANGED storage  BY <1>9 DEF persistent_vars
  <2>2. CanonicalTypeOK' /\ CurrentIsNewest' /\ save_to_buffer' = save_to_buffer
    BY <1>0, <2>1, FrozenDirectory
  <2>3. StorageInv'  BY <1>0, <2>1, <2>2 DEF StorageInv, storage
  <2> QED  BY <2>2, <2>3 DEF PersistentInv
<1> QED
  BY <1>1, <1>2, <1>3, <1>4, <1>5, <1>6, <1>7, <1>8, <1>9 DEF PersistentNext

(* Across saves, crashes and restarts the directory is well typed, holds one current
   generation per state, and its files hold whole images or are torn. *)
THEOREM PersistentInvHolds == PersistentSpec => []PersistentInv
  BY PersistentInvInit, PersistentInvStep, PTL DEF PersistentSpec

(* Two generations of a state are never current together, across any number of *)
(* saves, crashes, restarts and recoveries of the coordinator.                 *)
THEOREM NewestOnlyAcrossRestarts == PersistentSpec => []CurrentIsNewest
<1>1. PersistentInv => CurrentIsNewest  BY DEF PersistentInv
<1> QED  BY <1>1, PersistentInvHolds, PTL

(* A save interrupted anywhere leaves the old file or the whole new one.       *)
THEOREM AtomicSave == PersistentSpec => SavesAreAtomic
<1> DEFINE A == file' # file => file' = save_to_buffer
<1>1. PersistentInv /\ [PersistentNext]_persistent_vars => [A]_persistent_vars
  BY DEF PersistentInv, StorageInv, PersistentNext, storage, save_open, save_write,
         save_fail, save_rename, crash, start, recover
<1>2. [][A]_persistent_vars <=> SavesAreAtomic  BY DEF SavesAreAtomic
<1> QED  BY <1>1, <1>2, PersistentInvHolds, PTL DEF PersistentSpec

(* A recovered coordinator trusts nothing it read: no session, lease or record *)
(* of an earlier life is live, active or available.                            *)
THEOREM RecoveryIsQuarantine == PersistentSpec => RecoveryConfersNothing
<1> DEFINE A == restarts' # restarts =>
                  /\ \A b \in Boots : workers'[b] = "NONE"
                  /\ \A l \in Leases : leases'[l] # Null => leases'[l].state # "ACTIVE"
                  /\ \A i \in DOMAIN records' :
                         /\ records'[i].lifecycle # "AVAILABLE"
                         /\ records'[i].freshness # "CURRENT"
<1>1. ASSUME PersistentInv, PersistentNext PROVE A
  <2>0. StorageInv /\ next_obj \in Nat \ {0}
    BY <1>1 DEF PersistentInv, CanonicalTypeOK
  <2>1. CASE start
    <3>1. CASE file = Null  BY <2>1, <3>1, BlankType, LoadLemma DEF start
    <3>2. CASE file # Null
      BY <2>0, <2>1, <3>2, LoadLemma DEF start, StorageInv
    <3> QED  BY <3>1, <3>2
  <2>2. CASE recover
    BY <2>0, <2>2, LoadLemma DEF recover, StorageInv
  <2>3. CASE ~start /\ ~recover
    <3>1. restarts' = restarts
      BY <1>1, <2>3 DEF PersistentNext, storage, save_open, save_write, save_fail,
                        save_rename, crash
    <3> QED  BY <3>1
  <2> QED  BY <2>1, <2>2, <2>3
<1>2. PersistentInv /\ [PersistentNext]_persistent_vars => [A]_persistent_vars
  BY <1>1
<1>3. [][A]_persistent_vars <=> RecoveryConfersNothing  BY DEF RecoveryConfersNothing
<1> QED  BY <1>2, <1>3, PersistentInvHolds, PTL DEF PersistentSpec

-----------------------------------------------------------------------------
(* What the file preserves of the directory's safety. *)

(* An image a safe directory wrote: no copy is current twice, no current record *)
(* is buried, and every record has its descriptors.                             *)
SafeImage(image) ==
    /\ \A i, j \in DOMAIN image.records :
           image.records[i].current /\ image.records[j].current
               /\ SameCopy(image.records[i].copy, image.records[j].copy) => i = j
    /\ \A i \in DOMAIN image.records, n \in DOMAIN image.tombstones :
           TombstoneCovers(image.tombstones[n], "STATE", image.records[i].copy.state_id,
                           image.records[i].copy.state_generation)
               => ~image.records[i].current
    /\ \A i \in DOMAIN image.records :
           LET c == image.records[i].copy IN
           /\ image.caches[c.cache] # Null
           /\ image.replicas[c.replica] # Null
           /\ image.locations[c.location] # Null
           /\ image.locations[c.location].worker_boot = c.worker_boot

(* The directory's own invariants, with or without a file. *)
DirectoryInv == OwnershipInv /\ UniqueCurrentCopy /\ BuriedNeverCurrent

(* The file is safe to recover from, and every tombstone in it is in memory too *)
(* as long as the coordinator runs.                                             *)
FileInv ==
    file \notin {Null, Torn} =>
        /\ SafeImage(file)
        /\ mode # "DOWN" =>
               \A n \in DOMAIN file.tombstones :
                   \E m \in DOMAIN tombstones : tombstones[m] = file.tombstones[n]

DurableInv == PersistentInv /\ DirectoryInv /\ FileInv

(* What a safe directory writes is a safe image. *)
LEMMA BufferSafe == DirectoryInv => SafeImage(save_to_buffer)
<1> SUFFICES ASSUME DirectoryInv PROVE SafeImage(save_to_buffer)
  OBVIOUS
<1>1. /\ save_to_buffer.records = records /\ save_to_buffer.tombstones = tombstones
      /\ save_to_buffer.caches = caches /\ save_to_buffer.replicas = replicas
      /\ save_to_buffer.locations = locations
  BY DEF save_to_buffer
<1>2. UniqueCurrentCopy /\ BuriedNeverCurrent /\ RecordsAreOwned
  BY DEF DirectoryInv, OwnershipInv
<1> QED  BY <1>1, <1>2 DEF SafeImage, UniqueCurrentCopy, BuriedNeverCurrent, RecordsAreOwned

(* A recovered location is still there and still of the same incarnation. *)
LEMMA RecoverLocationLemma ==
    ASSUME NEW l \in OrNull(LocationDescriptor), l # Null
    PROVE  RecoverLocation(l) # Null /\ RecoverLocation(l).worker_boot = l.worker_boot
<1>1. l \in LocationDescriptor  BY DEF OrNull
<1>2. RecoverLocation(l) \in LocationDescriptor
  BY <1>1 DEF RecoverLocation, RecoverFreshness, LocationDescriptor, Freshness, Reachability
<1>3. RecoverLocation(l) # Null  BY <1>2, NullAssumption
<1> QED  BY <1>1, <1>3 DEF RecoverLocation, LocationDescriptor

(* Loading a safe image gives a safe directory, with the tombstones of the image. *)
LEMMA LoadSafe ==
    ASSUME NEW image \in Image, IsRecoverable(image), SafeImage(image), Load(image),
           next_obj' \in Nat \ {0}
    PROVE  DirectoryInv' /\ tombstones' = image.tombstones
<1> DEFINE recs == image.records
<1>1. /\ \A i \in DOMAIN recs : recs[i] \in DirectoryRecord
      /\ image.locations \in [Locations -> OrNull(LocationDescriptor)]
  BY DEF Image
<1>2. records' = [i \in DOMAIN recs |-> RecoverRecord(recs[i])]  BY DEF Load
<1>3. /\ DOMAIN records' = DOMAIN recs
      /\ \A i \in DOMAIN recs : /\ records'[i].copy = recs[i].copy
                                /\ records'[i].current = recs[i].current
  BY <1>1, <1>2, RecoverRecordLemma
<1>4. /\ tombstones' = image.tombstones /\ caches' = image.caches
      /\ replicas' = image.replicas
      /\ locations' = [l \in Locations |-> RecoverLocation(image.locations[l])]
      /\ indexes' = Null /\ accounting' = Gauges'
  BY DEF Load, MarkDirty, recompute_accounting
<1>5. UniqueCurrentCopy'
  BY <1>3 DEF SafeImage, UniqueCurrentCopy
<1>6. BuriedNeverCurrent'
  BY <1>3, <1>4 DEF SafeImage, BuriedNeverCurrent
<1>7. RecordsAreOwned'
  <2> SUFFICES ASSUME NEW i \in DOMAIN recs
               PROVE  LET c == recs[i].copy IN
                      /\ caches'[c.cache] # Null /\ replicas'[c.replica] # Null
                      /\ locations'[c.location] # Null
                      /\ locations'[c.location].worker_boot = c.worker_boot
    BY <1>3 DEF RecordsAreOwned
  <2> DEFINE l == recs[i].copy.location
  <2>1. l \in Locations  BY <1>1 DEF DirectoryRecord, Copy, CopyOver
  <2>2. image.locations[l] # Null /\ image.locations[l].worker_boot = recs[i].copy.worker_boot
    BY DEF SafeImage
  <2>3. locations'[l] = RecoverLocation(image.locations[l])  BY <1>4, <2>1
  <2>4. locations'[l] # Null /\ locations'[l].worker_boot = recs[i].copy.worker_boot
    BY <1>1, <2>1, <2>2, <2>3, RecoverLocationLemma
  <2>5. image.caches[recs[i].copy.cache] # Null /\ image.replicas[recs[i].copy.replica] # Null
    BY DEF SafeImage
  <2> QED  BY <1>4, <2>4, <2>5
<1>8. TypeOK'
  <2>1. CanonicalTypeOK'  BY LoadLemma
  <2> QED  BY <1>4, <2>1, GaugesTypeNext DEF TypeOK, OrNull
<1>9. StateIndexAgrees' /\ CountsExact'
  BY <1>4 DEF StateIndexAgrees, CountsExact
<1> QED  BY <1>4, <1>5, <1>6, <1>7, <1>8, <1>9 DEF DirectoryInv, OwnershipInv

(* A step of the directory keeps its invariants and every tombstone it has. *)
LEMMA DirectoryKept ==
    ASSUME DirectoryInv, [AnyStep]_vars
    PROVE  /\ DirectoryInv'
           /\ \A m \in DOMAIN tombstones :
                  m \in DOMAIN tombstones' /\ tombstones'[m] = tombstones[m]
<1>1. CanonicalTypeOK  BY DEF DirectoryInv, OwnershipInv, TypeOK
<1>2. DirectoryInv'
  BY <1>1, OwnershipStep, UniqueStep, BuriedStep DEF DirectoryInv
<1>3. CASE tombstones' = tombstones  BY <1>2, <1>3
<1>4. CASE AnyTombstone
  <2>1. PICK t \in TombstoneInputs : \E e : tombstone(t, e)  BY <1>4 DEF AnyTombstone
  <2>2. tombstones \in Seq(TombstoneRecord) /\ tombstones' = Append(tombstones, t)
    BY <1>1, <2>1 DEF tombstone, CanonicalTypeOK
  <2> QED  BY <1>2, <2>2
<1> QED  BY <1>3, <1>4, TombstonesKept

(* A step that touches neither the file nor the mode keeps the file's invariant. *)
LEMMA FileKept ==
    ASSUME DirectoryInv, FileInv, [AnyStep]_vars, file' = file,
           mode' # "DOWN" => mode # "DOWN"
    PROVE  FileInv'
  BY DirectoryKept DEF FileInv

(* The invariant holds before anything was saved. *)
LEMMA DurableInit == PersistentInit => DurableInv
<1> SUFFICES ASSUME PersistentInit PROVE DurableInv
  OBVIOUS
<1>1. PersistentInv  BY PersistentInvInit
<1>2. TypeOK /\ records = <<>> /\ indexes = Null /\ accounting = Gauges /\ file = Null
  BY TypeInit DEF PersistentInit, Init
<1>3. DirectoryInv
  BY <1>2 DEF DirectoryInv, OwnershipInv, UniqueCurrentCopy, BuriedNeverCurrent,
              RecordsAreOwned, StateIndexAgrees, CountsExact
<1> QED  BY <1>1, <1>2, <1>3 DEF DurableInv, FileInv

(* Handlers, saves, crashes, restarts and recoveries preserve it. *)
LEMMA DurableStep == DurableInv /\ [PersistentNext]_persistent_vars => DurableInv'
<1> SUFFICES ASSUME DurableInv, [PersistentNext]_persistent_vars PROVE DurableInv'
  OBVIOUS
<1>0. /\ PersistentInv /\ PersistentInv' /\ DirectoryInv /\ FileInv /\ StorageInv
      /\ next_obj \in Nat \ {0}
  BY PersistentInvStep DEF DurableInv, PersistentInv, CanonicalTypeOK
<1>1. ASSUME [AnyStep]_vars, file' = file, mode' # "DOWN" => mode # "DOWN"
      PROVE  DurableInv'
  BY <1>0, <1>1, DirectoryKept, FileKept DEF DurableInv
<1>2. ASSUME NEW image \in Image, IsRecoverable(image), SafeImage(image), Load(image),
             next_obj' \in Nat \ {0}, file' = file,
             mode' = "DOWN" \/ file \in {Null, Torn} \/ image = file
      PROVE  DurableInv'
  <2>1. DirectoryInv' /\ tombstones' = image.tombstones  BY <1>2, LoadSafe
  <2>2. FileInv'  BY <1>0, <1>2, <2>1 DEF FileInv
  <2> QED  BY <1>0, <2>1, <2>2 DEF DurableInv
<1>3. Blank \in Image /\ IsRecoverable(Blank) /\ SafeImage(Blank)
  <2>1. SafeImage(Blank)  BY DEF SafeImage, Blank
  <2> QED  BY <2>1, BlankType
<1>4. CASE mode = "UP" /\ Next /\ UNCHANGED storage
  BY <1>1, <1>4, NextIsAny DEF storage
<1>5. CASE save_open  BY <1>1, <1>5 DEF save_open
<1>6. CASE save_write  BY <1>1, <1>6 DEF save_write
<1>7. CASE save_fail  BY <1>1, <1>7 DEF save_fail
<1>8. CASE save_rename
  <2>1. UNCHANGED vars /\ file' = save_to_buffer /\ tombstones' = tombstones
    BY <1>0, <1>8 DEF save_rename, StorageInv, vars
  <2>2. DirectoryInv'  BY <1>0, <2>1, DirectoryKept
  <2>3. SafeImage(save_to_buffer) /\ save_to_buffer.tombstones = tombstones
    BY <1>0, BufferSafe DEF save_to_buffer
  <2>4. FileInv'  BY <2>1, <2>3 DEF FileInv
  <2> QED  BY <1>0, <2>2, <2>4 DEF DurableInv
<1>9. CASE crash  BY <1>2, <1>3, <1>9 DEF crash
<1>10. CASE start
  <2>1. CASE file = Null  BY <1>2, <1>3, <1>10, <2>1 DEF start
  <2>2. CASE file # Null
    BY <1>0, <1>2, <1>10, <2>2 DEF start, StorageInv, FileInv
  <2> QED  BY <2>1, <2>2
<1>11. CASE recover
  BY <1>0, <1>2, <1>11 DEF recover, StorageInv, FileInv
<1>12. CASE UNCHANGED persistent_vars
  BY <1>1, <1>12 DEF persistent_vars, storage
<1> QED
  BY <1>4, <1>5, <1>6, <1>7, <1>8, <1>9, <1>10, <1>11, <1>12 DEF PersistentNext

(* Whatever the sequence of requests, saves, crashes, restarts and recoveries,  *)
(* the directory keeps its invariants and the file stays safe to recover from.  *)
THEOREM DurableInvHolds == PersistentSpec => []DurableInv
  BY DurableInit, DurableStep, PTL DEF PersistentSpec

(* A generation whose tombstone was saved is never current again, in this life  *)
(* of the coordinator or in any later one (save_to_file, recover_from_buffer).  *)
THEOREM BurialIsDurable == PersistentSpec => []DurableBurial
<1>1. DurableInv => DurableBurial
  BY DEF DurableInv, FileInv, DirectoryInv, BuriedNeverCurrent, DurableBurial
<1> QED  BY <1>1, DurableInvHolds, PTL

(* A restart or a RECOVER neither duplicates a current copy, nor resurrects a   *)
(* buried one, nor takes a record's descriptors away, nor leaves an index or a  *)
(* gauge of the state before it (recover_from_buffer).                          *)
THEOREM SafeAcrossRestarts ==
    PersistentSpec => [](/\ UniqueCurrentCopy /\ BuriedNeverCurrent
                         /\ RecordsAreOwned /\ StateIndexAgrees /\ CountsExact)
<1>1. DurableInv => /\ UniqueCurrentCopy /\ BuriedNeverCurrent
                    /\ RecordsAreOwned /\ StateIndexAgrees /\ CountsExact
  BY DEF DurableInv, DirectoryInv, OwnershipInv
<1> QED  BY <1>1, DurableInvHolds, PTL

-----------------------------------------------------------------------------
(* The directory with its file implements the durable catalogue. *)

(* The catalogue in memory is the one the directory implements without a file. *)
LEMMA CatalogInMemory == Catalog!Next => Durable!Next
  BY DEF Catalog!Next, Durable!Next, Catalog!Publish, Durable!Publish,
         Catalog!Withdraw, Durable!Withdraw, Catalog!Bury, Durable!Bury,
         Catalog!IsBuried, Durable!IsBuried, Catalog!SamePlace, Durable!SamePlace

(* The image of the directory is the snapshot of the catalogue. *)
LEMMA BufferIsSnapshot == SnapshotOf(save_to_buffer) = Durable!Snapshot
<1>1. save_to_buffer.records = records /\ save_to_buffer.tombstones = tombstones
  BY DEF save_to_buffer
<1> QED  BY <1>1 DEF SnapshotOf, ImagePublished, ImageBuried, Durable!Snapshot,
                     Published, CurrentIndexes, BuriedStates

(* The generations of a state in a snapshot are those of its current records. *)
LEMMA SnapshotGenerations ==
    ASSUME NEW image, NEW s
    PROVE  Durable!Generations(ImagePublished(image), s) = CurrentGenerations(image.records, s)
<1>1. \A i : /\ CopyId(image.records[i].copy).state = image.records[i].copy.state_id
             /\ CopyId(image.records[i].copy).generation = image.records[i].copy.state_generation
  BY DEF CopyId
<1> DEFINE Current == {j \in DOMAIN image.records : image.records[j].current}
<1>2. \A d \in ImagePublished(image) :
         \E i \in Current : d = CopyId(image.records[i].copy)
  BY DEF ImagePublished
<1>3. \A i \in Current : CopyId(image.records[i].copy) \in ImagePublished(image)
  BY DEF ImagePublished
<1>4. ASSUME NEW g \in Durable!Generations(ImagePublished(image), s)
      PROVE  g \in CurrentGenerations(image.records, s)
  BY <1>1, <1>2 DEF Durable!Generations, CurrentGenerations
<1>5. ASSUME NEW g \in CurrentGenerations(image.records, s)
      PROVE  g \in Durable!Generations(ImagePublished(image), s)
  <2>1. PICK i \in Current : /\ image.records[i].copy.state_id = s
                             /\ image.records[i].copy.state_generation = g
    BY DEF CurrentGenerations
  <2> QED  BY <1>1, <1>3, <2>1 DEF Durable!Generations
<1> QED  BY <1>4, <1>5

(* A recoverable, safe image is a consistent snapshot. *)
LEMMA SafeIsConsistent ==
    ASSUME NEW image \in Image, IsRecoverable(image), SafeImage(image)
    PROVE  Durable!IsConsistent(SnapshotOf(image))
<1>1. /\ SnapshotOf(image).published = ImagePublished(image)
      /\ SnapshotOf(image).buried = ImageBuried(image)
  BY DEF SnapshotOf
<1>2. \A s \in States : \A g, h \in Durable!Generations(ImagePublished(image), s) : g = h
  BY SnapshotGenerations DEF IsRecoverable
<1>3. ASSUME NEW c \in ImagePublished(image), NEW b \in ImageBuried(image)
      PROVE  ~(b[1] = c.state /\ c.generation <= b[2])
  <2>1. PICK i \in DOMAIN image.records :
           image.records[i].current /\ c = CopyId(image.records[i].copy)
    BY DEF ImagePublished
  <2>2. PICK n \in DOMAIN image.tombstones :
           /\ image.tombstones[n].kind = "STATE"
           /\ b = <<image.tombstones[n].subject, image.tombstones[n].floor>>
    BY DEF ImageBuried
  <2>3. ~TombstoneCovers(image.tombstones[n], "STATE", image.records[i].copy.state_id,
                         image.records[i].copy.state_generation)
    BY <2>1 DEF SafeImage
  <2>4. /\ c.state = image.records[i].copy.state_id
        /\ c.generation = image.records[i].copy.state_generation
        /\ b[1] = image.tombstones[n].subject /\ b[2] = image.tombstones[n].floor
    BY <2>1, <2>2 DEF CopyId
  <2> QED  BY <2>2, <2>3, <2>4 DEF TombstoneCovers, FlooredKinds
<1> QED  BY <1>1, <1>2, <1>3 DEF Durable!IsConsistent

(* Loading an image restores its snapshot: the same copies, the same burials, and *)
(* the generations of its copies as the newest ones.                              *)
LEMMA LoadRestores ==
    ASSUME NEW image \in Image, IsRecoverable(image), SafeImage(image), Load(image),
           mode' # "DOWN", OnDisk' = OnDisk
    PROVE  Durable!Restored(SnapshotOf(image))
<1>1. \A i \in DOMAIN image.records : image.records[i] \in DirectoryRecord
  BY DEF Image
<1>2. /\ DOMAIN records' = DOMAIN image.records
      /\ \A i \in DOMAIN image.records :
             /\ records'[i].copy = image.records[i].copy
             /\ records'[i].current = image.records[i].current
  BY <1>1, RecoverRecordLemma DEF Load
<1>3. Published' = SnapshotOf(image).published
  BY <1>2 DEF Published, CurrentIndexes, SnapshotOf, ImagePublished
<1>4. BuriedStates' = SnapshotOf(image).buried
  BY DEF Load, BuriedStates, SnapshotOf, ImageBuried
<1>5. SnapshotOf(image).published = ImagePublished(image)  BY DEF SnapshotOf
<1> DEFINE Newest(G) == IF G = {} THEN NoGen ELSE CHOOSE g \in G : \A h \in G : h <= g
<1>6. current_state_gen' =
         [s \in States |-> Newest(Durable!Generations(SnapshotOf(image).published, s))]
  <2>1. current_state_gen' = [s \in States |-> Newest(CurrentGenerations(image.records, s))]
    BY DEF Load, RebuiltGenerations
  <2> HIDE DEF Newest
  <2>2. \A s \in States : Newest(Durable!Generations(SnapshotOf(image).published, s))
                             = Newest(CurrentGenerations(image.records, s))
    BY <1>5, SnapshotGenerations
  <2> QED  BY <2>1, <2>2
<1>7. Durable!IsConsistent(SnapshotOf(image))  BY SafeIsConsistent
<1> QED  BY <1>3, <1>4, <1>6, <1>7 DEF Durable!Restored, NoGen, Durable!NoGeneration

(* A file that does not change holds the same snapshot. *)
LEMMA SnapshotKept == file' = file => OnDisk' = OnDisk
  BY DEF OnDisk, SnapshotOf, ImagePublished, ImageBuried

(* A handler of a running coordinator is a step of the catalogue in memory. *)
LEMMA MemoryStep ==
    ASSUME DurableInv, DurableInv', [AnyStep]_vars, file' = file,
           mode # "DOWN", mode' # "DOWN"
    PROVE  Durable!DurableNext
<1>0. SafetyInv /\ SafetyInv'
  BY DEF DurableInv, PersistentInv, DirectoryInv, OwnershipInv, SafetyInv
<1>1. Durable!Next  BY <1>0, CatalogStep, CatalogInMemory
<1> QED  BY <1>1, SnapshotKept DEF Durable!DurableNext

(* The rename of a save replaces the snapshot by the catalogue as it is. *)
LEMMA RenameSaves ==
    ASSUME DurableInv, UNCHANGED vars, file' = save_to_buffer, mode # "DOWN", mode' # "DOWN"
    PROVE  Durable!DurableNext
<1>1. save_to_buffer \notin {Null, Torn}
  BY BufferType, TornAssumption DEF DurableInv, PersistentInv
<1>2. OnDisk' = Durable!Snapshot
  <2>1. PICK image : image = save_to_buffer  OBVIOUS
  <2>2. file' = image /\ file' \notin {Null, Torn}  BY <1>1, <2>1
  <2>3. OnDisk' = SnapshotOf(image)
    BY <2>2 DEF OnDisk, SnapshotOf, ImagePublished, ImageBuried
  <2> QED  BY <2>1, <2>3, BufferIsSnapshot
<1>3. Published' = Published /\ BuriedStates' = BuriedStates
      /\ current_state_gen' = current_state_gen
  BY DEF vars, history, Published, CurrentIndexes, BuriedStates
<1> QED  BY <1>2, <1>3 DEF Durable!DurableNext, Durable!Save, Durable!catalog

(* The death of the process empties the catalogue and leaves the snapshot. *)
LEMMA CrashLoses ==
    ASSUME crash
    PROVE  Durable!DurableNext
<1>1. OnDisk' = OnDisk  BY SnapshotKept DEF crash
<1>2. records' = <<>> /\ tombstones' = <<>>
  BY DEF crash, Load, Blank
<1>3. Published' = {} /\ BuriedStates' = {}
  BY <1>2 DEF Published, CurrentIndexes, BuriedStates
<1>4. current_state_gen' = [s \in States |-> Durable!NoGeneration]
  BY DEF crash, Load, Blank, RebuiltGenerations, CurrentGenerations, NoGen,
         Durable!NoGeneration
<1> QED  BY <1>1, <1>3, <1>4 DEF crash, Durable!DurableNext, Durable!Crash

(* A restart and a RECOVER request bring back what is on disk. *)
LEMMA RecoveryRestores ==
    ASSUME DurableInv, start \/ recover
    PROVE  Durable!DurableNext
<1> DEFINE image == IF file \in {Null, Torn} THEN Blank ELSE file
<1>1. Load(image) /\ mode' # "DOWN" /\ file' = file
  BY TornAssumption DEF start, recover
<1>2. image \in Image /\ IsRecoverable(image) /\ SafeImage(image)
  <2>1. SafeImage(Blank)  BY DEF SafeImage, Blank
  <2>2. StorageInv /\ FileInv  BY DEF DurableInv, PersistentInv
  <2>3. CASE file \in {Null, Torn}  BY <2>1, <2>3, BlankType
  <2>4. CASE file \notin {Null, Torn}
    BY <2>2, <2>4 DEF start, recover, StorageInv, FileInv
  <2> QED  BY <2>3, <2>4
<1>3. OnDisk = SnapshotOf(image)  BY DEF OnDisk
<1> HIDE DEF image
<1>4. Durable!Restored(OnDisk)  BY <1>1, <1>2, <1>3, LoadRestores, SnapshotKept
<1> QED  BY <1>4 DEF Durable!DurableNext, Durable!Restart, Durable!Recover

(* Steps that leave the directory and its file alone are invisible. *)
LEMMA DurableStutter ==
    ASSUME UNCHANGED vars, file' = file, mode' = "DOWN" <=> mode = "DOWN"
    PROVE  UNCHANGED Durable!durable
<1>1. Published' = Published /\ BuriedStates' = BuriedStates
      /\ current_state_gen' = current_state_gen
  BY DEF vars, history, Published, CurrentIndexes, BuriedStates
<1> QED  BY <1>1, SnapshotKept DEF Durable!durable, Durable!catalog

(* A coordinator without a file starts as an empty catalogue and an empty disk. *)
LEMMA DurableStart ==
    ASSUME Init, file \in {Null, Torn} \/ mode = "DOWN"
    PROVE  Durable!DurableInit
<1>1. records = <<>> /\ tombstones = <<>>  BY DEF Init
<1>2. Published = {} /\ BuriedStates = {}
  BY <1>1 DEF Published, CurrentIndexes, BuriedStates
<1>3. Durable!Init
  BY <1>2 DEF Init, Durable!Init, NoGen, Durable!NoGeneration
<1>4. file \in {Null, Torn} => OnDisk = Durable!Snapshot
  BY <1>2 DEF OnDisk, SnapshotOf, ImagePublished, ImageBuried, Blank, Durable!Snapshot
<1> QED  BY <1>3, <1>4 DEF Durable!DurableInit

(* Every step of the coordinator and its file is a step of the durable catalogue *)
(* or invisible to it.                                                           *)
LEMMA DurableCatalogStep ==
    ASSUME DurableInv, DurableInv', [PersistentNext]_persistent_vars
    PROVE  [Durable!DurableNext]_(Durable!durable)
<1>1. CASE mode = "UP" /\ Next /\ UNCHANGED storage
  BY <1>1, NextIsAny, MemoryStep DEF storage
<1>2. CASE save_open \/ save_write \/ save_fail
  BY <1>2, DurableStutter DEF save_open, save_write, save_fail
<1>3. CASE save_rename
  <2>1. file' = save_to_buffer
    BY <1>3 DEF save_rename, DurableInv, PersistentInv, StorageInv
  <2> QED  BY <1>3, <2>1, RenameSaves DEF save_rename
<1>4. CASE crash  BY <1>4, CrashLoses
<1>5. CASE start \/ recover  BY <1>5, RecoveryRestores
<1>6. CASE UNCHANGED persistent_vars
  BY <1>6, DurableStutter DEF persistent_vars, storage
<1> QED  BY <1>1, <1>2, <1>3, <1>4, <1>5, <1>6 DEF PersistentNext

(* The coordinator is a durable catalogue: a save that fails or is cut by a crash *)
(* leaves the old snapshot or the whole new one, and a restart publishes exactly  *)
(* what was on disk, under its burials, with every other promise of the catalogue *)
(* kept on both sides of the crash.                                               *)
THEOREM PersistenceImplementsDurableCatalog == PersistentSpec => ImplementsDurableCatalog
<1>1. PersistentInit => Durable!DurableInit
  BY DurableStart DEF PersistentInit
<1>2. DurableInv /\ DurableInv' /\ [PersistentNext]_persistent_vars
         => [Durable!DurableNext]_(Durable!durable)
  BY DurableCatalogStep
<1> QED  BY <1>1, <1>2, DurableInvHolds, PTL
         DEF PersistentSpec, ImplementsDurableCatalog, Durable!DurableSpec
=============================================================================
