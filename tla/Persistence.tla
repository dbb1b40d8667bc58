---------------------------- MODULE Persistence ----------------------------
(***************************************************************************)
(* The directory with its file: save writes a temporary file and renames   *)
(* it, the coordinator process may crash between any two of these steps,   *)
(* and a restarted coordinator recovers what the file holds.               *)
(*                                                                         *)
(* An image is what save_to_buffer writes.  Its round trip through w_* and *)
(* r_* preserves every modelled field, and the checksum and the digest     *)
(* tell a torn file from a whole one; what the image leaves out (sessions, *)
(* generation fences, the id counter, indexes, gauges) is lost.  A crash   *)
(* is of the process, not of the machine: a completed rename persists.     *)
(***************************************************************************)
EXTENDS Directory

CONSTANTS
    Torn,          \* the content of a file that was not written to its end
    MaxSaves, MaxRestarts   \* bounds

VARIABLES
    mode,          \* "UP", "SAVING" (dir_mutex_ is held) or "DOWN"
    file,          \* the content of persist_path_; Null when it does not exist
    temp,          \* the content of persist_path_.tmp
    saves, restarts   \* how many so far

storage == <<mode, file, temp, saves, restarts>>
persistent_vars == <<vars, storage>>

(* save_to_buffer: the canonical state, without sessions, fences or next_obj_. *)
save_to_buffer ==
    [epoch |-> epoch, directory_generation |-> directory_generation, records |-> records,
     caches |-> caches, locations |-> locations, replicas |-> replicas,
     leases |-> leases, tombstones |-> tombstones]

(* The images there are. *)
Image ==
    [epoch: Nat, directory_generation: Nat, records: Seq(DirectoryRecord),
     caches: [Caches -> OrNull(CacheDescriptor)],
     locations: [Locations -> OrNull(LocationDescriptor)],
     replicas: [Replicas -> OrNull(ReplicaDescriptor)],
     leases: [Leases -> OrNull(LeaseDescriptor)],
     tombstones: Seq(TombstoneRecord)]

(* A missing file, a torn one and a whole one are told apart. *)
ASSUME TornAssumption == Torn # Null /\ Torn \notin Image /\ Null \notin Image

(* What a Directory that was just constructed would have been recovered from. *)
Blank ==
    [epoch |-> 0, directory_generation |-> 0, records |-> <<>>,
     caches |-> [c \in Caches |-> Null], locations |-> [l \in Locations |-> Null],
     replicas |-> [r \in Replicas |-> Null], leases |-> [l \in Leases |-> Null],
     tombstones |-> <<>>]

-----------------------------------------------------------------------------
(* Recovery *)

RecoverFreshness(domain) ==
    IF domain \in ProcessLocal THEN "REVALIDATION_REQUIRED" ELSE "STALE"

RecoverRecord_KeepsLifecycle(r) ==
    [r EXCEPT !.freshness = RecoverFreshness(r.copy.domain),
              !.reachability = "REVALIDATION_REQUIRED"]

(* Every lifecycle but FAILED is forgotten: reachability was just overwritten. *)
RecoverRecord(r) ==
    [r EXCEPT !.freshness = RecoverFreshness(r.copy.domain),
              !.reachability = "REVALIDATION_REQUIRED",
              !.lifecycle = IF r.integrity = "CORRUPT" THEN "FAILED" ELSE "STALE"]

RecoverLocation(l) ==
    IF l = Null THEN Null
    ELSE [l EXCEPT !.freshness = RecoverFreshness(l.domain),
                   !.reachability = "REVALIDATION_REQUIRED"]

RecoverLease(l) ==
    IF l = Null THEN Null ELSE [l EXCEPT !.state = "REVALIDATION_REQUIRED"]

CurrentGenerations(recs, s) ==
    {recs[i].copy.state_generation :
        i \in {j \in DOMAIN recs : recs[j].current /\ recs[j].copy.state_id = s}}

RebuiltGenerations_OfAny(recs) ==
    [s \in States |->
        IF CurrentGenerations(recs, s) = {} THEN NoGen
        ELSE recs[CHOOSE i \in DOMAIN recs : recs[i].copy.state_id = s].copy.state_generation]

(* current_state_gen_ is rebuilt from the current records alone. *)
RebuiltGenerations(recs) ==
    [s \in States |->
        IF CurrentGenerations(recs, s) = {} THEN NoGen
        ELSE CHOOSE g \in CurrentGenerations(recs, s) :
                 \A h \in CurrentGenerations(recs, s) : h <= g]

(* The validation of a whole image: ids, the kinds of tombstones, then the      *)
(* generation regression.  No stored identity is null.                          *)
IsRecoverable(image) ==
    /\ \A i, j \in DOMAIN image.records :
           image.records[i].record_id = image.records[j].record_id => i = j
    /\ \A i, j \in DOMAIN image.tombstones :
           image.tombstones[i].tombstone_id = image.tombstones[j].tombstone_id => i = j
    /\ \A i \in DOMAIN image.tombstones : image.tombstones[i].kind \in TombstoneKind
    /\ \A s \in States : \A g, h \in CurrentGenerations(image.records, s) : g = h

Load_WithoutTombstones(image) ==
    /\ epoch' = image.epoch + 1
    /\ directory_generation' = image.directory_generation
    /\ records' = [i \in DOMAIN image.records |-> RecoverRecord(image.records[i])]
    /\ caches' = image.caches
    /\ locations' = [l \in Locations |-> RecoverLocation(image.locations[l])]
    /\ replicas' = image.replicas
    /\ leases' = [l \in Leases |-> RecoverLease(image.leases[l])]
    /\ tombstones' = <<>>
    /\ workers' = [b \in Boots |-> "NONE"]
    /\ current_state_gen' = RebuiltGenerations(image.records)
    /\ MarkDirty

(* The second half of recover_from_buffer, which cannot fail any more. *)
Load(image) ==
    /\ epoch' = image.epoch + 1
    /\ directory_generation' = image.directory_generation
    /\ records' = [i \in DOMAIN image.records |-> RecoverRecord(image.records[i])]
    /\ caches' = image.caches
    /\ locations' = [l \in Locations |-> RecoverLocation(image.locations[l])]
    /\ replicas' = image.replicas
    /\ leases' = [l \in Leases |-> RecoverLease(image.leases[l])]
    /\ tombstones' = image.tombstones
    /\ workers' = [b \in Boots |-> "NONE"]
    /\ current_state_gen' = RebuiltGenerations(image.records)
    /\ MarkDirty

-----------------------------------------------------------------------------
(* Saving: truncate the temporary file, write it, rename it. *)

save_open_InPlace ==
    /\ mode = "UP"
    /\ saves < MaxSaves
    /\ mode' = "SAVING"
    /\ file' = Torn
    /\ temp' = Torn
    /\ saves' = saves + 1
    /\ UNCHANGED <<vars, restarts>>

save_open ==
    /\ mode = "UP"
    /\ saves < MaxSaves
    /\ mode' = "SAVING"
    /\ temp' = Torn
    /\ saves' = saves + 1
    /\ UNCHANGED <<vars, file, restarts>>

save_write ==
    /\ mode = "SAVING" /\ temp = Torn
    /\ temp' = save_to_buffer
    /\ UNCHANGED <<vars, mode, file, saves, restarts>>

(* A failed write, flush or close, or a rename MoveFileExA refuses, is reported *)
(* and leaves the temporary file as it is.                                      *)
save_fail ==
    /\ mode = "SAVING"
    /\ mode' = "UP"
    /\ UNCHANGED <<vars, file, temp, saves, restarts>>

save_rename ==
    /\ mode = "SAVING" /\ temp # Torn
    /\ file' = temp
    /\ temp' = Null
    /\ mode' = "UP"
    /\ UNCHANGED <<vars, saves, restarts>>

(* The process dies: memory is gone, files stay as they are.  Elsewhere than on *)
(* Windows a rename that fails throws out of the handler's thread and ends here. *)
crash ==
    /\ mode # "DOWN"
    /\ mode' = "DOWN"
    /\ next_obj' = 1
    /\ UNCHANGED <<file, temp, saves, restarts>>
    /\ Load(Blank)

start_Afresh ==
    /\ mode = "DOWN"
    /\ restarts < MaxRestarts
    /\ mode' = "UP"
    /\ restarts' = restarts + 1
    /\ next_obj' = 1
    /\ UNCHANGED <<file, temp, saves>>
    /\ Load(Blank)

(* CoordinatorServer::start: recover if the file exists, or refuse to start. *)
start ==
    /\ mode = "DOWN"
    /\ restarts < MaxRestarts
    /\ file # Null => file # Torn /\ IsRecoverable(file)
    /\ mode' = "UP"
    /\ restarts' = restarts + 1
    /\ next_obj' = 1
    /\ UNCHANGED <<file, temp, saves>>
    /\ Load(IF file = Null THEN Blank ELSE file)

(* A RECOVER request while the coordinator runs; next_obj_ keeps counting. *)
recover ==
    /\ mode = "UP"
    /\ restarts < MaxRestarts
    /\ file # Null /\ file # Torn /\ IsRecoverable(file)
    /\ restarts' = restarts + 1
    /\ UNCHANGED <<next_obj, mode, file, temp, saves>>
    /\ Load(file)

-----------------------------------------------------------------------------
PersistentInit ==
    /\ Init
    /\ mode = "UP"
    /\ file = Null /\ temp = Null
    /\ saves = 0 /\ restarts = 0

PersistentNext ==
    \/ mode = "UP" /\ Next /\ UNCHANGED storage
    \/ save_open \/ save_write \/ save_fail \/ save_rename
    \/ crash \/ start \/ recover

PersistentSpec == PersistentInit /\ [][PersistentNext]_persistent_vars

-----------------------------------------------------------------------------
(* Properties *)

(* Atomic writes: whatever fails or crashes during a save, the file changes     *)
(* only to the complete image of the directory as it is, all at once.           *)
SavesAreAtomic == [][file' # file => file' = save_to_buffer]_persistent_vars

(* Tombstones stay authoritative: no record of a generation buried in the file  *)
(* is current, in this life of the coordinator or in any later one, whoever     *)
(* registers it after the restart.                                              *)
DurableBurial ==
    mode = "UP" /\ file \notin {Null, Torn} =>
        \A i \in DOMAIN records, n \in DOMAIN file.tombstones :
            TombstoneCovers(file.tombstones[n], "STATE", records[i].copy.state_id,
                            records[i].copy.state_generation)
                => ~records[i].current

(* Recovery confers nothing: the step that recovers leaves no session live, no  *)
(* lease active and no record available or current in freshness.                *)
RecoveryConfersNothing ==
    [][restarts' # restarts =>
           /\ \A b \in Boots : workers'[b] = "NONE"
           /\ \A l \in Leases : leases'[l] # Null => leases'[l].state # "ACTIVE"
           /\ \A i \in DOMAIN records' :
                  /\ records'[i].lifecycle # "AVAILABLE"
                  /\ records'[i].freshness # "CURRENT"]_persistent_vars

-----------------------------------------------------------------------------
(* What the documentation says and the code does not do. *)

(* test_persistence: a saved file is recovered.  What save has written, start   *)
(* accepts.  Refuted twice.  next_obj_ restarts at 1, so the first id generated *)
(* after a restart may repeat one in the file; and tombstone() takes a          *)
(* tombstone it has already, or one of an unknown kind, in its first life.      *)
(* Either way the next image is refused.                                        *)
SavedIsRecoverable == file \notin {Null, Torn} => IsRecoverable(file)
=============================================================================
