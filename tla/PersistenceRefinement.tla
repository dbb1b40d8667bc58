----------------------- MODULE PersistenceRefinement -----------------------
(***************************************************************************)
(* The directory with its file implements the durable catalogue: what is   *)
(* on disk are the copies of the current records in the file and its STATE *)
(* tombstones.  A file that does not exist, or that no start accepts       *)
(* because it is torn, holds nothing.                                      *)
(***************************************************************************)
EXTENDS Persistence, DirectoryRefinement

ImagePublished(image) ==
    {CopyId(image.records[i].copy) :
        i \in {j \in DOMAIN image.records : image.records[j].current}}

ImageBuried(image) ==
    {<<image.tombstones[n].subject, image.tombstones[n].floor>> :
        n \in {m \in DOMAIN image.tombstones : image.tombstones[m].kind = "STATE"}}

SnapshotOf(image) ==
    [published |-> ImagePublished(image), buried |-> ImageBuried(image)]

OnDisk == SnapshotOf(IF file \in {Null, Torn} THEN Blank ELSE file)

Durable == INSTANCE DurableCatalog WITH
    CopyIds <- {CopyId(in.copy) : in \in RecordInputs},
    Floors <- {t.floor : t \in TombstoneInputs},
    published <- Published,
    newest <- current_state_gen,
    buried <- BuriedStates,
    up <- mode # "DOWN",
    disk <- OnDisk

(* Readers of the coordinator see a durable catalogue: whatever requests, saves  *)
(* and failures of them, crashes, restarts and RECOVER requests interleave, the  *)
(* file is one consistent snapshot of what was published and buried, and exactly *)
(* that snapshot comes back (save_to_file, recover_from_buffer).                 *)
ImplementsDurableCatalog == Durable!DurableSpec
=============================================================================
