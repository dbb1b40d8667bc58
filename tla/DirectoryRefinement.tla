------------------------- MODULE DirectoryRefinement -------------------------
(***************************************************************************)
(* The directory implements the replica catalogue: what it publishes are   *)
(* the copies of its current records.  Sessions, descriptors, updates and  *)
(* leases are invisible to the catalogue.                                  *)
(***************************************************************************)
EXTENDS Directory

CopyId(c) ==
    [state |-> c.state_id, generation |-> c.state_generation,
     replica |-> c.replica, location |-> c.location, cache |-> c.cache]

CurrentIndexes == {i \in DOMAIN records : records[i].current}

Published == {CopyId(records[i].copy) : i \in CurrentIndexes}

BuriedStates ==
    {<<tombstones[n].subject, tombstones[n].floor>> :
        n \in {m \in DOMAIN tombstones : tombstones[m].kind = "STATE"}}

Catalog == INSTANCE ReplicaCatalog WITH
    CopyIds <- {CopyId(in.copy) : in \in RecordInputs},
    Floors <- {t.floor : t \in TombstoneInputs},
    published <- Published,
    newest <- current_state_gen,
    buried <- BuriedStates

(* Every behaviour of the directory is, seen through its current records, its   *)
(* generation fences and its STATE tombstones, a behaviour of the catalogue.    *)
ImplementsCatalog == Catalog!Spec
=============================================================================
