--------------------------- MODULE DurableCatalog ---------------------------
(***************************************************************************)
(* What the coordinator promises its readers across crashes and restarts:  *)
(* a replica catalogue in memory and one snapshot of it on disk.  A save   *)
(* replaces the snapshot at once by the catalogue as it is; a crash loses  *)
(* the catalogue; a restart brings back the snapshot, all of it and        *)
(* nothing else, before anything is published, withdrawn or buried again.  *)
(***************************************************************************)
EXTENDS ReplicaCatalog

VARIABLES
    up,     \* whether the coordinator runs
    disk    \* the snapshot: what it publishes and what it buries

durable == <<catalog, up, disk>>

Snapshot == [published |-> published, buried |-> buried]

Generations(copies, s) == {c.generation : c \in {d \in copies : d.state = s}}

(* One generation of each state, and none of them buried. *)
IsConsistent(snapshot) ==
    /\ \A s \in States : \A g, h \in Generations(snapshot.published, s) : g = h
    /\ \A c \in snapshot.published, b \in snapshot.buried :
           ~(b[1] = c.state /\ c.generation <= b[2])

(* The newest generation of a state is the one the snapshot publishes; of a   *)
(* state it does not publish, any generation that is not buried may come next. *)
Restored(snapshot) ==
    /\ IsConsistent(snapshot)
    /\ published' = snapshot.published
    /\ buried' = snapshot.buried
    /\ newest' = [s \in States |->
           LET G == Generations(snapshot.published, s) IN
           IF G = {} THEN NoGeneration ELSE CHOOSE g \in G : \A h \in G : h <= g]
    /\ up' = TRUE
    /\ UNCHANGED disk

Save == up /\ disk' = Snapshot /\ UNCHANGED <<catalog, up>>

Crash ==
    /\ up /\ ~up'
    /\ published' = {} /\ buried' = {}
    /\ newest' = [s \in States |-> NoGeneration]
    /\ UNCHANGED disk

Restart == ~up /\ Restored(disk)

Recover == up /\ Restored(disk)

(* The first coordinator finds what an earlier life left, or starts afresh. *)
DurableInit == Init /\ up \in BOOLEAN /\ (up => disk = Snapshot)

DurableNext ==
    \/ up /\ Next /\ UNCHANGED <<up, disk>>
    \/ Save \/ Crash \/ Restart \/ Recover

DurableSpec == DurableInit /\ [][DurableNext]_durable
=============================================================================
