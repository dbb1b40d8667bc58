----------------------------- MODULE MCDirectory -----------------------------
(* Small instances of the directory for TLC. *)
EXTENDS DirectoryRefinement

CONSTANTS b1, b2, s1, s2, c1, c2, r1, r2, l1, l2, e1, p1, t1, k1

CopyOf(s, g, r, l, c, b, d, rg) ==
    [state_id |-> s, state_generation |-> g, cache |-> c, entry |-> e1,
     replica |-> r, location |-> l, worker_boot |-> b, domain |-> d, payload |-> p1,
     location_generation |-> 0, replica_generation |-> rg]

(* A copy in good health, asking for a generated id. *)
Healthy(c) ==
    [record_id |-> 0, copy |-> c, health |-> "HEALTHY", freshness |-> "CURRENT",
     integrity |-> "VERIFIED", reachability |-> "REACHABLE", lease |-> "NONE"]

CacheOf(c, b, f) ==
    [id |-> c, desc |-> [worker_boot |-> b, health |-> "HEALTHY",
        reachability |-> "REACHABLE", freshness |-> "CURRENT", capacity |-> 0, fence |-> f]]

LocationOf(l, b, d, g, f) ==
    [id |-> l, desc |-> [worker_boot |-> b, domain |-> d, generation |-> g,
        reachability |-> "REACHABLE", freshness |-> "CURRENT", health |-> "HEALTHY",
        fence |-> f]]

(* Descriptors registered with the evidence a loss would leave on them, for *)
(* instances about records.                                                 *)
DimCacheOf(c, b) ==
    [CacheOf(c, b, 0) EXCEPT !.desc.reachability = "UNREACHABLE",
                             !.desc.health = "UNAVAILABLE", !.desc.freshness = "STALE"]
DimLocationOf(l, b, d) ==
    [LocationOf(l, b, d, 0, 0) EXCEPT !.desc.reachability = "REVALIDATION_REQUIRED",
                                      !.desc.freshness = "REVALIDATION_REQUIRED",
                                      !.desc.health = "UNAVAILABLE"]

ReplicaOf(r, l, c, b) ==
    [id |-> r, desc |-> [location |-> l, cache |-> c, entry |-> e1, boot |-> b]]

TombstoneOf(t, kind, subject, floor, b) ==
    [tombstone_id |-> t, kind |-> kind, subject |-> subject, floor |-> floor,
     worker_boot |-> b]

-----------------------------------------------------------------------------
(* History: two generations of a state with replicas at two locations, and a *)
(* replica that moves from one cache to another.                            *)
HistoryRecords ==
    {Healthy(CopyOf(s1, g, r1, l1, c1, b1, "HOST_MEMORY", 0)) : g \in {1, 2}}
    \cup {Healthy(CopyOf(s1, g, r2, l2, c1, b1, "SYNTHETIC_REMOTE", 0)) : g \in {1, 2}}
    \cup {[Healthy(CopyOf(s1, 1, r1, l1, c2, b1, "HOST_MEMORY", 1)) EXCEPT !.record_id = 1]}
    \cup {Healthy(CopyOf(Null, 1, r1, l1, c1, b1, "HOST_MEMORY", 0))}
HistoryCaches == {DimCacheOf(c1, b1), DimCacheOf(c2, b1), DimCacheOf(Null, b1)}
HistoryLocations ==
    {DimLocationOf(l1, b1, "HOST_MEMORY"), DimLocationOf(l2, b1, "SYNTHETIC_REMOTE")}
HistoryReplicas ==
    {ReplicaOf(r1, l1, c1, b1), ReplicaOf(r1, l1, c2, b1), ReplicaOf(r2, l2, c1, b1)}
HistoryTombstones ==
    {TombstoneOf(t1, "STATE", s1, 1, b1), TombstoneOf(t1, "LOCATION", l1, 1, b1)}

-----------------------------------------------------------------------------
(* Contention: two incarnations contend for one cache, one location, one    *)
(* replica and one lease, with two fences and two location generations.     *)
ContendedCaches == {CacheOf(c1, b, 0) : b \in {b1, b2}}
ContendedLocations ==
    {LocationOf(l1, b1, "HOST_MEMORY", g, g) : g \in {0, 1}}
    \cup {LocationOf(l1, b2, "HOST_MEMORY", 0, 1)}
ContendedReplicas == {ReplicaOf(r1, l1, c1, b) : b \in {b1, b2}}
ContendedCacheHealth == {[health |-> "DEGRADED", reachability |-> "REACHABLE"]}
ContendedLeases ==
    {[id |-> k1, desc |-> [holder |-> b, state |-> "ACTIVE", generation |-> 0, fence |-> 0]] :
        b \in {b1, b2}}

-----------------------------------------------------------------------------
(* Evidence: one record of a location two incarnations contend for, asserted *)
(* by either of them, under every kind of update, losses, invalidation of an *)
(* incarnation and a tombstone.                                             *)
EvidenceRecords ==
    {Healthy(CopyOf(s1, g, r1, l1, c1, b1, "HOST_MEMORY", 0)) : g \in {1, 2}}
EvidenceCaches == {DimCacheOf(c1, b1)}
EvidenceLocations == {DimLocationOf(l1, b, "HOST_MEMORY") : b \in {b1, b2}}
EvidenceReplicas == {ReplicaOf(r1, l1, c1, b1)}
EvidenceTombstones == {TombstoneOf(t1, "STATE", s1, 1, b1)}

(* Both, one instance beside the other: descriptors or a lease are contended for *)
(* while there is no record, and a record has dim descriptors and no lease.       *)
DisputedCaches == ContendedCaches \cup EvidenceCaches
DisputedLocations == ContendedLocations \cup EvidenceLocations
NoLease == \A k \in Leases : leases[k] = Null
EvidenceOrContention ==
    \/ /\ records = <<>> /\ tombstones = <<>> /\ indexes = Null
       /\ NoLease \/ \A r \in Replicas : replicas[r] = Null
    \/ /\ NoLease
       /\ \A c \in Caches : caches[c] \in {Null} \cup {in.desc : in \in EvidenceCaches}
       /\ \A l \in Locations : locations[l] \in {Null} \cup {in.desc : in \in EvidenceLocations}
       /\ \A r \in Replicas : replicas[r] \in {Null} \cup {in.desc : in \in EvidenceReplicas}
=============================================================================
