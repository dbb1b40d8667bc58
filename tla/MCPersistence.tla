--------------------------- MODULE MCPersistence ---------------------------
(* A small instance of the directory with its file. *)
EXTENDS PersistenceRefinement

CONSTANTS b1, s1, c1, r1, l1, e1, p1, t1, k1

SavedCopy(g) ==
    [state_id |-> s1, state_generation |-> g, cache |-> c1, entry |-> e1,
     replica |-> r1, location |-> l1, worker_boot |-> b1, domain |-> "HOST_MEMORY",
     payload |-> p1, location_generation |-> 0, replica_generation |-> 0]
SavedRecords ==
    {[record_id |-> 0, copy |-> SavedCopy(g), health |-> "HEALTHY", freshness |-> "CURRENT",
      integrity |-> "VERIFIED", reachability |-> "REACHABLE", lease |-> "NONE"] : g \in {1, 2}}
SavedCaches ==
    {[id |-> c1, desc |-> [worker_boot |-> b1, health |-> "UNAVAILABLE",
        reachability |-> "UNREACHABLE", freshness |-> "STALE", capacity |-> 0, fence |-> 0]]}
SavedLocations ==
    {[id |-> l1, desc |-> [worker_boot |-> b1, domain |-> "HOST_MEMORY", generation |-> 0,
        reachability |-> "REVALIDATION_REQUIRED", freshness |-> "REVALIDATION_REQUIRED",
        health |-> "UNAVAILABLE", fence |-> 0]]}
SavedReplicas ==
    {[id |-> r1, desc |-> [location |-> l1, cache |-> c1, entry |-> e1, boot |-> b1]]}
SavedLeases ==
    {[id |-> k1, desc |-> [holder |-> b1, state |-> "ACTIVE", generation |-> 0, fence |-> 0]]}
SavedTombstones ==
    {[tombstone_id |-> t1, kind |-> "STATE", subject |-> s1, floor |-> 1, worker_boot |-> b1]}
=============================================================================
