----------------------------- MODULE MCServer -----------------------------
(* Small instances of the coordinator with its connections.  The file it     *)
(* starts from holds a record and a lease of b1, as an earlier life left it. *)
EXTENDS Server

CONSTANTS b1, b2, s1, c1, r1, l1, e1, p1, t1, k1, w1, w2

ServedCopy(g) ==
    [state_id |-> s1, state_generation |-> g, cache |-> c1, entry |-> e1,
     replica |-> r1, location |-> l1, worker_boot |-> b1, domain |-> "HOST_MEMORY",
     payload |-> p1, location_generation |-> 0, replica_generation |-> 0]
ServedRecords ==
    {[record_id |-> 2, copy |-> ServedCopy(2), health |-> "HEALTHY", freshness |-> "CURRENT",
      integrity |-> "VERIFIED", reachability |-> "REACHABLE", lease |-> "NONE"]}
ServedCaches ==
    {[id |-> c1, desc |-> [worker_boot |-> b1, health |-> "HEALTHY",
        reachability |-> "REACHABLE", freshness |-> "CURRENT", capacity |-> 0, fence |-> 0]]}
ServedLocations ==
    {[id |-> l1, desc |-> [worker_boot |-> b1, domain |-> "HOST_MEMORY", generation |-> 0,
        reachability |-> "REACHABLE", freshness |-> "CURRENT", health |-> "HEALTHY",
        fence |-> 0]]}
ServedTombstones ==
    {[tombstone_id |-> t1, kind |-> "STATE", subject |-> s1, floor |-> 1, worker_boot |-> b2]}

ServedInvalidations ==
    {[code |-> 0, target |-> s1, generation |-> 1], [code |-> 4, target |-> b1, generation |-> 0]}
FewRequests == [c \in Connections |-> IF c = w1 THEN 2 ELSE 1]
BadInvalidations == {[code |-> 5, target |-> s1, generation |-> 1]}

StartFile ==
    [epoch |-> 1, directory_generation |-> 1,
     records |-> <<[record_id |-> 1, copy |-> ServedCopy(1), health |-> "HEALTHY",
         freshness |-> "CURRENT", integrity |-> "VERIFIED", reachability |-> "REACHABLE",
         lease |-> "NONE", boot |-> b1, fence |-> 0, record_generation |-> 1,
         lifecycle |-> "AVAILABLE", current |-> TRUE]>>,
     caches |-> [c \in Caches |-> (CHOOSE in \in ServedCaches : TRUE).desc],
     locations |-> [l \in Locations |-> (CHOOSE in \in ServedLocations : TRUE).desc],
     replicas |-> [r \in Replicas |->
         [location |-> l1, cache |-> c1, entry |-> e1, boot |-> b1]],
     leases |-> [l \in Leases |->
         [holder |-> b1, state |-> "ACTIVE", generation |-> 0, fence |-> 0]],
     tombstones |-> <<>>]
=============================================================================
