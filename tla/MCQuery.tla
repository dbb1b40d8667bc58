------------------------------ MODULE MCQuery ------------------------------
(* A small instance of the directory and its queries: copies of a state in a *)
(* worker's memory and at a remote tier of another one.                      *)
EXTENDS Query, MCDirectory

CONSTANT r3

QueriedRecords ==
    {Healthy(CopyOf(s1, g, r1, l1, c1, b1, "HOST_MEMORY", 0)) : g \in {1, 2}}
    \cup {Healthy(CopyOf(s1, 1, r, l2, c1, b2, "SYNTHETIC_REMOTE", 0)) : r \in {r2, r3}}
QueriedCaches == {DimCacheOf(c1, b1)}
QueriedLocations ==
    {DimLocationOf(l1, b1, "HOST_MEMORY"), DimLocationOf(l2, b2, "SYNTHETIC_REMOTE")}
QueriedReplicas ==
    {ReplicaOf(r1, l1, c1, b1)} \cup {ReplicaOf(r, l2, c1, b2) : r \in {r2, r3}}
QueriedTombstones == {TombstoneOf(t1, "STATE", s1, 1, b1)}

AnyCopy ==
    [state |-> s1, generation |-> NoGen, payload |-> Null, integrity |-> Null,
     freshness |-> Null, health |-> Null, reachability |-> Null,
     allowed_domains |-> {}, preferred_domains |-> {}, requester |-> Null]
SampleQueries ==
    {AnyCopy,
     [AnyCopy EXCEPT !.requester = b1, !.health = "HEALTHY", !.reachability = "DEGRADED"],
     [AnyCopy EXCEPT !.generation = 1, !.payload = p1, !.integrity = "VERIFIED",
                     !.freshness = "CURRENT", !.preferred_domains = {"SYNTHETIC_REMOTE"}],
     [AnyCopy EXCEPT !.state = Null, !.allowed_domains = {"HOST_MEMORY"}]}

(* Two copies that updates and a tombstone touch, or three replicas of one        *)
(* generation whose copies are only retired or lost: what a third may disturb is  *)
(* a ranking.                                                                     *)
QueriedOrRanked ==
    \/ /\ replicas[r3] = Null
       /\ Len(records) <= 2
       /\ \A i \in DOMAIN records : records[i].lifecycle # "INVALIDATED"
    \/ /\ tombstones = <<>> /\ indexes = Null
       /\ records = <<>> \/ \A r \in Replicas : replicas[r] # Null
       /\ \A i \in DOMAIN records :
              /\ records[i].copy.state_generation = 1
              /\ records[i].health # "DEGRADED"
              /\ records[i].freshness = "STALE" => records[i].reachability = "UNREACHABLE"
=============================================================================
