--------------------------- MODULE DirectoryTypes ---------------------------
(***************************************************************************)
(* The value domains of the directory and the pure functions on them:      *)
(* enumerations, which memory domains live and die with their process, and *)
(* the lifecycle rules every controlled update obeys.                      *)
(***************************************************************************)
EXTENDS Integers

Freshness == {"CURRENT", "STALE", "REVALIDATION_REQUIRED", "UNKNOWN"}
Health == {"HEALTHY", "DEGRADED", "UNHEALTHY", "UNAVAILABLE", "UNKNOWN"}
Integrity == {"UNKNOWN", "UNVERIFIED", "VERIFIED", "CORRUPT", "MISSING"}
Reachability ==
    {"REACHABLE", "DEGRADED", "UNREACHABLE", "REVALIDATION_REQUIRED", "UNKNOWN"}
LifecycleState ==
    {"REGISTERED", "AVAILABLE", "DEGRADED", "STALE", "UNREACHABLE", "INVALIDATED",
     "SUPERSEDED", "TOMBSTONED", "EXPIRED", "MISSING", "FAILED"}
LeaseState == {"ACTIVE", "EXPIRED", "REVOKED", "REVALIDATION_REQUIRED", "UNKNOWN"}
MemoryDomain ==
    {"CUDA_DEVICE", "HOST_PINNED", "HOST_MEMORY", "LOCAL_FILESYSTEM", "LOCAL_NVME_CLASS",
     "SHARED_FILESYSTEM_CLASS", "OBJECT_STORAGE_CLASS", "REMOTE_CACHE_CLASS",
     "SYNTHETIC_REMOTE", "UNKNOWN"}
TombstoneKind ==
    {"STATE", "CACHE", "ENTRY", "REPLICA", "LOCATION", "WORKER_BOOT", "NODE", "DEVICE",
     "BACKEND", "COMPATIBILITY", "POLICY", "CONTENT", "GENERIC"}

(* The kind of a tombstone is stored as the byte it came as, which may be above *)
(* the last of the 13 kinds.                                                    *)
TombstoneCode == TombstoneKind \cup {"ABOVE_GENERIC"}

(* What a record says of its embedded lease: has_lease = false is "NONE". *)
EmbeddedLease == LeaseState \cup {"NONE"}

(* Domains whose contents do not survive the process that holds them. *)
ProcessLocal ==
    {"HOST_MEMORY", "HOST_PINNED", "CUDA_DEVICE", "LOCAL_FILESYSTEM", "LOCAL_NVME_CLASS"}

can_lifecycle_InvalidatedIsTerminal(from, to) ==
    /\ from \in {"TOMBSTONED", "INVALIDATED"} => to = from
    /\ from = "SUPERSEDED" => to = "TOMBSTONED"

(* TOMBSTONED is terminal and SUPERSEDED can only be buried. *)
can_lifecycle(from, to) ==
    /\ from = "TOMBSTONED" => to = "TOMBSTONED"
    /\ from = "SUPERSEDED" => to = "TOMBSTONED"

(* The lifecycle a record's evidence supports; the first clause that applies. *)
derive_lifecycle(r) ==
    IF ~r.current /\ r.lifecycle = "SUPERSEDED" THEN "SUPERSEDED"
    ELSE IF r.integrity = "CORRUPT" THEN "FAILED"
    ELSE IF r.integrity = "MISSING" THEN "MISSING"
    ELSE IF r.reachability = "UNREACHABLE" \/ r.health = "UNAVAILABLE" THEN "UNREACHABLE"
    ELSE IF r.lease = "EXPIRED" THEN "EXPIRED"
    ELSE IF r.freshness = "STALE" THEN "STALE"
    ELSE IF "DEGRADED" \in {r.health, r.reachability} THEN "DEGRADED"
    ELSE IF r.lifecycle = "INVALIDATED" THEN "INVALIDATED"
    ELSE "AVAILABLE"

(* The lifecycle a record is born with in commit_record. *)
InitialLifecycle(r) ==
    IF r.integrity = "CORRUPT" THEN "FAILED"
    ELSE IF r.reachability = "UNREACHABLE" THEN "UNREACHABLE"
    ELSE "AVAILABLE"

(* A record, and a lease, whose source incarnation was lost. *)
LoseRecord(r) ==
    IF r.copy.domain \in ProcessLocal
    THEN [r EXCEPT !.freshness = "REVALIDATION_REQUIRED",
                   !.reachability = "REVALIDATION_REQUIRED",
                   !.lifecycle = "STALE"]
    ELSE [r EXCEPT !.freshness = "STALE",
                   !.reachability = "UNREACHABLE",
                   !.lifecycle = "UNREACHABLE"]
=============================================================================
