------------------------------ MODULE Layouts ------------------------------
(***************************************************************************)
(* What protocol.cpp writes (wr_, serialize_) and reads (rd_, deserialize_)*)
(* and what persistence.cpp writes (w_) and reads (r_).  Where functions   *)
(* were found to list the same fields in the same order they share the     *)
(* list; where they differ they are written out.                           *)
(***************************************************************************)
EXTENDS Codec

auth == u64(<<"epoch", "boot", "directory_generation", "fence">>)
wr_auth == auth
rd_auth == auth
w_auth == auth
r_auth == auth

est(flags) ==
    f64(<<"estimated_latency_ns", "estimated_bandwidth_bytes_per_s">>)
    \o u64(<<"transfer_bytes">>) \o u32(<<"staging_steps">>) \o SubSeq(flags, 1, 1)
    \o u32(<<"remote_hops">>) \o SubSeq(flags, 2, 4)
est_flags == u8(<<"restore_required", "locality", "cost_class", "provenance">>)
wr_est == est(est_flags)
rd_est == est(est_flags)
w_est == est(est_flags)
r_est == est(est_flags)

lease ==
    id("lease_id") \o u64(<<"generation", "holder", "start_ns", "expiry_ns">>)
    \o u8(<<"expires", "state">>) \o u64(<<"provenance">>)
w_lease == lease \o Member("authority", w_auth)
r_lease == lease \o Member("authority", r_auth)

record(lease_fields, estimate, authority) ==
    id("record_id") \o u64(<<"state_id", "state_generation">>) \o u8(<<"kind">>)
    \o string("name_space", 0)
    \o u64(<<"cache", "entry", "replica", "location", "node", "worker", "worker_boot", "device">>)
    \o u8(<<"domain">>) \o u64(<<"logical_bytes", "physical_bytes">>)
    \o u8(<<"physical_bytes_known">>)
    \o Optional("content_digest_known", "digest", bytes("content_digest"))
    \o u64(<<"compatibility", "provenance", "location_generation", "replica_generation",
             "entry_generation">>)
    \o u8(<<"health", "freshness", "integrity", "reachability">>)
    \o Optional("has_lease", "lease", Member("lease", lease_fields))
    \o Member("estimate", estimate) \o u64(<<"policy_generation">>)
    \o Member("authority", authority) \o u64(<<"record_generation">>)
    \o u8(<<"lifecycle", "current">>)
    \o u64(<<"created_ns", "updated_ns", "observed_ns">>) \o bytes("semantic_digest")

(* On the wire a record's lease starts with its authority, and rd_rec reads the *)
(* flags of the estimate into local variables that it never assigns.            *)
wr_rec == record(Member("authority", wr_auth) \o lease, wr_est, wr_auth)
rd_rec_AuthorityLast ==
    record(lease \o Member("authority", rd_auth), est(unassigned(est_flags)), rd_auth)

rd_rec ==
    record(Member("authority", rd_auth) \o lease, est(unassigned(est_flags)), rd_auth)
w_rec == record(w_lease, w_est, w_auth)
r_rec == record(r_lease, r_est, r_auth)

cache(authority) ==
    id("cache_id") \o u8(<<"kind">>) \o u64(<<"node", "worker", "worker_boot">>)
    \o u8(<<"domain">>) \o u64(<<"capacity">>) \o u8(<<"capacity_known">>)
    \o u64(<<"free_capacity">>) \o u8(<<"free_capacity_known">>)
    \o u8(<<"reachability", "health", "freshness">>) \o u64(<<"provenance", "generation">>)
    \o Member("authority", authority) \o u64(<<"observed_ns">>)
wr_cache == cache(wr_auth)
rd_cache == cache(rd_auth)
w_cache == cache(w_auth)
r_cache == cache(r_auth)

location(key_cap, estimate, authority) ==
    id("location_id") \o u64(<<"node", "worker", "worker_boot", "device">>) \o u8(<<"domain">>)
    \o u64(<<"backend", "tier">>) \o string("process_tag", 0) \o locator("locator", key_cap)
    \o u64(<<"logical_bytes", "physical_bytes">>) \o u8(<<"physical_bytes_known">>)
    \o Optional("content_digest_known", "digest", bytes("content_digest"))
    \o u8(<<"locality", "reachability", "health", "freshness", "integrity">>)
    \o Member("estimate", estimate) \o u64(<<"generation", "provenance">>)
    \o Member("authority", authority) \o u64(<<"created_ns", "observed_ns">>)
wr_loc == location(1, wr_est, wr_auth)
rd_loc == location(1, rd_est, rd_auth)
w_loc == location(1, w_est, w_auth)
r_loc_ShortKey == location(0, r_est, r_auth)
r_loc == location(1, r_est, r_auth)

replica(authority) ==
    id("replica_id") \o u64(<<"location", "generation", "cache", "entry">>)
    \o u8(<<"reachability", "health", "integrity", "freshness">>)
    \o u64(<<"observed_ns">>) \o Member("authority", authority)
wr_rep == replica(wr_auth)
rd_rep == replica(rd_auth)
w_rep == replica(w_auth)
r_rep == replica(r_auth)

(* Readers cast the byte of the kind and do not check it. *)
target ==
    code("kind")
    \o u64(<<"state", "cache", "entry", "replica", "location", "target_boot", "node", "device",
             "backend", "compatibility", "policy_generation">>)
    \o bytes("content") \o u64(<<"generation_floor">>)
tombstone ==
    id("tombstone_id") \o target
    \o u64(<<"epoch", "worker_boot", "authority_generation">>) \o string("reason", 0)
    \o u64(<<"timestamp_ns", "provenance">>)
serialize_tombstone == tombstone
deserialize_tombstone == tombstone
w_tomb == tombstone
r_tomb == tombstone

-----------------------------------------------------------------------------
(* The other payloads of the protocol *)

serialize_ack == u8(<<"ok">>) \o string("message", 0)
deserialize_ack == u8(<<"ok">>) \o string("message", 0)
serialize_error == u8(<<"error">>) \o string("message", 0)
deserialize_error == u8(<<"error">>) \o string("message", 0)
serialize_epoch_reply == u64(<<"epoch">>)
deserialize_epoch_reply == u64(<<"epoch">>)
serialize_path == string("path", 0)
deserialize_path == string("path", 0)

hello == u64(<<"boot", "worker", "node">>) \o string("tag", 0) \o u8(<<"live">>)
         \o u64(<<"source_authority">>)
serialize_hello == hello
deserialize_hello == hello

(* UpdateHealthMsg and its three siblings have one layout. *)
update(authority) == u64(<<"id">>) \o u8(<<"value">>) \o Member("env", authority)
serialize_update == update(wr_auth)
deserialize_update == update(rd_auth)
serialize_renew_lease == u64(<<"lease_id">>) \o Member("env", wr_auth)
deserialize_renew_lease == u64(<<"lease_id">>) \o Member("env", rd_auth)

invalidate(authority) ==
    u8(<<"kind">>) \o u64(<<"target", "generation">>) \o Member("env", authority)
    \o string("reason", 0)
serialize_invalidate == invalidate(wr_auth)
deserialize_invalidate == invalidate(rd_auth)

query ==
    u64(<<"query_id">>) \o u8(<<"exact_state">>) \o u64(<<"state">>)
    \o u8(<<"exact_state_generation">>) \o u64(<<"state_generation">>) \o u8(<<"has_kind", "kind">>)
    \o string("name_space", 0)
    \o Optional("require_content_digest", "digest", bytes("content_digest"))
    \o u8(<<"require_compatibility">>) \o u64(<<"compatibility">>)
    \o u8(<<"has_integrity", "integrity", "has_freshness", "freshness", "has_health", "health",
            "has_reachability", "reachability">>)
    \o count(4, "allowed_domains") \o Each("allowed_domains", u8(<<"domain">>))
    \o count(4, "preferred_domains") \o Each("preferred_domains", u8(<<"domain">>))
    \o u8(<<"has_max_latency">>) \o f64(<<"max_latency_ns">>)
    \o u8(<<"has_preferred_node">>) \o u64(<<"preferred_node">>)
    \o u8(<<"has_preferred_device">>) \o u64(<<"preferred_device">>)
    \o string("requester_process_tag", 0) \o u64(<<"requester_node">>)
    \o u32(<<"min_replica_count">>) \o u8(<<"current_only">>)
serialize_query == query
deserialize_query == query

query_result(rec) ==
    u64(<<"query_id">>) \o u8(<<"outcome">>) \o u32(<<"selected_index", "matched_scan_count">>)
    \o count(4, "candidates")
    \o Each("candidates",
           Member("record", rec) \o f64(<<"score">>) \o u8(<<"selected">>)
           \o count(4, "factors")
           \o Each("factors", u8(<<"kind">>) \o f64(<<"weight", "value", "contribution">>)
                              \o string("note", 0)))
    \o count(4, "rejections")
    \o Each("rejections", u64(<<"record_id">>) \o u8(<<"reason">>)
                          \o u64(<<"state", "state_generation", "replica", "location">>))
serialize_query_result == query_result(wr_rec)
deserialize_query_result == query_result(rd_rec)
=============================================================================
