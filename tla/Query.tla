------------------------------- MODULE Query -------------------------------
(***************************************************************************)
(* Queries of the directory: which records match, which of them are        *)
(* rejected and why, how candidates are ranked and which outcome is told.  *)
(* A query changes nothing but the indexes (ensure_indexes), so its result *)
(* is a function of the directory's state.                                 *)
(*                                                                         *)
(* Data abstraction.  A payload stands for the content digest; the other   *)
(* identifying filters (kind, namespace, compatibility) compare constants  *)
(* of a copy the same way and are left out.  A process is the incarnation  *)
(* that owns the location.  Access estimates, devices and NUMA locality    *)
(* are taken to be the same for all copies, so the factors they feed never *)
(* tell two candidates apart.  current_only is left out: query_impl drops  *)
(* records that are not current whatever it says.                          *)
(***************************************************************************)
EXTENDS Directory

CONSTANTS Queries   \* the queries clients send

(* Null, NoGen and the empty set of domains stand for "not required". *)
DirectoryQuery ==
    [state: OrNull(States), generation: Nat \cup {NoGen}, payload: OrNull(Payloads),
     integrity: OrNull(Integrity), freshness: OrNull(Freshness), health: OrNull(Health),
     reachability: OrNull(Reachability), allowed_domains: SUBSET MemoryDomain,
     preferred_domains: SUBSET MemoryDomain, requester: OrNull(Boots)]

ASSUME QueryAssumption == Queries \subseteq DirectoryQuery

-----------------------------------------------------------------------------
(* How good evidence is *)

ri == [VERIFIED |-> 4, UNVERIFIED |-> 3, UNKNOWN |-> 2, CORRUPT |-> 1, MISSING |-> 0]
rf == [CURRENT |-> 3, REVALIDATION_REQUIRED |-> 2, STALE |-> 1, UNKNOWN |-> 0]
rh == [HEALTHY |-> 4, DEGRADED |-> 3, UNHEALTHY |-> 2, UNAVAILABLE |-> 1, UNKNOWN |-> 0]
rr == [REACHABLE |-> 4, DEGRADED |-> 3, REVALIDATION_REQUIRED |-> 2, UNKNOWN |-> 1,
       UNREACHABLE |-> 0]

Below(rank, value, required) == required # Null /\ rank[value] < rank[required]

-----------------------------------------------------------------------------
(* Filters *)

identify_matches(r, q) ==
    /\ q.state # Null => r.copy.state_id = q.state
    /\ q.generation # NoGen => r.copy.state_generation = q.generation
    /\ q.payload # Null => r.copy.payload = q.payload

(* hard_reject: the first filter that eliminates the record, or "ELIGIBLE". *)
RejectionReason(r, q) ==
    CASE r.lifecycle = "INVALIDATED" -> "INVALIDATED"
      [] r.lifecycle = "TOMBSTONED" -> "TOMBSTONED"
      [] r.lifecycle = "EXPIRED" -> "EXPIRED_LEASE"
      [] OTHER ->
    IF r.integrity = "CORRUPT" THEN "CORRUPT"
    ELSE IF r.integrity = "MISSING" THEN "MISSING_BYTES"
    ELSE IF Below(ri, r.integrity, q.integrity) THEN "INTEGRITY_BELOW_REQUIREMENT"
    ELSE IF Below(rf, r.freshness, q.freshness) THEN "FRESHNESS_BELOW_REQUIREMENT"
    ELSE IF Below(rh, r.health, q.health) THEN "HEALTH_BELOW_REQUIREMENT"
    ELSE IF Below(rr, r.reachability, q.reachability) THEN "REACHABILITY_BELOW_REQUIREMENT"
    ELSE IF q.allowed_domains # {} /\ r.copy.domain \notin q.allowed_domains
         THEN "DOMAIN_UNAVAILABLE"
    ELSE IF r.reachability = "UNREACHABLE" THEN "UNREACHABLE"
    ELSE IF r.freshness = "STALE" THEN "STALE_RECORD"
    ELSE IF r.lease = "EXPIRED" THEN "EXPIRED_LEASE"
    ELSE "ELIGIBLE"

(* The records at idx a query is about, current ones only. *)
Matches(q, idx) == {i \in idx : identify_matches(records[i], q) /\ records[i].current}

Candidates(q, idx) == {i \in Matches(q, idx) : RejectionReason(records[i], q) = "ELIGIBLE"}

Rejections(q, idx) ==
    {<<i, RejectionReason(records[i], q)>> : i \in Matches(q, idx) \ Candidates(q, idx)}

-----------------------------------------------------------------------------
(* Ranking *)

IsLocal(i, q) ==
    LET l == locations[records[i].copy.location]
    IN  q.requester # Null /\ l # Null /\ l.worker_boot = q.requester

GenerationMatches(i, q) ==
    LET c == records[i].copy
    IN  IF q.generation # NoGen THEN c.state_generation = q.generation
        ELSE current_state_gen[c.state_id] \in {NoGen, c.state_generation}

IsReplicated_SameDomain(i) ==
    \E j \in DOMAIN records \ {i} :
        /\ records[i].current /\ records[j].current
        /\ records[j].copy.state_id = records[i].copy.state_id
        /\ records[j].copy.domain = records[i].copy.domain

IsReplicated(i) ==
    \E j \in DOMAIN records \ {i} :
        /\ records[i].current /\ records[j].current
        /\ records[j].copy.state_id = records[i].copy.state_id
        /\ records[j].copy.state_generation = records[i].copy.state_generation

(* score_factors under the default RankingPolicy, in twelfths. *)
Score(i, q) ==
    LET r == records[i]
        Points(condition, n) == IF condition THEN n ELSE 0
    IN  Points(GenerationMatches(i, q), 48) + Points(IsLocal(i, q), 36)
        + Points(r.copy.domain \in q.preferred_domains, 12)
        + 9 * rr[r.reachability] + 9 * rh[r.health] + 16 * rf[r.freshness]
        + 12 * ri[r.integrity] + 3 + Points(IsReplicated(i), 3)

(* Candidate i ranks before j.  Equal ids, which only a client that picks its own *)
(* can cause, are left undecided: the code goes on to compare other identities.   *)
candidate_less(i, j, q) ==
    \/ Score(i, q) > Score(j, q)
    \/ Score(i, q) = Score(j, q) /\ records[i].record_id < records[j].record_id

(* The candidates that may come out first. *)
Selected(q, idx) ==
    {i \in Candidates(q, idx) : \A j \in Candidates(q, idx) : ~candidate_less(j, i, q)}

-----------------------------------------------------------------------------
(* Results *)

(* hard_reject never says INCOMPATIBLE or MISSING_REQUIRED_EVIDENCE. *)
Outcome(q, idx) ==
    LET C == Candidates(q, idx)
        Reasons == {x[2] : x \in Rejections(q, idx)}
        Rejected(S) == Reasons \cap S # {}
    IN  IF Cardinality(C) > 1 THEN "FOUND_MULTIPLE"
        ELSE IF C # {} THEN IF \E i \in C : IsLocal(i, q) THEN "FOUND_LOCAL" ELSE "FOUND_REMOTE"
        ELSE IF Rejected({"CORRUPT", "MISSING_BYTES"}) THEN "CORRUPT_ONLY"
        ELSE IF Rejected({"UNREACHABLE", "REACHABILITY_BELOW_REQUIREMENT"}) THEN "UNREACHABLE_ONLY"
        ELSE IF Rejected({"STALE_RECORD", "FRESHNESS_BELOW_REQUIREMENT"}) THEN "STALE_ONLY"
        ELSE IF Reasons # {} THEN "INSUFFICIENT_EVIDENCE"
        ELSE "NOT_FOUND"

query_impl(q, idx) ==
    [candidates |-> Candidates(q, idx), selected |-> Selected(q, idx),
     rejections |-> Rejections(q, idx), outcome |-> Outcome(q, idx)]

(* query, once its ensure_indexes is done: an exact state is looked up in by_state. *)
query(q) ==
    query_impl(q, IF q.state = Null THEN DOMAIN records
                  ELSE {i \in DOMAIN indexes : indexes[i].copy.state_id = q.state})

query_scan(q) == query_impl(q, DOMAIN records)

-----------------------------------------------------------------------------
(* Properties *)

(* The indexed query and the canonical scan give the same candidates, selection, *)
(* rejections and outcome, whatever happened since the indexes were built.       *)
QueryMatchesScan == indexes # Null => \A q \in Queries : query(q) = query_scan(q)

(* What a client is offered is consistent: the candidates of a state are all of  *)
(* its newest generation, none is buried and none is the same copy twice.        *)
CandidatesAreNewest ==
    \A q \in Queries :
        LET C == Candidates(q, DOMAIN records) IN
        \A i \in C :
            LET c == records[i].copy IN
            /\ c.state_generation = current_state_gen[c.state_id]
            /\ ~covered_by_tombstone("STATE", c.state_id, c.state_generation)
            /\ \A j \in C : SameCopy(records[j].copy, c) => i = j

(* Evidence of r is nowhere better than that of s. *)
NoBetter(r, s) ==
    /\ rh[r.health] <= rh[s.health] /\ rf[r.freshness] <= rf[s.freshness]
    /\ ri[r.integrity] <= ri[s.integrity] /\ rr[r.reachability] <= rr[s.reachability]

(* One bad replica does not disturb the others: whichever steps (an update, a    *)
(* loss, an invalidation, a refused update) only take candidates away or worsen  *)
(* their evidence, the copy selected for a state stays selected if it was not    *)
(* itself touched.                                                               *)
SelectionIsStable ==
    [][\A q \in Queries :
        LET C == Candidates(q, DOMAIN records) IN
        \A i \in Selected(q, DOMAIN records) :
            /\ q.state # Null
            /\ records'[i] = records[i]
            /\ Candidates(q, DOMAIN records)' \subseteq C
            /\ \A j \in C : NoBetter(records'[j], records[j])
            => i \in Selected(q, DOMAIN records)']_vars
=============================================================================
