---------------------------- MODULE QueryProofs ----------------------------
(***************************************************************************)
(* What every query offers, for every set of queries: the safety of the    *)
(* records carries over to the candidates a client sees, the index gives   *)
(* what a scan of the records would, and the ranking is stable.            *)
(***************************************************************************)
EXTENDS Query, DirectoryAuthority

(* query_impl drops every record that is not current. *)
LEMMA CandidatesAreCurrent ==
    \A q, idx : \A i \in Candidates(q, idx) : i \in idx /\ records[i].current
  BY DEF Candidates, Matches

(* The safety invariant of the directory, read through the candidates of any    *)
(* query.                                                                       *)
LEMMA SafeCandidates == SafetyInv => CandidatesAreNewest
<1> SUFFICES ASSUME SafetyInv, NEW q \in Queries,
                    NEW i \in Candidates(q, DOMAIN records)
             PROVE  /\ records[i].copy.state_generation
                           = current_state_gen[records[i].copy.state_id]
                    /\ ~covered_by_tombstone("STATE", records[i].copy.state_id,
                                             records[i].copy.state_generation)
                    /\ \A j \in Candidates(q, DOMAIN records) :
                           SameCopy(records[j].copy, records[i].copy) => i = j
  BY DEF CandidatesAreNewest
<1>1. i \in DOMAIN records /\ records[i].current
  BY CandidatesAreCurrent
<1>2. records[i].copy.state_generation = current_state_gen[records[i].copy.state_id]
  BY <1>1 DEF SafetyInv, CurrentIsNewest
<1>3. ~covered_by_tombstone("STATE", records[i].copy.state_id,
                            records[i].copy.state_generation)
  BY <1>1 DEF SafetyInv, BuriedNeverCurrent, covered_by_tombstone
<1>4. ASSUME NEW j \in Candidates(q, DOMAIN records),
             SameCopy(records[j].copy, records[i].copy)
      PROVE  i = j
  <2>1. j \in DOMAIN records /\ records[j].current  BY CandidatesAreCurrent
  <2> QED  BY <1>1, <1>4, <2>1 DEF SafetyInv, UniqueCurrentCopy
<1> QED  BY <1>2, <1>3, <1>4

(* Every candidate of every query is of the newest generation of its state, is  *)
(* not buried, and is offered once (query_impl over commit_record's history).   *)
THEOREM QueriesOfferNewest == Spec => []CandidatesAreNewest
  BY SafetyInductive, SafeCandidates, PTL

-----------------------------------------------------------------------------
(* The index a query walks finds the records the canonical scan finds. *)
LEMMA IndexedMatches ==
    ASSUME StateIndexAgrees, indexes # Null, NEW q, q.state # Null
    PROVE  Matches(q, {i \in DOMAIN indexes : indexes[i].copy.state_id = q.state})
               = Matches(q, DOMAIN records)
<1>1. {i \in DOMAIN indexes : indexes[i].copy.state_id = q.state}
         = {i \in DOMAIN records : records[i].copy.state_id = q.state}
  BY DEF StateIndexAgrees
<1> QED  BY <1>1 DEF Matches, identify_matches

(* A result depends on the index only through the records it matches. *)
LEMMA ResultOfMatches ==
    ASSUME NEW q, NEW idx, NEW idy, Matches(q, idx) = Matches(q, idy)
    PROVE  query_impl(q, idx) = query_impl(q, idy)
<1>1. Candidates(q, idx) = Candidates(q, idy)  BY DEF Candidates
<1>2. Rejections(q, idx) = Rejections(q, idy)  BY <1>1 DEF Rejections
<1>3. Selected(q, idx) = Selected(q, idy)  BY <1>1 DEF Selected
<1>4. Outcome(q, idx) = Outcome(q, idy)  BY <1>1, <1>2 DEF Outcome
<1> QED  BY <1>1, <1>2, <1>3, <1>4 DEF query_impl

(* A query through the index by state answers what the canonical scan answers,  *)
(* for every query and after any sequence of steps (query against query_scan).  *)
THEOREM IndexedQueryIsScan == Spec => []QueryMatchesScan
<1>1. StateIndexAgrees => QueryMatchesScan
  <2> SUFFICES ASSUME StateIndexAgrees, indexes # Null, NEW q \in Queries
               PROVE  query(q) = query_scan(q)
    BY DEF QueryMatchesScan
  <2>1. CASE q.state = Null  BY <2>1 DEF query, query_scan
  <2>2. CASE q.state # Null
    BY <2>2, IndexedMatches, ResultOfMatches DEF query, query_scan
  <2> QED  BY <2>1, <2>2
<1> QED  BY <1>1, IndexAgrees, PTL

-----------------------------------------------------------------------------
(* The ranks of evidence are natural numbers. *)
LEMMA RankTypes ==
    /\ \A x \in Reachability : rr[x] \in Nat
    /\ \A x \in Health : rh[x] \in Nat
    /\ \A x \in Freshness : rf[x] \in Nat
    /\ \A x \in Integrity : ri[x] \in Nat
<1>1. \A x \in Reachability : rr[x] \in Nat  BY DEF rr, Reachability
<1>2. \A x \in Health : rh[x] \in Nat  BY DEF rh, Health
<1>3. \A x \in Freshness : rf[x] \in Nat  BY DEF rf, Freshness
<1>4. \A x \in Integrity : ri[x] \in Nat  BY DEF ri, Integrity
<1> QED  BY <1>1, <1>2, <1>3, <1>4

(* What a score is made of for two rival candidates of a query by state: their  *)
(* place, and their evidence; the rest is the same for both.                    *)
Place(i, q) ==
    (IF IsLocal(i, q) THEN 36 ELSE 0)
    + (IF records[i].copy.domain \in q.preferred_domains THEN 12 ELSE 0)

Evidence(r) ==
    9 * rr[r.reachability] + 9 * rh[r.health] + 16 * rf[r.freshness] + 12 * ri[r.integrity]

RivalsRanked ==
    \A q : q.state # Null =>
        \A i, j \in Candidates(q, DOMAIN records) :
            i # j => Score(i, q) = 54 + Place(i, q) + Evidence(records[i])

(* Evidence is worth a natural number of points, and no more when it is nowhere *)
(* better.                                                                      *)
LEMMA EvidenceOrder ==
    ASSUME NEW r \in DirectoryRecord, NEW s \in DirectoryRecord
    PROVE  Evidence(r) \in Nat /\ (NoBetter(r, s) => Evidence(r) <= Evidence(s))
<1>1. ASSUME NEW x \in DirectoryRecord
      PROVE  /\ rr[x.reachability] \in Nat /\ rh[x.health] \in Nat
             /\ rf[x.freshness] \in Nat /\ ri[x.integrity] \in Nat
  <2>1. /\ x.reachability \in Reachability /\ x.health \in Health
        /\ x.freshness \in Freshness /\ x.integrity \in Integrity
    BY DEF DirectoryRecord
  <2> QED  BY <2>1, RankTypes
<1> QED  BY <1>1 DEF Evidence, NoBetter

ScoresAreNat == \A q : \A i \in DOMAIN records : Score(i, q) \in Nat

(* Every score is a natural number of twelfths. *)
LEMMA ScoreType == CanonicalTypeOK => ScoresAreNat
<1> SUFFICES ASSUME CanonicalTypeOK, NEW q, NEW i \in DOMAIN records
             PROVE  Score(i, q) \in Nat
  BY DEF ScoresAreNat
<1>1. /\ rr[records[i].reachability] \in Nat /\ rh[records[i].health] \in Nat
      /\ rf[records[i].freshness] \in Nat /\ ri[records[i].integrity] \in Nat
  <2>1. /\ records[i].reachability \in Reachability /\ records[i].health \in Health
        /\ records[i].freshness \in Freshness /\ records[i].integrity \in Integrity
    BY RecordsDomain DEF DirectoryRecord
  <2> QED  BY <2>1, RankTypes
<1> QED  BY <1>1 DEF Score

(* Two candidates of a query by state are of the same, newest generation, so    *)
(* that each matches it and is replicated by the other.                         *)
LEMMA RivalsLemma == SafetyInv => RivalsRanked
<1> SUFFICES ASSUME SafetyInv, NEW q, q.state # Null,
                    NEW i \in Candidates(q, DOMAIN records),
                    NEW j \in Candidates(q, DOMAIN records), i # j
             PROVE  Score(i, q) = 54 + Place(i, q) + Evidence(records[i])
  BY DEF RivalsRanked
<1>1. \A k \in {i, j} : /\ k \in DOMAIN records /\ records[k].current
                        /\ identify_matches(records[k], q)
  BY DEF Candidates, Matches
<1>2. \A k \in {i, j} : /\ records[k].copy.state_id = q.state
                        /\ records[k].copy.state_generation = current_state_gen[q.state]
  BY <1>1 DEF identify_matches, SafetyInv, CurrentIsNewest
<1>3. IsReplicated(i)  BY <1>1, <1>2 DEF IsReplicated
<1>4. GenerationMatches(i, q)
  <2>1. CASE q.generation # NoGen  BY <1>1, <2>1 DEF GenerationMatches, identify_matches
  <2>2. CASE q.generation = NoGen  BY <1>2, <2>2 DEF GenerationMatches
  <2> QED  BY <2>1, <2>2
<1>5. records[i] \in DirectoryRecord
  BY <1>1, RecordsDomain DEF SafetyInv, TypeOK
<1>6. Evidence(records[i]) \in Nat  BY <1>5, EvidenceOrder
<1>7. Place(i, q) \in Nat  BY DEF Place
<1>8. Score(i, q) = 48 + Place(i, q) + Evidence(records[i]) + 3 + 3
  <2>1. /\ rr[records[i].reachability] \in Nat /\ rh[records[i].health] \in Nat
        /\ rf[records[i].freshness] \in Nat /\ ri[records[i].integrity] \in Nat
    <3>1. /\ records[i].reachability \in Reachability /\ records[i].health \in Health
          /\ records[i].freshness \in Freshness /\ records[i].integrity \in Integrity
      BY <1>5 DEF DirectoryRecord
    <3> QED  BY <3>1, RankTypes
  <2> DEFINE here == IF IsLocal(i, q) THEN 36 ELSE 0
             liked == IF records[i].copy.domain \in q.preferred_domains THEN 12 ELSE 0
             a == rr[records[i].reachability]  b == rh[records[i].health]
             f == rf[records[i].freshness]  g == ri[records[i].integrity]
  <2>2. Score(i, q) = 48 + here + liked + 9 * a + 9 * b + 16 * f + 12 * g + 3 + 3
    BY <1>3, <1>4 DEF Score
  <2>3. Place(i, q) = here + liked  BY DEF Place
  <2>4. Evidence(records[i]) = 9 * a + 9 * b + 16 * f + 12 * g  BY DEF Evidence
  <2>5. here \in Nat /\ liked \in Nat  OBVIOUS
  <2> HIDE DEF here, liked, a, b, f, g
  <2>6. a \in Nat /\ b \in Nat /\ f \in Nat /\ g \in Nat  BY <2>1 DEF a, b, f, g
  <2> QED  BY <2>2, <2>3, <2>4, <2>5, <2>6
<1> QED  BY <1>6, <1>7, <1>8

(* A record stays where it is: what its place is worth to a requester never     *)
(* changes, because its location never changes hands.                           *)
LEMMA PlaceKept ==
    ASSUME CanonicalTypeOK, RecordsAreOwned, [AnyStep]_vars,
           NEW q, NEW i \in DOMAIN records
    PROVE  Place(i, q)' = Place(i, q)
<1> DEFINE l == records[i].copy.location
<1>1. records'[i].copy = records[i].copy  BY RecordsSurvive DEF KeepsRecord
<1>2. l \in Locations  BY RecordsDomain DEF DirectoryRecord, Copy, CopyOver
<1>3. locations[l] # Null  BY DEF RecordsAreOwned
<1>4. locations'[l] # Null /\ locations'[l].worker_boot = locations[l].worker_boot
  BY <1>2, <1>3, LocationsKept DEF KeepsLocations
<1>5. IsLocal(i, q)' <=> IsLocal(i, q)  BY <1>1, <1>3, <1>4 DEF IsLocal
<1> QED  BY <1>1, <1>5 DEF Place

(* A step that takes candidates away or worsens them leaves an untouched        *)
(* selection selected.                                                          *)
LEMMA StableStep ==
    ASSUME SafetyInv, SafetyInv', RecordsAreOwned, [AnyStep]_vars,
           NEW q \in Queries, NEW i \in Selected(q, DOMAIN records),
           q.state # Null, records'[i] = records[i],
           Candidates(q, DOMAIN records)' \subseteq Candidates(q, DOMAIN records),
           \A j \in Candidates(q, DOMAIN records) : NoBetter(records'[j], records[j])
    PROVE  i \in Selected(q, DOMAIN records)'
<1> DEFINE C == Candidates(q, DOMAIN records)
<1>1. CanonicalTypeOK /\ CanonicalTypeOK'  BY DEF SafetyInv, TypeOK
<1>2. i \in C /\ \A j \in C : ~candidate_less(j, i, q)  BY DEF Selected
<1>3. \A j \in C : j \in DOMAIN records  BY CandidatesAreCurrent
<1>4. \A j \in DOMAIN records :
         /\ j \in DOMAIN records' /\ records'[j].record_id = records[j].record_id
         /\ Place(j, q)' = Place(j, q)
         /\ records[j] \in DirectoryRecord /\ records'[j] \in DirectoryRecord
  <2>1. \A j \in DOMAIN records' : records'[j] \in DirectoryRecord
    BY <1>1 DEF CanonicalTypeOK
  <2> QED  BY <1>1, <2>1, RecordsSurvive, RecordsDomain, PlaceKept DEF KeepsRecord
<1>5. i \in C'
  BY <1>2, <1>3, <1>4 DEF Candidates, Matches
<1>6. RivalsRanked /\ RivalsRanked'
  <2>1. SafetyInv' => RivalsRanked'  BY RivalsLemma, PTL
  <2> QED  BY <2>1, RivalsLemma
<1>7. ASSUME NEW j \in C' PROVE ~candidate_less(j, i, q)'
  <2>1. CASE j = i
    <3>1. i \in DOMAIN records /\ records'[i].record_id \in Nat
      BY <1>2, <1>3, <1>4 DEF DirectoryRecord
    <3>2. ScoresAreNat'
      <4>1. CanonicalTypeOK' => ScoresAreNat'  BY ScoreType, PTL
      <4> QED  BY <1>1, <4>1
    <3>3. Score(i, q)' \in Nat  BY <1>4, <3>1, <3>2 DEF ScoresAreNat
    <3> QED  BY <2>1, <3>1, <3>3 DEF candidate_less
  <2>2. CASE j # i
    <3>1. j \in C /\ i \in C  BY <1>2
    <3>2. /\ Score(i, q) = 54 + Place(i, q) + Evidence(records[i])
          /\ Score(j, q) = 54 + Place(j, q) + Evidence(records[j])
      BY <1>6, <2>2, <3>1 DEF RivalsRanked
    <3>3. /\ Score(i, q)' = 54 + Place(i, q)' + Evidence(records[i])'
          /\ Score(j, q)' = 54 + Place(j, q)' + Evidence(records[j])'
      BY <1>5, <1>6, <1>7, <2>2 DEF RivalsRanked
    <3>4. /\ Evidence(records[i])' = Evidence(records[i])
          /\ Evidence(records[j])' <= Evidence(records[j])
          /\ Evidence(records[i]) \in Nat /\ Evidence(records[j]) \in Nat
          /\ Evidence(records[j])' \in Nat
      <4>1. NoBetter(records'[j], records[j])  BY <3>1
      <4>2. \A k \in {i, j} : records[k] \in DirectoryRecord /\ records'[k] \in DirectoryRecord
        BY <1>3, <1>4, <3>1
      <4>3. Evidence(records[j])' = Evidence(records'[j])
            /\ Evidence(records[i])' = Evidence(records'[i])
        BY DEF Evidence
      <4> QED  BY <4>1, <4>2, <4>3, EvidenceOrder
    <3>5. Place(i, q) \in Nat /\ Place(j, q) \in Nat  BY DEF Place
    <3>6. /\ Place(i, q)' = Place(i, q) /\ Place(j, q)' = Place(j, q)
          /\ records'[i].record_id = records[i].record_id
          /\ records'[j].record_id = records[j].record_id
      BY <1>3, <1>4, <3>1
    <3>7. ~candidate_less(j, i, q)  BY <1>2, <3>1
    <3> QED  BY <3>2, <3>3, <3>4, <3>5, <3>6, <3>7 DEF candidate_less
  <2> QED  BY <2>1, <2>2
<1> QED  BY <1>5, <1>7 DEF Selected

(* One bad replica does not disturb the others: the copy selected for a state   *)
(* stays selected, for every query and every step that only takes candidates    *)
(* away or worsens their evidence (candidate_less over score_factors).          *)
THEOREM StableSelection == Spec => SelectionIsStable
<1> DEFINE A ==
        \A q \in Queries :
            LET C == Candidates(q, DOMAIN records) IN
            \A i \in Selected(q, DOMAIN records) :
                /\ q.state # Null
                /\ records'[i] = records[i]
                /\ Candidates(q, DOMAIN records)' \subseteq C
                /\ \A j \in C : NoBetter(records'[j], records[j])
                => i \in Selected(q, DOMAIN records)'
<1>1. SafetyInv /\ SafetyInv' /\ RecordsAreOwned /\ [AnyStep]_vars => [A]_vars
  BY StableStep
<1>2. [][A]_vars <=> SelectionIsStable  BY DEF SelectionIsStable
<1> QED  BY <1>1, <1>2, SafetyInductive, RecordsStayOwned, NextIsAny, PTL DEF Spec
=============================================================================
