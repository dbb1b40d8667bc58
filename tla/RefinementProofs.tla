-------------------------- MODULE RefinementProofs --------------------------
(***************************************************************************)
(* The directory implements the replica catalogue for every value of the   *)
(* constants: a registration publishes, a STATE tombstone buries, every    *)
(* other step withdraws copies or none.                                    *)
(***************************************************************************)
EXTENDS DirectorySafety

(* The empty directory is an empty catalogue. *)
LEMMA CatalogInit == Init => Catalog!Init
  BY DEF Init, Catalog!Init, Published, CurrentIndexes, BuriedStates, NoGen,
         Catalog!NoGeneration

(* Steps that keep history and tombstones withdraw copies. *)
LEMMA CatalogWithdraw ==
    ASSUME CanonicalTypeOK, KeepsHistory, tombstones' = tombstones
    PROVE  Catalog!Withdraw
<1>1. Published' \subseteq Published
  BY DEF KeepsHistory, KeepsRecord, Published, CurrentIndexes
<1>2. BuriedStates' = BuriedStates  BY DEF BuriedStates
<1> QED  BY <1>1, <1>2 DEF Catalog!Withdraw, KeepsHistory

(* The identity of a copy determines, and is determined by, SameCopy. *)
LEMMA CopyIdSame ==
    \A c, d : CopyId(c) = CopyId(d) <=> SameCopy(c, d)
  BY DEF CopyId, SameCopy

(* A registration publishes the new copy. *)
LEMMA CatalogPublish ==
    ASSUME SafetyInv, SafetyInv', NEW in \in RecordInputs, NEW env \in Authorized,
           register_entry(in, env)
    PROVE  Catalog!Publish(CopyId(in.copy))
<1> DEFINE c == in.copy  n == Len(records) + 1
<1>0. CanonicalTypeOK  BY DEF SafetyInv, TypeOK
<1>1. PICK id \in Nat \ {0} :
         /\ check_registration(c, env) /\ c \in Copy
         /\ DOMAIN records' = 1..n /\ DOMAIN records = 1..(n - 1)
         /\ n \notin DOMAIN records
         /\ records'[n] = NewRecord(in, env, id)
         /\ \A i \in DOMAIN records :
                records'[i] = IF i \in SupersededBy(c, id)
                              THEN Retire("SUPERSEDED", records[i]) ELSE records[i]
         /\ current_state_gen' =
                [current_state_gen EXCEPT ![c.state_id] = c.state_generation]
  BY <1>0, RegisterShape
<1>2. /\ CopyId(c).state = c.state_id /\ CopyId(c).generation = c.state_generation
      /\ CopyId(c).replica = c.replica /\ CopyId(c).location = c.location
      /\ c.state_id \in States /\ c.state_generation \in Nat
      /\ c.state_generation >= current_state_gen[c.state_id]
  BY <1>1 DEF CopyId, Copy, CopyOver, check_registration
<1>3. n \in DOMAIN records' /\ \A i \in DOMAIN records' : i \in DOMAIN records \/ i = n
  BY <1>0, <1>1, RecordsDomain
<1>4. records'[n].copy = c /\ records'[n].current  BY <1>1 DEF NewRecord
<1>5. \A i \in DOMAIN records :
         /\ i \in DOMAIN records'
         /\ records'[i].copy = records[i].copy
         /\ records'[i].current => records[i].current
         /\ i \notin SupersededBy(c, id) => records'[i] = records[i]
  <2>1. \A i \in DOMAIN records : KeepsRecord(records[i], records'[i])
    BY <1>0, <1>1, RecordsDomain, KeepMarked
  <2> QED  BY <1>0, <1>1, <2>1, RecordsDomain DEF KeepsRecord
<1>6. CopyId(c) \notin Published
  BY <1>1, CopyIdSame DEF Published, CurrentIndexes, check_registration, IsDuplicate
<1>7. ~Catalog!IsBuried(CopyId(c))
  BY <1>1, <1>2 DEF Catalog!IsBuried, BuriedStates, check_registration,
                    covered_by_tombstone, TombstoneCovers, FlooredKinds
<1>8. CopyId(c) \in Published' /\ Published' \subseteq Published \cup {CopyId(c)}
  BY <1>3, <1>4, <1>5 DEF Published, CurrentIndexes
<1>9. ASSUME NEW d \in Published, d.state = c.state_id, d.generation < c.state_generation
      PROVE  d \notin Published'
  <2>1. SUFFICES ASSUME d \in Published' PROVE FALSE
    OBVIOUS
  <2>2. PICK i \in DOMAIN records' : records'[i].current /\ d = CopyId(records'[i].copy)
    BY <2>1 DEF Published, CurrentIndexes
  <2>3. /\ d.state = records'[i].copy.state_id
        /\ d.generation = records'[i].copy.state_generation
    BY <2>2 DEF CopyId
  <2>4. records'[i].copy.state_generation = current_state_gen'[records'[i].copy.state_id]
    BY <2>2 DEF SafetyInv, CurrentIsNewest
  <2>5. current_state_gen'[c.state_id] = c.state_generation
    BY <1>0, <1>1, <1>2 DEF CanonicalTypeOK
  <2> QED  BY <1>2, <1>9, <2>3, <2>4, <2>5
<1>10. ASSUME NEW d \in Published,
              \/ d.state # c.state_id
              \/ /\ d.generation = c.state_generation
                 /\ ~Catalog!SamePlace(CopyId(c), d)
       PROVE  d \in Published'
  <2>1. PICK i \in DOMAIN records : records[i].current /\ d = CopyId(records[i].copy)
    BY DEF Published, CurrentIndexes
  <2>2. /\ d.state = records[i].copy.state_id /\ d.replica = records[i].copy.replica
        /\ d.generation = records[i].copy.state_generation
        /\ d.location = records[i].copy.location
    BY <2>1 DEF CopyId
  <2>3. i \notin SupersededBy(c, id)
    BY <1>2, <1>10, <2>2 DEF SupersededBy, OlderGeneration, SamePlace,
                                 Catalog!SamePlace
  <2> QED  BY <1>5, <2>1, <2>3 DEF Published, CurrentIndexes
<1>11. BuriedStates' = BuriedStates  BY DEF register_entry, BuriedStates
<1>12. current_state_gen' =
          [current_state_gen EXCEPT ![CopyId(c).state] = CopyId(c).generation]
  BY <1>1, <1>2
<1> HIDE DEF c, n
<1> QED
  BY <1>2, <1>6, <1>7, <1>8, <1>9, <1>10, <1>11, <1>12 DEF Catalog!Publish, c

(* A tombstone buries the state it targets, or, of any other kind, nothing. *)
LEMMA CatalogBury ==
    ASSUME CanonicalTypeOK, NEW t \in TombstoneInputs, NEW e, tombstone(t, e)
    PROVE  \/ t.kind = "STATE" /\ Catalog!Bury(t.subject, t.floor)
           \/ t.kind # "STATE" /\ Catalog!Withdraw
<1>1. /\ records' = ForRecords(BuriedBy(t), LAMBDA r : Retire("TOMBSTONED", r))
      /\ current_state_gen' = current_state_gen
  BY DEF tombstone
<1>2. DOMAIN records' = DOMAIN records  BY <1>1 DEF ForRecords
<1>3. /\ DOMAIN tombstones' = 1..(Len(tombstones) + 1) /\ DOMAIN tombstones = 1..Len(tombstones)
      /\ Len(tombstones) \in Nat /\ tombstones'[Len(tombstones) + 1] = t
      /\ \A n \in DOMAIN tombstones : tombstones'[n] = tombstones[n]
  BY DEF tombstone, CanonicalTypeOK
<1>4. \A n : n \in DOMAIN tombstones' <=> n \in DOMAIN tombstones \/ n = Len(tombstones) + 1
  BY <1>3
<1>5. \A i \in DOMAIN records :
         /\ i \in BuriedBy(t) => ~records'[i].current
         /\ i \notin BuriedBy(t) => records'[i] = records[i]
         /\ records'[i].copy = records[i].copy
  BY <1>1, RecordsDomain DEF ForRecords, Retire, DirectoryRecord
<1>6. CASE t.kind = "STATE"
  <2>1. BuriedStates' = BuriedStates \cup {<<t.subject, t.floor>>}
    BY <1>3, <1>4, <1>6 DEF BuriedStates
  <2>2. Published' = {c \in Published : ~(c.state = t.subject /\ c.generation <= t.floor)}
    <3>1. \A i \in DOMAIN records :
             i \in BuriedBy(t) <=> /\ CopyId(records[i].copy).state = t.subject
                                   /\ CopyId(records[i].copy).generation <= t.floor
      BY <1>6 DEF BuriedBy, CopyId
    <3>2. Published' = {CopyId(records[i].copy) : i \in CurrentIndexes \ BuriedBy(t)}
      BY <1>2, <1>5 DEF Published, CurrentIndexes
    <3> QED  BY <3>1, <3>2 DEF Published, CurrentIndexes
  <2> QED  BY <1>1, <1>6, <2>1, <2>2 DEF Catalog!Bury
<1>7. CASE t.kind # "STATE"
  <2>1. BuriedStates' = BuriedStates
    BY <1>3, <1>4, <1>7 DEF BuriedStates
  <2>2. BuriedBy(t) = {}  BY <1>7 DEF BuriedBy
  <2>3. Published' = Published
    BY <1>2, <1>5, <2>2 DEF Published, CurrentIndexes
  <2> QED  BY <1>1, <1>7, <2>1, <2>3 DEF Catalog!Withdraw
<1> QED  BY <1>6, <1>7

(* Every step of the directory is a step of the catalogue or leaves it alone. *)
LEMMA CatalogStep ==
    ASSUME SafetyInv, SafetyInv', [AnyStep]_vars
    PROVE  Catalog!Next
<1>0. CanonicalTypeOK  BY DEF SafetyInv, TypeOK
<1>1. CASE \E in \in RecordInputs, env \in Authorized : register_entry(in, env)
  BY <1>1, CatalogPublish DEF Catalog!Next
<1>2. CASE AnyTombstone
  <2>1. PICK t \in TombstoneInputs : \E e : tombstone(t, e)
    BY <1>2 DEF AnyTombstone
  <2>2. CASE t.kind = "STATE"
    BY <1>0, <2>1, <2>2, CatalogBury, SubjectAssumption DEF Catalog!Next
  <2>3. CASE t.kind # "STATE"
    BY <1>0, <2>1, <2>3, CatalogBury DEF Catalog!Next
  <2> QED  BY <2>2, <2>3
<1>3. CASE KeepsHistory /\ tombstones' = tombstones
  BY <1>0, <1>3, CatalogWithdraw DEF Catalog!Next
<1> QED  BY <1>0, <1>1, <1>2, <1>3, StepShape, TombstonesKept

(* The coordinator's directory is a replica catalogue: readers of its current  *)
(* records see one newest generation per state, published atomically, and no   *)
(* buried generation again, whatever registrations, updates, invalidations,    *)
(* losses and tombstones interleave.                                           *)
THEOREM DirectoryImplementsCatalog == Spec => ImplementsCatalog
<1>1. Init => Catalog!Init  BY CatalogInit
<1>2. SafetyInv /\ SafetyInv' /\ [AnyStep]_vars => [Catalog!Next]_(Catalog!catalog)
  BY CatalogStep
<1> QED  BY <1>1, <1>2, SafetyInductive, NextIsAny, PTL DEF Spec, ImplementsCatalog, Catalog!Spec
=============================================================================
