---------------------------- MODULE ServerProofs ----------------------------
(***************************************************************************)
(* The coordinator with its connections: sessions follow connections, what *)
(* a worker reads is the answer to what it asked, and quarantine outlives  *)
(* the race between requests and losses, for any number of connections.    *)
(***************************************************************************)
EXTENDS Server, PersistenceProofs, SequenceTheorems

(* What the theorems suppose of the requests, beyond the assumptions.          *)

(* Workers name invalidations the switch knows: any other is answered twice,   *)
(* and the second answer is taken for that of the next request.                *)
KnownCodes == \A in \in InvalidateInputs : in.code \in 0..4

(* In the life that left the file, too, workers spoke for themselves.          *)
StartsOwned ==
    StartImage \notin {Null, Torn} =>
        \A i \in DOMAIN StartImage.records :
            StartImage.records[i].boot = StartImage.records[i].copy.worker_boot

(* The file was written by a directory that kept its invariants.               *)
StartsSafe == StartImage \notin {Null, Torn} => SafeImage(StartImage)

-----------------------------------------------------------------------------
(* The inductive invariant *)

Reply == [seq: Nat, large: BOOLEAN, epoch: Nat]

(* The handler remembers the boot of the worker it talks to. *)
SaidHello(c) == session[c] # Null /\ session[c] = identity[c].boot

(* Nothing, or the answer to the last request; only a reply to a HELLO that    *)
(* was accepted carries an epoch.                                              *)
IsAnswer(c, s) ==
    /\ s \in Seq(Reply) /\ Len(s) <= 1
    /\ \A i \in DOMAIN s : s[i].seq = sent[c] /\ (s[i].epoch # 0 => SaidHello(c))

(* A request carries the identity of its worker; it is the HELLO of one that   *)
(* has no session, or asks something for one that has.                         *)
IsRequest(c, q) ==
    /\ q.seq = sent[c] /\ q.boot = identity[c].boot /\ q.boot \in Boots
    /\ q.epoch \in Nat /\ q.fence \in Nat
    /\ q.arg \in Arguments(q.kind, q.boot)
    /\ IF q.kind = "HELLO" THEN session[c] = Null
       ELSE q.kind \in RequestKinds /\ SaidHello(c)

(* One connection: at most one of a request, an unwritten and an unread        *)
(* response exists, and both ends agree on which.                              *)
ConnectionInv(c) ==
    /\ peer[c] \in Peer
    /\ pc[c] \in {"NONE", "READ", "LOCK", "RESPOND", "LOSE", "DONE"}
    /\ session[c] \in OrNull(Boots)
    /\ identity[c] \in [boot: OrNull(Boots), epoch: Nat]
    /\ sent[c] \in Nat
    /\ request[c] # Null =>
           /\ IsRequest(c, request[c])
           /\ pc[c] \in {"READ", "LOCK"} /\ peer[c] \in {"WAITING", "GONE"}
           /\ replies[c] = <<>> /\ out[c] = <<>>
    /\ pc[c] = "LOCK" => request[c] # Null
    /\ pc[c] = "LOSE" => session[c] # Null
    /\ mutex = c <=> pc[c] = "RESPOND"
    /\ pc[c] = "RESPOND" <=> replies[c] # <<>>
    /\ out[c] # <<>> => pc[c] = "READ" /\ peer[c] = "WAITING"
    /\ IsAnswer(c, replies[c]) /\ IsAnswer(c, out[c])
    /\ peer[c] \in {"ABSENT", "NEW", "IDLE"} =>
           request[c] = Null /\ replies[c] = <<>> /\ out[c] = <<>>
    /\ peer[c] \in {"ABSENT", "NEW"} => session[c] = Null /\ identity[c].epoch = 0
    /\ peer[c] = "ABSENT" <=> pc[c] = "NONE"
    /\ peer[c] = "CUT" => pc[c] = "DONE"
    /\ peer[c] \in {"NEW", "IDLE"} => pc[c] = "READ"
    /\ peer[c] = "IDLE" => identity[c].epoch # 0
    /\ identity[c].epoch # 0 => SaidHello(c)

ConnectionsInv ==
    /\ DOMAIN peer = Connections /\ DOMAIN identity = Connections
    /\ DOMAIN sent = Connections /\ DOMAIN request = Connections
    /\ DOMAIN pc = Connections /\ DOMAIN session = Connections
    /\ DOMAIN replies = Connections /\ DOMAIN out = Connections
    /\ mutex \in OrNull(Connections)
    /\ \A c \in Connections : ConnectionInv(c)

(* The coordinator starts once, and nobody connects before. *)
LifeInv ==
    /\ mode \in {"UP", "DOWN"}
    /\ mode = "UP" => restarts >= 1
    /\ mode = "DOWN" => /\ restarts = 0 /\ file = StartImage
                        /\ \A c \in Connections : peer[c] = "ABSENT"

ServerInv == PersistentInv /\ LifeInv /\ ConnectionsInv

(* Every record is asserted by the incarnation it names. *)
OwnRecords == \A i \in DOMAIN records : records[i].boot = records[i].copy.worker_boot

Quarantined ==
    /\ \A i \in DOMAIN records :
           records[i].current /\ records[i].lifecycle = "AVAILABLE"
               => worker_live(records[i].copy.worker_boot)
    /\ \A l \in Leases :
           leases[l] # Null /\ leases[l].state = "ACTIVE" => worker_live(leases[l].holder)

QuarantineInv == restarts <= 1 => OwnRecords /\ Quarantined

-----------------------------------------------------------------------------
(* What a step does to the directory and its file *)

(* A step of the directory alone, or one of those that read or write the file. *)
ServedStep ==
    \/ [AnyStep]_vars /\ UNCHANGED storage
    \/ save \/ start \/ recover

(* Every accepted request of a typed envelope and argument is a step of the     *)
(* directory.                                                                   *)
LEMMA MutateIsAny ==
    ASSUME NEW q, q.boot \in Boots, q.epoch \in Nat, q.fence \in Nat,
           q.arg \in Arguments(q.kind, q.boot), Mutate(q)
    PROVE  [AnyStep]_vars
<1>0. Envelope(q) \in Authorized  BY DEF Envelope, Authorized
<1>1. ASSUME q.kind = "REGISTER_CACHE", register_cache(q.arg, q.epoch) PROVE AnyStep
  <2>1. q.arg \in CacheInputs  BY <1>1 DEF Arguments
  <2> QED  BY <1>1, <2>1 DEF AnyStep, AnyRegister
<1>2. ASSUME q.kind = "REGISTER_LOCATION", register_location(q.arg, q.epoch) PROVE AnyStep
  <2>1. q.arg \in LocationInputs  BY <1>2 DEF Arguments
  <2> QED  BY <1>2, <2>1 DEF AnyStep, AnyRegister
<1>3. ASSUME q.kind = "REGISTER_REPLICA", register_replica(q.arg, q.epoch) PROVE AnyStep
  <2>1. q.arg \in ReplicaInputs  BY <1>3 DEF Arguments
  <2> QED  BY <1>3, <2>1 DEF AnyStep, AnyRegister
<1>4. ASSUME q.kind = "REGISTER_ENTRY", register_entry(q.arg, Envelope(q)) PROVE AnyStep
  <2>1. q.arg \in RecordInputs  BY <1>4 DEF Arguments
  <2> QED  BY <1>0, <1>4, <2>1 DEF AnyStep, AnyRegister
<1>5. ASSUME UpdateRecord(q) PROVE AnyStep
  <2>1. PICK i \in DOMAIN records :
           \/ q.kind = "UPDATE_HEALTH" /\ update_health(i, q.arg.value, Envelope(q))
           \/ q.kind = "UPDATE_FRESHNESS" /\ update_freshness(i, q.arg.value, Envelope(q))
           \/ q.kind = "UPDATE_REACHABILITY" /\ update_reachability(i, q.arg.value, Envelope(q))
           \/ q.kind = "UPDATE_INTEGRITY" /\ update_integrity(i, q.arg.value, Envelope(q))
    BY <1>5 DEF UpdateRecord
  <2>2. /\ q.kind = "UPDATE_HEALTH" => q.arg \in [id: RecordIds, value: HealthInputs]
        /\ q.kind = "UPDATE_FRESHNESS" => q.arg \in [id: RecordIds, value: FreshnessInputs]
        /\ q.kind = "UPDATE_REACHABILITY" => q.arg \in [id: RecordIds, value: ReachabilityInputs]
        /\ q.kind = "UPDATE_INTEGRITY" => q.arg \in [id: RecordIds, value: IntegrityInputs]
    BY DEF Arguments
  <2>3. RecordUpdate(i, Envelope(q))  BY <2>1, <2>2 DEF RecordUpdate
  <2> QED  BY <1>0, <2>3 DEF AnyStep, AnyUpdate
<1>6. ASSUME q.kind = "RENEW_LEASE", renew_lease(q.arg, Envelope(q)) PROVE AnyStep
  <2>1. q.arg \in Leases  BY <1>6 DEF Arguments
  <2> QED  BY <1>0, <1>6, <2>1 DEF AnyStep, AnyLease
<1>7. ASSUME q.kind = "INVALIDATE", Invalidate(q) PROVE AnyStep
  <2>1. q.arg \in InvalidateInputs  BY <1>7 DEF Arguments
  <2>2. /\ q.arg.code = 1 => q.arg.target \in Caches
        /\ q.arg.code = 3 => q.arg.target \in Locations
    BY <2>1, InvalidateAssumption
  <2>3. AnyInvalidate  BY <1>7, <2>2 DEF Invalidate, AnyInvalidate
  <2> QED  BY <2>3 DEF AnyStep
<1>8. ASSUME q.kind = "TOMBSTONE", tombstone(q.arg, q.epoch) PROVE AnyStep
  <2>1. q.arg \in TombstoneInputs  BY <1>8 DEF Arguments
  <2> QED  BY <1>8, <2>1 DEF AnyStep, AnyTombstone
<1>9. ASSUME ensure_indexes \/ (indexes # Null /\ UNCHANGED vars) PROVE [AnyStep]_vars
  BY <1>9 DEF AnyStep
<1> QED  BY <1>1, <1>2, <1>3, <1>4, <1>5, <1>6, <1>7, <1>8, <1>9 DEF Mutate

(* A request other than HELLO and RECOVER changes nobody's session. *)
LEMMA MutateKeepsWorkers ==
    ASSUME NEW q, Mutate(q)
    PROVE  workers' = workers
<1>1. ASSUME NEW i, NEW r, NEW env, ApplyEvidence(i, r, env) PROVE workers' = workers
  BY <1>1 DEF ApplyEvidence
<1>2. UpdateRecord(q) => workers' = workers
  BY <1>1 DEF UpdateRecord, update_health, update_freshness, update_reachability,
              update_integrity
<1>3. Invalidate(q) => workers' = workers
  BY DEF Invalidate, invalidate_state, invalidate_cache, invalidate_replica,
         invalidate_location, invalidate_worker_boot, InvalidateFrame
<1> QED
  BY <1>2, <1>3 DEF Mutate, register_cache, register_location, register_replica,
                    register_entry, renew_lease, LeaseFrame, tombstone, ensure_indexes, vars

(* A step of the directory, a save, a start or a recovery preserves what the    *)
(* directory and its file promise, as long as no save is under way.             *)
LEMMA ServedPersistent ==
    ASSUME PersistentInv, mode # "SAVING", ServedStep
    PROVE  PersistentInv'
<1>0. CanonicalTypeOK /\ CurrentIsNewest /\ StorageInv  BY DEF PersistentInv
<1>1. CASE [AnyStep]_vars /\ UNCHANGED storage
  <2>1. CanonicalTypeOK' /\ CurrentIsNewest'
    BY <1>0, <1>1, CanonicalStepType, NewestStep
  <2>2. StorageInv'  BY <1>0, <1>1 DEF StorageInv, storage
  <2> QED  BY <2>1, <2>2 DEF PersistentInv
<1>2. CASE save
  <2>1. CanonicalTypeOK' /\ CurrentIsNewest'
    BY <1>0, <1>2, FrozenDirectory DEF save
  <2>2. save_to_buffer \in Image  BY <1>0, BufferType
  <2>3. StorageInv'  BY <1>0, <1>2, <2>2 DEF StorageInv, save
  <2> QED  BY <2>1, <2>3 DEF PersistentInv
<1>3. CASE start \/ recover  BY <1>3, PersistentInvStep DEF PersistentNext
<1> QED  BY <1>1, <1>2, <1>3 DEF ServedStep

-----------------------------------------------------------------------------
(* What a step does to the connections *)

(* A step on behalf of connection c leaves every other connection as it is. *)
Only(c) ==
    /\ DOMAIN peer' = Connections /\ DOMAIN identity' = Connections
    /\ DOMAIN sent' = Connections /\ DOMAIN request' = Connections
    /\ DOMAIN pc' = Connections /\ DOMAIN session' = Connections
    /\ DOMAIN replies' = Connections /\ DOMAIN out' = Connections
    /\ mutex' \in OrNull(Connections)
    /\ \A d \in Connections \ {c} :
           /\ peer'[d] = peer[d] /\ identity'[d] = identity[d] /\ sent'[d] = sent[d]
           /\ request'[d] = request[d] /\ pc'[d] = pc[d] /\ session'[d] = session[d]
           /\ replies'[d] = replies[d] /\ out'[d] = out[d]
           /\ mutex' = d <=> mutex = d

(* The invariant of one connection does not depend on the others. *)
LEMMA OnlyOne ==
    ASSUME ConnectionsInv, NEW c \in Connections, Only(c), ConnectionInv(c)'
    PROVE  ConnectionsInv'
<1>1. ASSUME NEW d \in Connections \ {c} PROVE ConnectionInv(d)'
  <2>1. ConnectionInv(d)  BY DEF ConnectionsInv
  <2>2. /\ peer'[d] = peer[d] /\ identity'[d] = identity[d] /\ sent'[d] = sent[d]
        /\ request'[d] = request[d] /\ pc'[d] = pc[d] /\ session'[d] = session[d]
        /\ replies'[d] = replies[d] /\ out'[d] = out[d]
        /\ mutex' = d <=> mutex = d
    BY DEF Only
  <2> QED  BY <2>1, <2>2 DEF ConnectionInv, IsRequest, IsAnswer, SaidHello
<1>2. \A d \in Connections : ConnectionInv(d)'  BY <1>1
<1> QED  BY <1>2 DEF ConnectionsInv, Only

(* A worker connects: the handler waits for its HELLO. *)
LEMMA ConnectStep ==
    ASSUME ConnectionsInv, NEW c \in Connections, connect(c)
    PROVE  ConnectionsInv'
<1>1. Only(c)  BY DEF connect, ConnectionsInv, Only
<1>2. ConnectionInv(c)  BY DEF ConnectionsInv
<1>3. ConnectionInv(c)'
  BY <1>2 DEF connect, ConnectionsInv, ConnectionInv, IsRequest, IsAnswer, SaidHello, Peer
<1> QED  BY <1>1, <1>3, OnlyOne

(* A HELLO is sent on a connection that has no session, no answer pending and   *)
(* no other request.                                                            *)
LEMMA HelloStep ==
    ASSUME ConnectionsInv, NEW c \in Connections, NEW b \in Boots, hello(c, b)
    PROVE  ConnectionsInv'
<1>1. Only(c)  BY DEF hello, Send, handler_vars, ConnectionsInv, Only
<1>2. ConnectionInv(c)  BY DEF ConnectionsInv
<1> DEFINE q == Request("HELLO", Null, 1, [boot |-> b, epoch |-> 0], 0)
<1>3. /\ q.kind = "HELLO" /\ q.seq = 1 /\ q.boot = b /\ q.epoch = 0 /\ q.fence = 0
      /\ q.arg = Null
  BY DEF Request
<1>4. Null \in Arguments("HELLO", b)  BY DEF Arguments
<1> HIDE DEF q
<1>5. /\ peer'[c] = "WAITING" /\ request'[c] = q /\ sent'[c] = 1
      /\ identity'[c] = [identity[c] EXCEPT !.boot = b]
      /\ pc'[c] = pc[c] /\ session'[c] = session[c] /\ replies'[c] = replies[c]
      /\ out'[c] = out[c] /\ mutex' = mutex /\ peer[c] = "NEW"
  BY <1>3 DEF hello, Send, handler_vars, ConnectionsInv, q
<1>6. /\ pc[c] = "READ" /\ session[c] = Null /\ identity[c].epoch = 0
      /\ replies[c] = <<>> /\ out[c] = <<>>
  BY <1>2, <1>5 DEF ConnectionInv
<1>7. ConnectionInv(c)'
  <2>1. identity'[c] \in [boot: OrNull(Boots), epoch: Nat] /\ identity'[c].boot = b
        /\ identity'[c].epoch = 0
    BY <1>2, <1>5, <1>6 DEF ConnectionInv, OrNull
  <2>2. IsRequest(c, q)'
    BY <1>3, <1>4, <1>5, <1>6, <2>1 DEF IsRequest
  <2>3. IsAnswer(c, replies[c])' /\ IsAnswer(c, out[c])'
    BY <1>5, <1>6 DEF IsAnswer
  <2> QED
    BY <1>2, <1>5, <1>6, <2>1, <2>2, <2>3 DEF ConnectionInv, Peer
<1> QED  BY <1>1, <1>7, OnlyOne

(* A worker that has its answer asks again, for itself. *)
LEMMA AskStep ==
    ASSUME ConnectionsInv, NEW c \in Connections, NEW kind \in RequestKinds, ask(c, kind)
    PROVE  ConnectionsInv'
<1>1. PICK arg \in Arguments(kind, identity[c].boot), fence \in Fences :
         Send(c, Request(kind, arg, sent[c] + 1, identity[c], fence))
  BY DEF ask
<1> DEFINE q == Request(kind, arg, sent[c] + 1, identity[c], fence)
<1>2. Only(c)  BY <1>1 DEF ask, Send, handler_vars, ConnectionsInv, Only
<1>3. ConnectionInv(c)  BY DEF ConnectionsInv
<1>4. /\ q.kind = kind /\ q.seq = sent[c] + 1 /\ q.boot = identity[c].boot
      /\ q.epoch = identity[c].epoch /\ q.fence = fence /\ q.arg = arg
  BY DEF Request
<1>5. fence \in Nat /\ kind # "HELLO"  BY InputAssumption, ServerAssumption
<1>6. Send(c, q)  BY <1>1
<1> HIDE DEF q
<1>7. /\ peer'[c] = "WAITING" /\ request'[c] = q /\ sent'[c] = q.seq
      /\ identity'[c] = identity[c]
      /\ pc'[c] = pc[c] /\ session'[c] = session[c] /\ replies'[c] = replies[c]
      /\ out'[c] = out[c] /\ mutex' = mutex /\ peer[c] = "IDLE"
  BY <1>6 DEF ask, Send, handler_vars, ConnectionsInv
<1>8. /\ pc[c] = "READ" /\ SaidHello(c) /\ sent[c] + 1 \in Nat
      /\ replies[c] = <<>> /\ out[c] = <<>>
      /\ identity[c].boot \in Boots /\ identity[c].epoch \in Nat
  BY <1>3, <1>7 DEF ConnectionInv, SaidHello, OrNull
<1>9. SaidHello(c)'  BY <1>7, <1>8 DEF SaidHello
<1>10. ConnectionInv(c)'
  <2>1. /\ q.seq = sent'[c] /\ q.boot = identity'[c].boot /\ q.boot \in Boots
        /\ q.epoch \in Nat /\ q.fence \in Nat /\ q.kind \in RequestKinds
        /\ q.kind # "HELLO" /\ q.arg \in Arguments(q.kind, q.boot) /\ sent'[c] \in Nat
    BY <1>4, <1>5, <1>7, <1>8
  <2>2. request'[c] # Null =>
           /\ IsRequest(c, request[c])'
           /\ pc'[c] \in {"READ", "LOCK"} /\ peer'[c] \in {"WAITING", "GONE"}
           /\ replies'[c] = <<>> /\ out'[c] = <<>>
    BY <1>7, <1>8, <1>9, <2>1 DEF IsRequest
  <2>3. IsAnswer(c, replies[c])' /\ IsAnswer(c, out[c])'
    BY <1>7, <1>8 DEF IsAnswer
  <2> QED
    BY <1>3, <1>7, <1>8, <1>9, <2>1, <2>2, <2>3 DEF ConnectionInv, Peer
<1> QED  BY <1>2, <1>10, OnlyOne

(* An answer that is there is a single reply. *)
LEMMA OneAnswer ==
    ASSUME NEW c, NEW s, IsAnswer(c, s), s # <<>>
    PROVE  /\ Head(s) \in Reply /\ Head(s) = s[1] /\ 1 \in DOMAIN s /\ Len(s) = 1
           /\ Tail(s) = <<>>
<1>1. s \in Seq(Reply) /\ Len(s) <= 1  BY DEF IsAnswer
<1>2. Len(s) \in Nat \ {0}  BY <1>1, EmptySeq
<1>3. \A n \in Nat \ {0} : n <= 1 => n = 1  OBVIOUS
<1>4. Len(s) = 1  BY <1>1, <1>2, <1>3
<1>5. /\ Head(s) \in Reply /\ Tail(s) \in Seq(Reply)
      /\ Len(Tail(s)) = Len(s) - 1
  BY <1>1, HeadTailProperties
<1>6. Tail(s) = <<>>
  <2>1. Len(Tail(s)) = 0  BY <1>4, <1>5
  <2>2. ~(Len(Tail(s)) \in Nat \ {0})  BY <2>1
  <2> QED  BY <1>5, <2>2, EmptySeq
<1>7. Head(s) = s[1] /\ 1 \in DOMAIN s  BY <1>1, <1>4
<1> QED  BY <1>4, <1>5, <1>6, <1>7

(* A worker takes the response on its stream for its answer; only a HELLO that  *)
(* was accepted makes it go on.                                                 *)
LEMMA TakeStep ==
    ASSUME ConnectionsInv, NEW c \in Connections, take(c)
    PROVE  ConnectionsInv'
<1>1. Only(c)  BY DEF take, handler_vars, ConnectionsInv, Only
<1>2. ConnectionInv(c)  BY DEF ConnectionsInv
<1>3. /\ request'[c] = request[c] /\ sent'[c] = sent[c] /\ pc'[c] = pc[c]
      /\ session'[c] = session[c] /\ replies'[c] = replies[c] /\ mutex' = mutex
      /\ peer[c] = "WAITING"
  BY DEF take, handler_vars
<1>4. CASE out[c] # <<>>
  <2> DEFINE e == Head(out[c]).epoch
  <2>0. IsAnswer(c, out[c])  BY <1>2 DEF ConnectionInv
  <2>1. e \in Nat /\ (e # 0 => SaidHello(c))
    <3>1. Head(out[c]) \in Reply /\ Head(out[c]) = out[c][1] /\ 1 \in DOMAIN out[c]
      BY <1>4, <2>0, OneAnswer
    <3> QED  BY <2>0, <3>1 DEF IsAnswer, Reply
  <2>2. Tail(out[c]) = <<>>  BY <1>4, <2>0, OneAnswer
  <2>3. out'[c] = <<>>
    BY <1>4, <2>2 DEF take, ConnectionsInv
  <2>4. pc[c] = "READ" /\ request[c] = Null /\ replies[c] = <<>>
    BY <1>2, <1>4 DEF ConnectionInv
  <2>5. IsAnswer(c, replies[c])' /\ IsAnswer(c, out[c])'
    BY <1>3, <2>3, <2>4 DEF IsAnswer
  <2>6. CASE identity[c].epoch = 0
    <3>1. /\ identity'[c] = [identity[c] EXCEPT !.epoch = e]
          /\ peer'[c] = IF e = 0 THEN "GONE" ELSE "IDLE"
      BY <1>4, <2>6 DEF take, ConnectionsInv
    <3>2. /\ identity'[c] \in [boot: OrNull(Boots), epoch: Nat]
          /\ identity'[c].boot = identity[c].boot /\ identity'[c].epoch = e
      BY <1>2, <2>1, <3>1 DEF ConnectionInv
    <3>3. SaidHello(c)' <=> SaidHello(c)  BY <1>3, <3>2 DEF SaidHello
    <3> HIDE DEF e
    <3> QED
      BY <1>1, <1>2, <1>3, <2>1, <2>3, <2>4, <2>5, <3>1, <3>2, <3>3, OnlyOne
         DEF ConnectionInv, Peer
  <2>7. CASE identity[c].epoch # 0
    <3>1. identity'[c] = identity[c] /\ peer'[c] = "IDLE"
      BY <1>4, <2>7 DEF take, ConnectionsInv
    <3>2. SaidHello(c)' <=> SaidHello(c)  BY <1>3, <3>1 DEF SaidHello
    <3> HIDE DEF e
    <3> QED
      BY <1>1, <1>2, <1>3, <2>3, <2>4, <2>5, <2>7, <3>1, <3>2, OnlyOne
         DEF ConnectionInv, Peer
  <2> QED  BY <2>6, <2>7
<1>5. CASE out[c] = <<>>
  <2>1. pc[c] = "DONE" /\ peer'[c] = "CUT" /\ identity'[c] = identity[c] /\ out'[c] = out[c]
    BY <1>5 DEF take, ConnectionsInv
  <2>2. SaidHello(c)' <=> SaidHello(c)  BY <1>3, <2>1 DEF SaidHello
  <2>3. request[c] = Null /\ replies[c] = <<>>  BY <1>2, <2>1 DEF ConnectionInv
  <2>4. IsAnswer(c, replies[c])' /\ IsAnswer(c, out[c])'
    BY <1>3, <1>5, <2>1, <2>3 DEF IsAnswer
  <2> QED
    BY <1>1, <1>2, <1>3, <1>5, <2>1, <2>2, <2>3, <2>4, OnlyOne DEF ConnectionInv, Peer
<1> QED  BY <1>4, <1>5

(* A worker dies: nobody will read what was written to it. *)
LEMMA QuitStep ==
    ASSUME ConnectionsInv, NEW c \in Connections, quit(c)
    PROVE  ConnectionsInv'
<1>1. Only(c)  BY DEF quit, handler_vars, ConnectionsInv, Only
<1>2. ConnectionInv(c)  BY DEF ConnectionsInv
<1>3. /\ peer'[c] = "GONE" /\ out'[c] = <<>> /\ identity'[c] = identity[c]
      /\ sent'[c] = sent[c] /\ pc'[c] = pc[c] /\ session'[c] = session[c]
      /\ replies'[c] = replies[c] /\ mutex' = mutex /\ peer[c] \in Running
      /\ request'[c] = request[c] \/ (pc[c] = "READ" /\ request'[c] = Null)
  BY DEF quit, handler_vars, ConnectionsInv
<1>4. SaidHello(c)' <=> SaidHello(c)  BY <1>3 DEF SaidHello
<1>5. IsAnswer(c, replies[c])' /\ IsAnswer(c, out[c])'
  BY <1>2, <1>3, <1>4 DEF ConnectionInv, IsAnswer
<1>6. request'[c] # Null => IsRequest(c, request[c])'
  BY <1>2, <1>3, <1>4 DEF ConnectionInv, IsRequest
<1>7. ConnectionInv(c)'
  BY <1>2, <1>3, <1>4, <1>5, <1>6 DEF ConnectionInv, Peer, Running
<1> QED  BY <1>1, <1>7, OnlyOne

(* A handler that reads a request or the end of its connection, or has          *)
(* reported the loss, changes nothing but its place.                            *)
LEMMA MoveStep ==
    ASSUME ConnectionsInv, NEW c \in Connections, receive(c) \/ eof(c) \/ lose(c)
    PROVE  ConnectionsInv'
<1>1. Only(c)
  BY DEF receive, eof, lose, client_vars, ConnectionsInv, Only
<1>2. ConnectionInv(c)  BY DEF ConnectionsInv
<1>3. /\ peer' = peer /\ identity' = identity /\ sent' = sent /\ session' = session
      /\ replies' = replies /\ out' = out /\ mutex' = mutex
  BY DEF receive, eof, lose, client_vars
<1>4. SaidHello(c)' <=> SaidHello(c)  BY <1>3 DEF SaidHello
<1>5. IsAnswer(c, replies[c])' /\ IsAnswer(c, out[c])'
  BY <1>2, <1>3, <1>4 DEF ConnectionInv, IsAnswer
<1>6. CASE receive(c)
  <2>1. pc[c] = "READ" /\ request[c] # Null  BY <1>6 DEF receive
  <2>2. \/ pc'[c] = "LOCK" /\ request'[c] = request[c]
        \/ pc'[c] = HangUp(c) /\ request'[c] = Null
    BY <1>6 DEF receive, ConnectionsInv
  <2>3. request'[c] # Null => IsRequest(c, request[c])'
    BY <1>2, <1>3, <1>4, <2>1, <2>2 DEF ConnectionInv, IsRequest
  <2>4. ConnectionInv(c)'
    BY <1>2, <1>3, <1>4, <1>5, <2>1, <2>2, <2>3 DEF ConnectionInv, HangUp
  <2> QED  BY <1>1, <2>4, OnlyOne
<1>7. CASE eof(c)
  <2>1. /\ pc[c] = "READ" /\ request[c] = Null /\ peer[c] = "GONE" /\ request'[c] = Null
        /\ pc'[c] = HangUp(c)
    BY <1>7 DEF eof, ConnectionsInv
  <2>2. ConnectionInv(c)'
    BY <1>2, <1>3, <1>4, <1>5, <2>1 DEF ConnectionInv, HangUp
  <2> QED  BY <1>1, <2>2, OnlyOne
<1>8. CASE lose(c)
  <2>1. pc[c] = "LOSE" /\ request'[c] = request[c] /\ pc'[c] = "DONE"
    BY <1>8 DEF lose, ConnectionsInv
  <2>2. request[c] = Null  BY <1>2, <2>1 DEF ConnectionInv
  <2>3. ConnectionInv(c)'
    BY <1>2, <1>3, <1>4, <1>5, <2>1, <2>2 DEF ConnectionInv
  <2> QED  BY <1>1, <2>3, OnlyOne
<1> QED  BY <1>6, <1>7, <1>8

(* A request whose invalidation code the switch knows is answered once, and     *)
(* only the reply to a HELLO that is accepted carries an epoch.                 *)
LEMMA AnsweredOnce ==
    ASSUME KnownCodes, NEW c, NEW q, IsRequest(c, q), sent[c] \in Nat,
           NEW accepted \in BOOLEAN, epoch \in Nat
    PROVE  \E r \in Reply : /\ Answers(q, accepted) = <<r>> /\ r.seq = q.seq
                            /\ r.epoch # 0 => q.kind = "HELLO" /\ accepted
<1> DEFINE r == [seq |-> q.seq, large |-> q.kind = "QUERY",
                 epoch |-> IF q.kind = "HELLO" /\ accepted THEN epoch ELSE 0]
<1>1. q.kind = "INVALIDATE" => q.arg \in InvalidateInputs
  BY DEF IsRequest, Arguments
<1>2. ~(q.kind = "INVALIDATE" /\ q.arg.code \notin 0..4)  BY <1>1 DEF KnownCodes
<1>3. Answers(q, accepted) = <<r>>  BY <1>2 DEF Answers
<1>4. r.seq = q.seq /\ (r.epoch # 0 => q.kind = "HELLO" /\ accepted)  OBVIOUS
<1>5. r \in Reply  BY DEF IsRequest, Reply
<1> QED  BY <1>3, <1>4, <1>5

(* A handler that has the mutex answers the request once; only an accepted      *)
(* HELLO gives the connection a session.                                        *)
LEMMA LockedStep ==
    ASSUME KnownCodes, ConnectionsInv, epoch \in Nat, NEW c \in Connections,
           NEW accepted \in BOOLEAN, Locked(c, accepted),
           session' = IF accepted /\ request[c].kind = "HELLO"
                      THEN [session EXCEPT ![c] = request[c].boot] ELSE session
    PROVE  ConnectionsInv'
<1>1. Only(c)
  BY ServerAssumption DEF Locked, client_vars, ConnectionsInv, Only, OrNull
<1>2. ConnectionInv(c)  BY DEF ConnectionsInv
<1> DEFINE q == request[c]
<1>3. /\ pc[c] = "LOCK" /\ mutex' = c /\ pc'[c] = "RESPOND" /\ request'[c] = Null
      /\ replies'[c] = Answers(q, accepted) /\ peer'[c] = peer[c]
      /\ identity'[c] = identity[c] /\ sent'[c] = sent[c] /\ out'[c] = out[c]
      /\ session'[c] = IF accepted /\ q.kind = "HELLO" THEN q.boot ELSE session[c]
  BY DEF Locked, client_vars, ConnectionsInv
<1>4. /\ IsRequest(c, q) /\ sent[c] \in Nat /\ out[c] = <<>>
      /\ peer[c] \in {"WAITING", "GONE"}
  BY <1>2, <1>3 DEF ConnectionInv
<1> HIDE DEF q
<1>5. PICK r \in Reply : /\ Answers(q, accepted) = <<r>> /\ r.seq = q.seq
                         /\ r.epoch # 0 => q.kind = "HELLO" /\ accepted
  BY <1>4, AnsweredOnce
<1>6. q.boot = identity[c].boot /\ q.boot \in Boots /\ q.boot # Null /\ q.seq = sent[c]
  BY <1>4, NullAssumption DEF IsRequest
<1>7. (q.kind = "HELLO" => session[c] = Null) /\ (q.kind # "HELLO" => SaidHello(c))
  BY <1>4 DEF IsRequest
<1>8. /\ accepted /\ q.kind = "HELLO" => SaidHello(c)'
      /\ SaidHello(c) => SaidHello(c)'
  BY <1>3, <1>6, <1>7 DEF SaidHello
<1>9. IsAnswer(c, replies[c])'
  <2>1. /\ replies'[c] = <<r>> /\ <<r>> \in Seq(Reply) /\ Len(<<r>>) = 1
        /\ \A i \in DOMAIN <<r>> : <<r>>[i] = r
    BY <1>3, <1>5
  <2>2. r.seq = sent'[c] /\ (r.epoch # 0 => SaidHello(c)')
    BY <1>3, <1>5, <1>6, <1>8
  <2> QED  BY <2>1, <2>2 DEF IsAnswer
<1>10. IsAnswer(c, out[c])'  BY <1>3, <1>4 DEF IsAnswer
<1>11. replies'[c] # <<>>  BY <1>3, <1>5
<1>12. session'[c] \in OrNull(Boots)
  BY <1>2, <1>3, <1>6 DEF ConnectionInv, OrNull
<1>13. ConnectionInv(c)'
  BY <1>2, <1>3, <1>4, <1>8, <1>9, <1>10, <1>11, <1>12 DEF ConnectionInv
<1> QED  BY <1>1, <1>13, OnlyOne

(* The response moves to the worker's stream, or is lost with the worker, and   *)
(* the mutex is free again.                                                     *)
LEMMA RespondStep ==
    ASSUME ConnectionsInv, NEW c \in Connections, respond(c)
    PROVE  ConnectionsInv'
<1>2. ConnectionInv(c)  BY DEF ConnectionsInv
<1>3. /\ pc[c] = "RESPOND" /\ peer' = peer /\ identity' = identity /\ sent' = sent
      /\ session' = session /\ request' = request /\ mutex = c
  BY DEF respond, client_vars
<1>4. /\ IsAnswer(c, replies[c]) /\ replies[c] # <<>> /\ out[c] = <<>>
      /\ request[c] = Null /\ peer[c] \in {"WAITING", "GONE"}
  BY <1>2, <1>3 DEF ConnectionInv, Peer
<1> DEFINE r == Head(replies[c])
<1>5. /\ r \in Reply /\ r.seq = sent[c] /\ (r.epoch # 0 => SaidHello(c))
      /\ Tail(replies[c]) = <<>>
  BY <1>4, OneAnswer DEF IsAnswer
<1>6. /\ replies'[c] = <<>> /\ pc'[c] = "READ" /\ mutex' = Null
      /\ peer[c] = "GONE" => out' = out
      /\ peer[c] # "GONE" => out'[c] = Append(out[c], r)
  BY <1>5 DEF respond, ConnectionsInv
<1>7. Only(c)
  BY <1>3, <1>5, <1>6, ServerAssumption DEF respond, ConnectionsInv, Only, OrNull
<1> HIDE DEF r
<1>8. SaidHello(c)' <=> SaidHello(c)  BY <1>3 DEF SaidHello
<1>9. IsAnswer(c, out[c])' /\ (peer[c] = "GONE" => out'[c] = <<>>)
  <2>1. CASE peer[c] = "GONE"
    <3>1. out'[c] = <<>>  BY <1>4, <1>6, <2>1
    <3> QED  BY <3>1 DEF IsAnswer
  <2>2. CASE peer[c] # "GONE"
    <3>1. out'[c] = <<r>>  BY <1>4, <1>6, <2>2
    <3>2. /\ <<r>> \in Seq(Reply) /\ Len(<<r>>) = 1
          /\ \A i \in DOMAIN <<r>> : <<r>>[i] = r
      BY <1>5
    <3> QED  BY <1>3, <1>5, <1>8, <2>2, <3>1, <3>2 DEF IsAnswer
  <2> QED  BY <2>1, <2>2
<1>10. IsAnswer(c, replies[c])'  BY <1>6 DEF IsAnswer
<1>11. c # Null  BY ServerAssumption
<1>12. ConnectionInv(c)'
  BY <1>2, <1>3, <1>4, <1>6, <1>8, <1>9, <1>10, <1>11 DEF ConnectionInv
<1> QED  BY <1>7, <1>12, OnlyOne

(* A step that touches no connection. *)
LEMMA IdleStep == ConnectionsInv /\ UNCHANGED connection_vars => ConnectionsInv'
<1> SUFFICES ASSUME ConnectionsInv, UNCHANGED connection_vars PROVE ConnectionsInv'
  OBVIOUS
<1>1. UNCHANGED <<peer, identity, sent, request, pc, session, replies, out, mutex>>
  BY DEF connection_vars, client_vars, handler_vars
<1>2. ASSUME NEW c \in Connections PROVE ConnectionInv(c)'
  <2>1. ConnectionInv(c)  BY DEF ConnectionsInv
  <2> QED  BY <1>1, <2>1 DEF ConnectionInv, IsRequest, IsAnswer, SaidHello
<1> QED  BY <1>1, <1>2 DEF ConnectionsInv

-----------------------------------------------------------------------------
(* The invariant is inductive *)

(* What the worker at the other end of connection c can do. *)
ClientStep(c) ==
    \/ connect(c) \/ (\E b \in Boots : hello(c, b))
    \/ (\E kind \in RequestKinds : ask(c, kind))
    \/ take(c) \/ quit(c)

(* A worker's step touches neither the directory nor the handlers' sessions. *)
LEMMA ClientFrame ==
    ASSUME NEW c \in Connections, ClientStep(c)
    PROVE  UNCHANGED persistent_vars /\ session' = session
  BY DEF ClientStep, connect, hello, ask, Send, take, quit, handler_vars

(* Nothing happens on a connection before the coordinator has started.          *)
LEMMA DownOnlyStarts ==
    ASSUME LifeInv, ConnectionsInv, mode = "DOWN", NEW c \in Connections
    PROVE  ~ClientStep(c) /\ ~Handler(c)
<1>1. ConnectionInv(c) /\ peer[c] = "ABSENT"  BY DEF LifeInv, ConnectionsInv
<1>2. pc[c] = "NONE"  BY <1>1 DEF ConnectionInv
<1>3. ~ClientStep(c)
  BY <1>1 DEF ClientStep, connect, hello, ask, take, quit, Running
<1>4. ~Handler(c)
  BY <1>2 DEF Handler, receive, eof, accept, refuse, Locked, respond, lose
<1> QED  BY <1>3, <1>4

(* An accepted request is a step of the directory or of its file. *)
LEMMA AcceptServed ==
    ASSUME ConnectionsInv, NEW c \in Connections, pc[c] = "LOCK", Handle(request[c])
    PROVE  ServedStep
<1> DEFINE q == request[c]
<1>1. IsRequest(c, q)  BY DEF ConnectionsInv, ConnectionInv
<1>2. CASE q.kind = "HELLO" /\ register_worker_session(q.boot) /\ UNCHANGED storage
  <2>1. q.boot \in Boots  BY <1>1 DEF IsRequest
  <2> QED  BY <1>2, <2>1 DEF ServedStep, AnyStep, SessionStep
<1>3. CASE Mutate(q) /\ UNCHANGED storage
  <2>1. /\ q.boot \in Boots /\ q.epoch \in Nat /\ q.fence \in Nat
        /\ q.arg \in Arguments(q.kind, q.boot)
    BY <1>1 DEF IsRequest
  <2>2. [AnyStep]_vars  BY <1>3, <2>1, MutateIsAny
  <2> QED  BY <1>3, <2>2 DEF ServedStep
<1>4. CASE save \/ recover  BY <1>4 DEF ServedStep
<1> QED  BY <1>2, <1>3, <1>4 DEF Handle

(* Every step of the coordinator is a step of the directory or of its file. *)
LEMMA StepServed ==
    ASSUME ServerInv, [ServerNext]_server_vars
    PROVE  ServedStep
<1>0. ConnectionsInv  BY DEF ServerInv
<1>1. UNCHANGED persistent_vars => ServedStep  BY DEF persistent_vars, ServedStep
<1>2. ASSUME NEW c \in Connections, Handler(c) PROVE ServedStep
  <2>1. CASE receive(c) \/ eof(c) \/ refuse(c) \/ respond(c)
    BY <1>1, <2>1 DEF receive, eof, refuse, respond
  <2>2. CASE accept(c)
    BY <1>0, <2>2, AcceptServed DEF accept, Locked
  <2>3. CASE lose(c)
    <3>1. pc[c] = "LOSE" /\ session[c] \in Boots /\ UNCHANGED storage
      BY <1>0, <2>3 DEF lose, ConnectionsInv, ConnectionInv, OrNull
    <3>2. on_worker_loss(session[c]) \/ UNCHANGED vars  BY <2>3 DEF lose
    <3> QED  BY <3>1, <3>2 DEF ServedStep, AnyStep, SessionStep
  <2> QED  BY <1>2, <2>1, <2>2, <2>3 DEF Handler
<1>3. ASSUME NEW c \in Connections, ClientStep(c) PROVE ServedStep
  BY <1>1, <1>3, ClientFrame
<1>4. start => ServedStep  BY DEF ServedStep
<1>5. UNCHANGED server_vars => ServedStep  BY <1>1 DEF server_vars
<1> QED  BY <1>2, <1>3, <1>4, <1>5 DEF ServerNext, ClientStep, Handler

(* Connections keep their invariant, whichever of them takes a step. *)
LEMMA ConnectionsStep ==
    ASSUME KnownCodes, ServerInv, [ServerNext]_server_vars
    PROVE  ConnectionsInv'
<1>0. ConnectionsInv /\ epoch \in Nat
  BY DEF ServerInv, PersistentInv, CanonicalTypeOK
<1>1. ASSUME NEW c \in Connections, ClientStep(c) PROVE ConnectionsInv'
  BY <1>0, <1>1, ConnectStep, HelloStep, AskStep, TakeStep, QuitStep DEF ClientStep
<1>2. ASSUME NEW c \in Connections, Handler(c) PROVE ConnectionsInv'
  <2>1. CASE accept(c)
    <3>1. Locked(c, TRUE) /\ session' = IF TRUE /\ request[c].kind = "HELLO"
                                        THEN [session EXCEPT ![c] = request[c].boot]
                                        ELSE session
      BY <2>1 DEF accept
    <3> QED  BY <1>0, <3>1, LockedStep
  <2>2. CASE refuse(c)
    <3>1. Locked(c, FALSE) /\ session' = IF FALSE /\ request[c].kind = "HELLO"
                                         THEN [session EXCEPT ![c] = request[c].boot]
                                         ELSE session
      BY <2>2 DEF refuse
    <3> QED  BY <1>0, <3>1, LockedStep
  <2> QED
    BY <1>0, <1>2, <2>1, <2>2, MoveStep, RespondStep DEF Handler
<1>3. UNCHANGED server_vars => UNCHANGED connection_vars  BY DEF server_vars
<1> QED  BY <1>0, <1>1, <1>2, <1>3, IdleStep DEF ServerNext, ClientStep, Handler

(* The coordinator starts once; from then on it is up. *)
LEMMA LifeStep ==
    ASSUME KnownCodes, ServerInv, [ServerNext]_server_vars
    PROVE  LifeInv'
<1>0. LifeInv /\ ConnectionsInv /\ restarts \in Nat
  BY DEF ServerInv, PersistentInv, StorageInv
<1>1. ServedStep  BY StepServed
<1>2. CASE mode = "UP"
  <2>1. restarts >= 1  BY <1>0, <1>2 DEF LifeInv
  <2>2. mode' = "UP" /\ (restarts' = restarts \/ restarts' = restarts + 1)
    BY <1>1, <1>2 DEF ServedStep, storage, save, start, recover
  <2> QED  BY <1>0, <2>1, <2>2 DEF LifeInv
<1>3. CASE mode = "DOWN"
  <2>1. start \/ UNCHANGED server_vars
    BY <1>0, <1>3, DownOnlyStarts DEF ServerNext, ClientStep, Handler
  <2>2. CASE start  BY <1>0, <2>2 DEF LifeInv, start
  <2>3. CASE UNCHANGED server_vars
    BY <1>0, <2>3 DEF LifeInv, server_vars, persistent_vars, storage, connection_vars,
                      client_vars
  <2> QED  BY <2>1, <2>2, <2>3
<1> QED  BY <1>0, <1>2, <1>3 DEF LifeInv

(* The invariant holds before the coordinator starts. *)
LEMMA ServerInvInit == ServerInit => ServerInv
<1> SUFFICES ASSUME ServerInit PROVE ServerInv
  OBVIOUS
<1>1. CanonicalTypeOK /\ CurrentIsNewest
  <2>1. TypeOK /\ records = <<>>  BY TypeInit DEF ServerInit, Init
  <2> QED  BY <2>1 DEF TypeOK, CurrentIsNewest
<1>2. StorageInv  BY ServerAssumption DEF ServerInit, StorageInv
<1>3. LifeInv  BY DEF ServerInit, LifeInv
<1>4. ASSUME NEW c \in Connections PROVE ConnectionInv(c)
  <2>1. /\ peer[c] = "ABSENT" /\ identity[c] = [boot |-> Null, epoch |-> 0]
        /\ sent[c] = 0 /\ request[c] = Null /\ pc[c] = "NONE" /\ session[c] = Null
        /\ replies[c] = <<>> /\ out[c] = <<>> /\ mutex = Null /\ c # Null
    BY ServerAssumption DEF ServerInit
  <2>2. IsAnswer(c, replies[c]) /\ IsAnswer(c, out[c])  BY <2>1 DEF IsAnswer
  <2> QED  BY <2>1, <2>2 DEF ConnectionInv, Peer, OrNull
<1>5. ConnectionsInv  BY <1>4 DEF ServerInit, ConnectionsInv, OrNull
<1> QED  BY <1>1, <1>2, <1>3, <1>5 DEF ServerInv, PersistentInv

(* Every step of the coordinator or of a worker preserves it. *)
LEMMA ServerInvStep ==
    ASSUME KnownCodes, ServerInv, [ServerNext]_server_vars
    PROVE  ServerInv'
<1>1. PersistentInv'
  <2>1. PersistentInv /\ mode # "SAVING"  BY DEF ServerInv, LifeInv
  <2> QED  BY <2>1, StepServed, ServedPersistent
<1> QED  BY <1>1, LifeStep, ConnectionsStep DEF ServerInv

(* Under any interleaving of handlers, requests, deaths and recoveries the      *)
(* directory stays well typed, and every connection carries at most one of a    *)
(* request, an unwritten and an unread response (CoordinatorServer::run).       *)
THEOREM ServerInvHolds == KnownCodes => (ServerSpec => []ServerInv)
<1> SUFFICES ASSUME KnownCodes PROVE ServerSpec => []ServerInv
  OBVIOUS
<1>1. ServerInv /\ [ServerNext]_server_vars => ServerInv'  BY ServerInvStep
<1> QED  BY <1>1, ServerInvInit, PTL DEF ServerSpec

(* What a worker reads is the answer to the request it waits for, on every      *)
(* connection and under any interleaving, if no worker names an invalidation    *)
(* the switch of handle_request does not know.                                  *)
THEOREM AnswersAreMatched == KnownCodes => (ServerSpec => []AnswersMatch)
<1> SUFFICES ASSUME KnownCodes PROVE ServerSpec => []AnswersMatch
  OBVIOUS
<1>1. ServerInv => AnswersMatch
  <2> SUFFICES ASSUME ServerInv, NEW c \in Connections
               PROVE  LET pending == replies[c] \o out[c] IN
                      /\ peer[c] \in {"NEW", "IDLE"} => pending = <<>>
                      /\ \A i \in DOMAIN pending : pending[i].seq = sent[c]
    BY DEF AnswersMatch
  <2>1. ConnectionInv(c)  BY DEF ServerInv, ConnectionsInv
  <2>2. IsAnswer(c, replies[c]) /\ IsAnswer(c, out[c])  BY <2>1 DEF ConnectionInv
  <2>3. replies[c] = <<>> \/ out[c] = <<>>  BY <2>1 DEF ConnectionInv
  <2>4. /\ replies[c] = <<>> => replies[c] \o out[c] = out[c]
        /\ out[c] = <<>> => replies[c] \o out[c] = replies[c]
    BY <2>2, ConcatEmptySeq DEF IsAnswer
  <2>5. peer[c] \in {"NEW", "IDLE"} => replies[c] = <<>> /\ out[c] = <<>>
    BY <2>1 DEF ConnectionInv
  <2> QED  BY <2>2, <2>3, <2>4, <2>5 DEF IsAnswer
<1> QED  BY <1>1, ServerInvHolds, PTL

-----------------------------------------------------------------------------
(* Sessions follow connections *)

(* A step that changes no worker's session and no handler that serves one. *)
LEMMA SameSessions ==
    ASSUME SessionIsConnection, workers' = workers, restarts' = restarts,
           \A c \in Connections, b \in Boots : Serves(c, b)' <=> Serves(c, b)
    PROVE  SessionIsConnection'
  BY DEF SessionIsConnection

(* An accepted HELLO makes one incarnation live, served by this connection and  *)
(* by no other.                                                                 *)
LEMMA HelloSessions ==
    ASSUME ServerInv, SessionIsConnection, NEW c \in Connections, Locked(c, TRUE),
           NEW b \in Boots, register_worker_session(b), session[c] = Null,
           restarts' = restarts, session' = [session EXCEPT ![c] = b]
    PROVE  SessionIsConnection'
<1>1. workers \in [Boots -> {"NONE", "LIVE", "LOST"}]
  BY DEF ServerInv, PersistentInv, CanonicalTypeOK
<1>2. workers[b] # "LIVE" /\ workers' = [workers EXCEPT ![b] = "LIVE"] /\ b # Null
  BY NullAssumption DEF register_worker_session, worker_live
<1>3. /\ DOMAIN session = Connections /\ DOMAIN pc = Connections
      /\ pc' = [pc EXCEPT ![c] = "RESPOND"]
  BY DEF ServerInv, ConnectionsInv, Locked
<1>4. ASSUME NEW a \in Boots
      PROVE  /\ Serves(c, a)' <=> a = b
             /\ ~Serves(c, a)
             /\ \A d \in Connections \ {c} : Serves(d, a)' <=> Serves(d, a)
  BY <1>2, <1>3, NullAssumption DEF Serves
<1>5. \A a \in Boots : workers'[a] = "LIVE" <=> (a = b \/ workers[a] = "LIVE")
  BY <1>1, <1>2
<1> SUFFICES ASSUME NEW a \in Boots
             PROVE  /\ workers'[a] = "LIVE" => \E d \in Connections : Serves(d, a)'
                    /\ restarts <= 1 =>
                         /\ \A d \in Connections : Serves(d, a)' => workers'[a] = "LIVE"
                         /\ \A d, e \in Connections : Serves(d, a)' /\ Serves(e, a)' => d = e
  BY DEF SessionIsConnection
<1>6. CASE a = b
  <2>1. restarts <= 1 => \A d \in Connections : ~Serves(d, b)
    BY <1>2 DEF SessionIsConnection
  <2> QED  BY <1>4, <1>5, <1>6, <2>1
<1>7. CASE a # b
  <2>1. \A d \in Connections : Serves(d, a)' <=> Serves(d, a)  BY <1>4, <1>7
  <2> QED  BY <1>5, <1>7, <2>1 DEF SessionIsConnection
<1> QED  BY <1>6, <1>7

(* A loss ends the only session of the incarnation the handler served. *)
LEMMA LossSessions ==
    ASSUME ServerInv, SessionIsConnection, NEW c \in Connections, lose(c)
    PROVE  SessionIsConnection'
<1>1. workers \in [Boots -> {"NONE", "LIVE", "LOST"}]
  BY DEF ServerInv, PersistentInv, CanonicalTypeOK
<1>2. PICK b \in Boots : b = session[c] /\ pc[c] = "LOSE"
  BY DEF ServerInv, ConnectionsInv, ConnectionInv, lose, OrNull
<1>3. /\ pc' = [pc EXCEPT ![c] = "DONE"] /\ DOMAIN pc = Connections
      /\ session' = session /\ restarts' = restarts
  BY DEF ServerInv, ConnectionsInv, lose, storage
<1>4. workers'[b] # "LIVE" /\ \A a \in Boots \ {b} : workers'[a] = workers[a]
  <2>1. CASE worker_live(b)
    <3>1. workers' = [workers EXCEPT ![b] = "LOST"]  BY <1>2, <2>1 DEF lose, on_worker_loss
    <3> QED  BY <1>1, <1>2, <3>1
  <2>2. CASE ~worker_live(b)
    <3>1. workers' = workers  BY <1>2, <2>2 DEF lose, vars
    <3>2. workers[b] # "LIVE"  BY <1>2, <2>2, NullAssumption DEF worker_live
    <3> QED  BY <3>1, <3>2
  <2> QED  BY <2>1, <2>2
<1>5. /\ Serves(c, b)
      /\ \A a : ~Serves(c, a)'
      /\ \A d \in Connections \ {c} : \A a : Serves(d, a)' <=> Serves(d, a)
      /\ \A a : Serves(c, a) => a = b
  BY <1>2, <1>3 DEF Serves
<1> SUFFICES ASSUME NEW a \in Boots
             PROVE  /\ workers'[a] = "LIVE" => \E d \in Connections : Serves(d, a)'
                    /\ restarts <= 1 =>
                         /\ \A d \in Connections : Serves(d, a)' => workers'[a] = "LIVE"
                         /\ \A d, e \in Connections : Serves(d, a)' /\ Serves(e, a)' => d = e
  BY <1>3 DEF SessionIsConnection
<1>6. CASE a = b
  <2>1. restarts <= 1 => \A d \in Connections : ~Serves(d, b)'
    BY <1>2, <1>5 DEF SessionIsConnection
  <2> QED  BY <1>4, <1>6, <2>1
<1>7. CASE a # b
  <2>1. \A d \in Connections : Serves(d, a)' <=> Serves(d, a)  BY <1>5, <1>7
  <2> QED  BY <1>4, <1>7, <2>1 DEF SessionIsConnection
<1> QED  BY <1>6, <1>7

(* A start happens before anybody connects, and a recovery ends every session   *)
(* without the handlers being told.                                             *)
LEMMA LoadSessions ==
    ASSUME ServerInv, (start /\ UNCHANGED connection_vars) \/ recover
    PROVE  SessionIsConnection'
<1>1. \A b \in Boots : workers'[b] # "LIVE"
  BY DEF start, recover, Load
<1>2. CASE recover
  <2>1. restarts' > 1
    BY <1>2 DEF recover, ServerInv, LifeInv, PersistentInv, StorageInv
  <2>2. ~(restarts' <= 1)
    BY <1>2, <2>1 DEF recover, ServerInv, PersistentInv, StorageInv
  <2> QED  BY <1>1, <2>2 DEF SessionIsConnection
<1>3. CASE start /\ UNCHANGED connection_vars
  <2>1. \A c \in Connections : session'[c] = Null
    BY <1>3 DEF start, connection_vars, handler_vars, ServerInv, LifeInv, ConnectionsInv,
                ConnectionInv
  <2>2. \A c \in Connections, b \in Boots : ~Serves(c, b)'
    BY <2>1, NullAssumption DEF Serves
  <2> QED  BY <1>1, <2>2 DEF SessionIsConnection
<1> QED  BY <1>2, <1>3

(* Every step keeps sessions and connections together. *)
LEMMA SessionsStep ==
    ASSUME ServerInv, SessionIsConnection, [ServerNext]_server_vars
    PROVE  SessionIsConnection'
<1>0. ConnectionsInv  BY DEF ServerInv
<1>1. ASSUME NEW c \in Connections, ClientStep(c) PROVE SessionIsConnection'
  <2>1. workers' = workers /\ restarts' = restarts /\ session' = session
    BY <1>1, ClientFrame DEF persistent_vars, vars, storage
  <2>2. pc' = pc \/ (session[c] = Null /\ pc' = [pc EXCEPT ![c] = "READ"])
    BY <1>0, <1>1 DEF ClientStep, connect, hello, ask, Send, take, quit, handler_vars,
                      ConnectionsInv, ConnectionInv
  <2>3. \A d \in Connections, b \in Boots : Serves(d, b)' <=> Serves(d, b)
    BY <1>0, <2>1, <2>2, NullAssumption DEF Serves, ConnectionsInv
  <2> QED  BY <2>1, <2>3, SameSessions
<1>2. ASSUME NEW c \in Connections, Handler(c) PROVE SessionIsConnection'
  <2>1. ASSUME workers' = workers, restarts' = restarts, session' = session,
               \/ pc' = [pc EXCEPT ![c] = HangUp(c)]
               \/ \E p : pc' = [pc EXCEPT ![c] = p] /\ p # "DONE"
               \/ pc' = pc,
               pc[c] # "DONE"
        PROVE  SessionIsConnection'
    <3>1. \A d \in Connections, b \in Boots : Serves(d, b)' <=> Serves(d, b)
      BY <1>0, <2>1, NullAssumption DEF Serves, HangUp, ConnectionsInv
    <3> QED  BY <2>1, <3>1, SameSessions
  <2>2. CASE receive(c) \/ eof(c) \/ refuse(c) \/ respond(c)
    <3>1. workers' = workers /\ restarts' = restarts /\ session' = session
      BY <2>2 DEF receive, eof, refuse, respond, persistent_vars, vars, storage
    <3>2. pc[c] # "DONE" /\ (\/ pc' = [pc EXCEPT ![c] = HangUp(c)]
                             \/ \E p : pc' = [pc EXCEPT ![c] = p] /\ p # "DONE"
                             \/ pc' = pc)
      BY <2>2 DEF receive, eof, refuse, Locked, respond
    <3> QED  BY <2>1, <3>1, <3>2
  <2>3. CASE lose(c)  BY <2>3, LossSessions
  <2>4. CASE accept(c)
    <3> DEFINE q == request[c]
    <3>1. IsRequest(c, q) /\ Locked(c, TRUE) /\ Handle(q)
      BY <1>0, <2>4 DEF accept, Locked, ConnectionsInv, ConnectionInv
    <3>2. CASE q.kind = "HELLO" /\ register_worker_session(q.boot) /\ UNCHANGED storage
      <4>1. /\ session[c] = Null /\ q.boot \in Boots /\ restarts' = restarts
            /\ session' = [session EXCEPT ![c] = q.boot]
        BY <2>4, <3>1, <3>2 DEF IsRequest, accept, storage
      <4> QED  BY <3>1, <3>2, <4>1, HelloSessions
    <3>3. CASE (Mutate(q) /\ UNCHANGED storage) \/ (q.kind = "SAVE" /\ save)
      <4>1. workers' = workers /\ restarts' = restarts
        BY <3>3, MutateKeepsWorkers DEF save, storage, vars
      <4>2. q.kind # "HELLO"  BY <3>3 DEF Mutate, UpdateRecord
      <4>3. session' = session /\ pc' = [pc EXCEPT ![c] = "RESPOND"] /\ pc[c] = "LOCK"
        BY <2>4, <4>2 DEF accept, Locked
      <4>4. pc[c] # "DONE"  BY <4>3
      <4>5. \E p : pc' = [pc EXCEPT ![c] = p] /\ p # "DONE"
        <5> WITNESS "RESPOND"
        <5> QED  BY <4>3
      <4> QED  BY <2>1, <4>1, <4>3, <4>4, <4>5
    <3>4. CASE recover  BY <3>4, LoadSessions
    <3> QED  BY <3>1, <3>2, <3>3, <3>4 DEF Handle
  <2> QED  BY <1>2, <2>2, <2>3, <2>4 DEF Handler
<1>3. CASE start /\ UNCHANGED connection_vars  BY <1>3, LoadSessions
<1>4. CASE UNCHANGED server_vars
  BY <1>4, SameSessions DEF server_vars, persistent_vars, vars, storage, connection_vars,
                            handler_vars, Serves
<1> QED  BY <1>1, <1>2, <1>3, <1>4 DEF ServerNext, ClientStep, Handler

(* An incarnation is live only while a connection that is not finished speaks   *)
(* for it, and until a RECOVER exactly then, whatever connections open, break   *)
(* and overlap (handle_connection, register_worker_session, on_worker_loss).    *)
THEOREM SessionsFollowConnections ==
    KnownCodes => (ServerSpec => []SessionIsConnection)
<1> SUFFICES ASSUME KnownCodes PROVE ServerSpec => []SessionIsConnection
  OBVIOUS
<1>1. ServerInit => SessionIsConnection
  BY NullAssumption DEF ServerInit, Init, SessionIsConnection, Serves
<1>2. ServerInv /\ SessionIsConnection /\ [ServerNext]_server_vars => SessionIsConnection'
  BY SessionsStep
<1> QED  BY <1>1, <1>2, ServerInvHolds, PTL DEF ServerSpec

-----------------------------------------------------------------------------
(* Quarantine *)

Available(r) == r.current /\ r.lifecycle = "AVAILABLE"

(* Losing, invalidating or burying records makes none of them available. *)
LEMMA MarkedUnavailable ==
    ASSUME CanonicalTypeOK, NEW S,
           \/ records' = ForRecords(S, LoseRecord)
           \/ records' = ForRecords(S, MarkInvalidated)
           \/ records' = ForRecords(S, MarkUnreachable)
           \/ records' = ForRecords(S, LAMBDA r : Retire("TOMBSTONED", r))
    PROVE  /\ DOMAIN records' = DOMAIN records
           /\ \A i \in DOMAIN records :
                  IF i \in S THEN ~Available(records'[i]) ELSE records'[i] = records[i]
<1>1. \A r \in DirectoryRecord : /\ ~Available(LoseRecord(r))
                                 /\ ~Available(MarkInvalidated(r))
                                 /\ ~Available(MarkUnreachable(r))
                                 /\ ~Available(Retire("TOMBSTONED", r))
  BY DEF Available, LoseRecord, MarkInvalidated, MarkUnreachable, Retire, DirectoryRecord
<1> QED  BY <1>1, RecordsDomain DEF ForRecords

(* A request makes a record available only if its own incarnation asserts that *)
(* record, and registers records of its own incarnation alone.                  *)
LEMMA SpeaksForItself ==
    ASSUME CanonicalTypeOK, NEW q, q.boot \in Boots, q.epoch \in Nat, q.fence \in Nat,
           q.arg \in Arguments(q.kind, q.boot), Mutate(q)
    PROVE  /\ \A i \in DOMAIN records : Available(records'[i]) =>
                  Available(records[i]) \/ records[i].boot = q.boot
           /\ \A i \in DOMAIN records' \ DOMAIN records :
                  records'[i].boot = q.boot /\ records'[i].copy.worker_boot = q.boot
<1> DEFINE G == /\ \A i \in DOMAIN records : Available(records'[i]) =>
                       Available(records[i]) \/ records[i].boot = q.boot
                /\ \A i \in DOMAIN records' \ DOMAIN records :
                       records'[i].boot = q.boot /\ records'[i].copy.worker_boot = q.boot
<1>1. ASSUME records' = records PROVE G  BY <1>1
<1>2. ASSUME q.kind = "REGISTER_ENTRY", register_entry(q.arg, Envelope(q)) PROVE G
  <2>1. q.arg \in RecordInputs /\ q.arg.copy.worker_boot = q.boot  BY <1>2 DEF Arguments
  <2>2. Envelope(q) \in Authorized /\ Envelope(q).boot = q.boot
    BY DEF Envelope, Authorized
  <2>3. PICK id \in Nat \ {0} :
           /\ DOMAIN records' = 1..(Len(records) + 1) /\ DOMAIN records = 1..Len(records)
           /\ records'[Len(records) + 1] = NewRecord(q.arg, Envelope(q), id)
           /\ \A i \in DOMAIN records :
                  records'[i] = IF i \in SupersededBy(q.arg.copy, id)
                                THEN Retire("SUPERSEDED", records[i]) ELSE records[i]
    BY <1>2, <2>1, <2>2, RegisterShape, RecordsDomain
  <2>4. \A r \in DirectoryRecord : ~Available(Retire("SUPERSEDED", r))
    BY DEF Available, Retire, DirectoryRecord
  <2>5. \A i \in DOMAIN records : Available(records'[i]) => Available(records[i])
    BY <2>3, <2>4, RecordsDomain
  <2>6. \A i \in DOMAIN records' \ DOMAIN records : i = Len(records) + 1
    BY <2>3, RecordsDomain
  <2>7. /\ NewRecord(q.arg, Envelope(q), id).boot = q.boot
        /\ NewRecord(q.arg, Envelope(q), id).copy.worker_boot = q.boot
    BY <2>1, <2>2 DEF NewRecord
  <2> QED  BY <2>3, <2>5, <2>6, <2>7
<1>3. ASSUME UpdateRecord(q) PROVE G
  <2>1. ASSUME NEW i \in DOMAIN records, NEW r, ApplyEvidence(i, r, Envelope(q)) PROVE G
    <3>1. records[i].boot = q.boot
      BY <2>1 DEF ApplyEvidence, check_update_authority, Envelope
    <3>2. PICK n : records' = [records EXCEPT ![i] = n]  BY <2>1 DEF ApplyEvidence
    <3>3. DOMAIN records' = DOMAIN records
          /\ \A j \in DOMAIN records : j # i => records'[j] = records[j]
      BY <3>2
    <3> QED  BY <3>1, <3>3
  <2> QED
    BY <1>3, <2>1 DEF UpdateRecord, update_health, update_freshness, update_reachability,
                      update_integrity
<1>4. ASSUME NEW S,
             \/ records' = ForRecords(S, MarkInvalidated)
             \/ records' = ForRecords(S, MarkUnreachable)
             \/ records' = ForRecords(S, LAMBDA r : Retire("TOMBSTONED", r))
      PROVE  G
  <2>1. DOMAIN records' = DOMAIN records
        /\ \A i \in DOMAIN records :
               IF i \in S THEN ~Available(records'[i]) ELSE records'[i] = records[i]
    BY <1>4, MarkedUnavailable
  <2> QED  BY <2>1
<1>5. ASSUME Invalidate(q) PROVE G
  BY <1>4, <1>5 DEF Invalidate, invalidate_state, invalidate_cache, invalidate_replica,
                    invalidate_location, invalidate_worker_boot
<1>6. ASSUME tombstone(q.arg, q.epoch) PROVE G  BY <1>4, <1>6 DEF tombstone
<1>7. ASSUME \/ register_cache(q.arg, q.epoch) \/ register_location(q.arg, q.epoch)
             \/ register_replica(q.arg, q.epoch) \/ renew_lease(q.arg, Envelope(q))
             \/ ensure_indexes \/ UNCHANGED vars
      PROVE  G
  <2>1. records' = records
    BY <1>7 DEF register_cache, register_location, register_replica, renew_lease, LeaseFrame,
                ensure_indexes, vars, history
  <2> QED  BY <1>1, <2>1
<1> QED  BY <1>2, <1>3, <1>5, <1>6, <1>7 DEF Mutate

(* A request makes a lease active only for its holder. *)
LEMMA RenewsItsOwn ==
    ASSUME CanonicalTypeOK, NEW q, q.arg \in Arguments(q.kind, q.boot), Mutate(q),
           NEW l \in Leases
    PROVE  \/ leases'[l] = leases[l]
           \/ leases'[l].holder = q.boot
<1>1. CASE q.kind = "RENEW_LEASE" /\ renew_lease(q.arg, Envelope(q))
  <2>1. q.arg \in Leases  BY <1>1 DEF Arguments
  <2>2. leases[q.arg] \in LeaseDescriptor /\ leases[q.arg].holder = q.boot
    BY <1>1, <2>1, DescriptorTypes DEF renew_lease, Envelope
  <2>3. CASE l = q.arg
    BY <1>1, <2>1, <2>2, <2>3, DescriptorTypes DEF renew_lease, LeaseDescriptor
  <2>4. CASE l # q.arg  BY <1>1, <2>4, DescriptorTypes DEF renew_lease
  <2> QED  BY <2>3, <2>4
<1>2. CASE ~(q.kind = "RENEW_LEASE" /\ renew_lease(q.arg, Envelope(q)))
  <2>1. ASSUME NEW i, NEW r, NEW env, ApplyEvidence(i, r, env) PROVE leases' = leases
    BY <2>1 DEF ApplyEvidence, descriptors
  <2>2. UpdateRecord(q) => leases' = leases
    BY <2>1 DEF UpdateRecord, update_health, update_freshness, update_reachability,
                update_integrity
  <2>3. Invalidate(q) => leases' = leases
    BY DEF Invalidate, invalidate_state, invalidate_cache, invalidate_replica,
           invalidate_location, invalidate_worker_boot, InvalidateFrame
  <2>4. leases' = leases
    BY <1>2, <2>2, <2>3 DEF Mutate, register_cache, register_location, register_replica,
         register_entry, tombstone, ensure_indexes, descriptors, vars
  <2> QED  BY <2>4
<1> QED  BY <1>1, <1>2

(* Whether an incarnation is live after the step. *)
LiveAfter(b) == b # Null /\ workers'[b] = "LIVE"

(* A request of a live incarnation keeps the quarantine of the others. *)
LEMMA RequestQuarantine ==
    ASSUME CanonicalTypeOK, OwnRecords, Quarantined, NEW q, q.boot \in Boots,
           q.epoch \in Nat, q.fence \in Nat, q.arg \in Arguments(q.kind, q.boot), Mutate(q),
           worker_live(q.boot)
    PROVE  OwnRecords' /\ Quarantined'
<1>1. \A i \in DOMAIN records :
         i \in DOMAIN records' /\ KeepsRecord(records[i], records'[i])
  BY MutateIsAny, RecordsSurvive
<1>2. OwnRecords'
  BY <1>1, SpeaksForItself DEF OwnRecords, KeepsRecord
<1>3. \A b : LiveAfter(b) <=> worker_live(b)
  BY MutateKeepsWorkers DEF worker_live, LiveAfter
<1>4. ASSUME NEW i \in DOMAIN records', Available(records'[i])
      PROVE  worker_live(records'[i].copy.worker_boot)
  <2>1. CASE i \in DOMAIN records
    <3>1. records'[i].copy = records[i].copy  BY <1>1, <2>1 DEF KeepsRecord
    <3>2. Available(records[i]) \/ records[i].boot = q.boot
      BY <1>4, <2>1, SpeaksForItself
    <3>3. Available(records[i]) => worker_live(records[i].copy.worker_boot)
      BY <2>1 DEF Quarantined, Available
    <3>4. records[i].boot = q.boot => records[i].copy.worker_boot = q.boot
      BY <2>1 DEF OwnRecords
    <3> QED  BY <3>1, <3>2, <3>3, <3>4
  <2>2. CASE i \notin DOMAIN records  BY <1>4, <2>2, SpeaksForItself
  <2> QED  BY <2>1, <2>2
<1>5. ASSUME NEW l \in Leases, leases'[l] # Null, leases'[l].state = "ACTIVE"
      PROVE  worker_live(leases'[l].holder)
  BY <1>5, RenewsItsOwn DEF Quarantined
<1>6. Quarantined'
  <2>1. \A i \in DOMAIN records' :
           records'[i].current /\ records'[i].lifecycle = "AVAILABLE"
               => LiveAfter(records'[i].copy.worker_boot)
    BY <1>3, <1>4 DEF Available
  <2>2. \A l \in Leases : leases'[l] # Null /\ leases'[l].state = "ACTIVE"
               => LiveAfter(leases'[l].holder)
    BY <1>3, <1>5
  <2> QED  BY <2>1, <2>2 DEF Quarantined, worker_live, LiveAfter
<1> QED  BY <1>2, <1>6

(* A new session takes nobody's liveness away. *)
LEMMA HelloQuarantine ==
    ASSUME CanonicalTypeOK, OwnRecords, Quarantined, NEW b \in Boots,
           register_worker_session(b)
    PROVE  OwnRecords' /\ Quarantined'
<1>1. records' = records /\ leases' = leases
  BY DEF register_worker_session, history, descriptors
<1>2. \A a : worker_live(a) /\ a \in Boots => LiveAfter(a)
  BY DEF register_worker_session, worker_live, LiveAfter, CanonicalTypeOK
<1>3. \A i \in DOMAIN records : records[i].copy.worker_boot \in Boots
  BY RecordsDomain DEF DirectoryRecord, Copy, CopyOver
<1>4. \A l \in Leases : leases[l] # Null => leases[l].holder \in Boots
  BY DescriptorTypes DEF LeaseDescriptor
<1> QED  BY <1>1, <1>2, <1>3, <1>4 DEF OwnRecords, Quarantined, worker_live, LiveAfter

(* A loss quarantines what the lost incarnation held, and nothing else. *)
LEMMA LossQuarantine ==
    ASSUME CanonicalTypeOK, OwnRecords, Quarantined, NEW b \in Boots, on_worker_loss(b)
    PROVE  OwnRecords' /\ Quarantined'
<1> DEFINE S == {i \in DOMAIN records : records[i].copy.worker_boot = b}
<1>1. records' = ForRecords(S, LoseRecord)  BY DEF on_worker_loss
<1>2. /\ DOMAIN records' = DOMAIN records
      /\ \A i \in DOMAIN records :
             IF i \in S THEN ~Available(records'[i]) ELSE records'[i] = records[i]
  BY <1>1, MarkedUnavailable
<1>3. \A i \in DOMAIN records : KeepsRecord(records[i], records'[i])
  <2>1. [AnyStep]_vars  BY DEF AnyStep, SessionStep
  <2> QED  BY <2>1, RecordsSurvive
<1>4. OwnRecords'  BY <1>2, <1>3 DEF OwnRecords, KeepsRecord
<1>5. \A a \in Boots : a # b /\ worker_live(a) => LiveAfter(a)
  BY DEF on_worker_loss, worker_live, LiveAfter, CanonicalTypeOK
<1>6. \A i \in DOMAIN records : records[i].copy.worker_boot \in Boots
  BY RecordsDomain DEF DirectoryRecord, Copy, CopyOver
<1>7. ASSUME NEW i \in DOMAIN records', Available(records'[i])
      PROVE  LiveAfter(records'[i].copy.worker_boot)
  <2>1. i \in DOMAIN records /\ i \notin S /\ records'[i] = records[i]  BY <1>2, <1>7
  <2>2. worker_live(records[i].copy.worker_boot)
    BY <1>7, <2>1 DEF Quarantined, Available
  <2>3. records[i].copy.worker_boot \in Boots /\ records[i].copy.worker_boot # b
    BY <1>6, <2>1
  <2> QED  BY <1>5, <2>1, <2>2, <2>3
<1>8. ASSUME NEW l \in Leases, leases'[l] # Null, leases'[l].state = "ACTIVE"
      PROVE  LiveAfter(leases'[l].holder)
  <2>1. leases'[l] = IF leases[l] # Null /\ leases[l].holder = b
                     THEN [leases[l] EXCEPT !.state = "REVALIDATION_REQUIRED"]
                     ELSE leases[l]
    BY DEF on_worker_loss
  <2>2. leases[l] # Null => leases[l] \in LeaseDescriptor  BY DescriptorTypes
  <2>3. leases'[l] = leases[l] /\ leases[l].holder # b
    BY <1>8, <2>1, <2>2 DEF LeaseDescriptor
  <2>4. leases[l].holder \in Boots  BY <1>8, <2>2, <2>3 DEF LeaseDescriptor
  <2>5. worker_live(leases[l].holder)  BY <1>8, <2>3 DEF Quarantined
  <2> QED  BY <1>5, <2>3, <2>4, <2>5
<1> QED  BY <1>4, <1>7, <1>8 DEF Quarantined, Available, worker_live, LiveAfter

(* What the coordinator starts from is quarantined as a whole. *)
LEMMA StartQuarantine ==
    ASSUME StartsOwned, ServerInv, start
    PROVE  OwnRecords' /\ Quarantined'
<1>1. /\ file = StartImage /\ file \in Image \cup {Null, Torn}
      /\ next_obj' \in Nat \ {0}
  BY DEF start, ServerInv, LifeInv, PersistentInv, StorageInv
<1> DEFINE image == IF file = Null THEN Blank ELSE file
<1>2. /\ image \in Image /\ IsRecoverable(image) /\ Load(image)
      /\ \A i \in DOMAIN image.records :
             image.records[i].boot = image.records[i].copy.worker_boot
  <2>1. CASE file = Null
    <3>1. image = Blank /\ Blank.records = <<>>  BY <2>1 DEF Blank
    <3>2. \A i \in DOMAIN image.records :
             image.records[i].boot = image.records[i].copy.worker_boot
      BY <3>1
    <3> QED  BY <2>1, <3>1, <3>2, BlankType DEF start
  <2>2. CASE file # Null  BY <1>1, <2>2 DEF start, StartsOwned
  <2> QED  BY <2>1, <2>2
<1> HIDE DEF image
<1>3. /\ \A l \in Leases : leases'[l] # Null => leases'[l].state # "ACTIVE"
      /\ \A i \in DOMAIN records' : records'[i].lifecycle # "AVAILABLE"
  BY <1>1, <1>2, LoadLemma
<1>4. OwnRecords'
  <2>1. \A i \in DOMAIN image.records : image.records[i] \in DirectoryRecord
    BY <1>2 DEF Image
  <2>2. \A r \in DirectoryRecord :
           RecoverRecord(r).boot = r.boot /\ RecoverRecord(r).copy = r.copy
    BY DEF RecoverRecord, DirectoryRecord
  <2>3. records' = [i \in DOMAIN image.records |-> RecoverRecord(image.records[i])]
    BY <1>2 DEF Load
  <2> QED  BY <1>2, <2>1, <2>2, <2>3 DEF OwnRecords
<1> QED  BY <1>3, <1>4 DEF Quarantined

(* Quarantine is inductive: until a RECOVER a handler accepts requests only of  *)
(* an incarnation that is live, because the loss of its connection has not yet  *)
(* been handled.                                                                *)
LEMMA QuarantineStep ==
    ASSUME StartsOwned, ServerInv, SessionIsConnection, QuarantineInv,
           [ServerNext]_server_vars
    PROVE  QuarantineInv'
<1>0. ConnectionsInv /\ CanonicalTypeOK /\ restarts \in Nat /\ LifeInv
  BY DEF ServerInv, PersistentInv, StorageInv
<1>1. ASSUME UNCHANGED vars, restarts' = restarts PROVE QuarantineInv'
  <2>1. records' = records /\ leases' = leases /\ workers' = workers
    BY <1>1 DEF vars, history, descriptors
  <2> QED  BY <1>1, <2>1 DEF QuarantineInv, OwnRecords, Quarantined, worker_live
<1>2. ASSUME restarts <= 1 => OwnRecords' /\ Quarantined', restarts' = restarts
      PROVE  QuarantineInv'
  BY <1>2 DEF QuarantineInv
<1>3. ASSUME NEW c \in Connections, ClientStep(c) PROVE QuarantineInv'
  BY <1>1, <1>3, ClientFrame DEF persistent_vars, storage
<1>4. ASSUME NEW c \in Connections, Handler(c) PROVE QuarantineInv'
  <2>1. CASE receive(c) \/ eof(c) \/ refuse(c) \/ respond(c)
    BY <1>1, <2>1 DEF receive, eof, refuse, respond, persistent_vars, storage
  <2>2. CASE lose(c)
    <3>1. session[c] \in Boots /\ restarts' = restarts
      BY <1>0, <2>2 DEF lose, ConnectionsInv, ConnectionInv, OrNull, storage
    <3>2. CASE UNCHANGED vars  BY <1>1, <3>1, <3>2
    <3>3. CASE on_worker_loss(session[c])
      BY <1>0, <1>2, <3>1, <3>3, LossQuarantine DEF QuarantineInv
    <3> QED  BY <2>2, <3>2, <3>3 DEF lose
  <2>3. CASE accept(c)
    <3> DEFINE q == request[c]
    <3>1. IsRequest(c, q) /\ Handle(q) /\ pc[c] = "LOCK"
      BY <1>0, <2>3 DEF accept, Locked, ConnectionsInv, ConnectionInv
    <3>2. CASE q.kind = "HELLO" /\ register_worker_session(q.boot) /\ UNCHANGED storage
      <4>1. q.boot \in Boots /\ restarts' = restarts
        BY <3>1, <3>2 DEF IsRequest, storage
      <4> QED  BY <1>0, <1>2, <3>2, <4>1, HelloQuarantine DEF QuarantineInv
    <3>3. CASE Mutate(q) /\ UNCHANGED storage
      <4>1. /\ q.boot \in Boots /\ q.epoch \in Nat /\ q.fence \in Nat
            /\ q.arg \in Arguments(q.kind, q.boot) /\ restarts' = restarts
        BY <3>1, <3>3 DEF IsRequest, storage
      <4>2. q.kind # "HELLO"  BY <3>3 DEF Mutate, UpdateRecord
      <4>3. session[c] = q.boot  BY <3>1, <4>2 DEF IsRequest, SaidHello
      <4>4. restarts <= 1 => worker_live(q.boot)
        BY <3>1, <4>1, <4>3, NullAssumption DEF SessionIsConnection, Serves, worker_live
      <4> HIDE DEF q
      <4> QED  BY <1>0, <1>2, <3>3, <4>1, <4>4, RequestQuarantine DEF QuarantineInv
    <3>4. CASE save  BY <1>1, <3>4 DEF save
    <3>5. CASE recover
      <4>1. ~(restarts' <= 1)  BY <1>0, <3>5 DEF recover, LifeInv
      <4> QED  BY <4>1 DEF QuarantineInv
    <3> QED  BY <3>1, <3>2, <3>3, <3>4, <3>5 DEF Handle
  <2> QED  BY <1>4, <2>1, <2>2, <2>3 DEF Handler
<1>5. CASE start  BY <1>5, StartQuarantine DEF QuarantineInv
<1>6. CASE UNCHANGED server_vars
  BY <1>1, <1>6 DEF server_vars, persistent_vars, storage
<1> QED  BY <1>3, <1>4, <1>5, <1>6 DEF ServerNext, ClientStep, Handler

(* However the last requests of a worker race with the loss of its connection,  *)
(* until a RECOVER an available record has a live source and an active lease a  *)
(* live holder (handle_connection, on_worker_loss, check_update_authority).     *)
THEOREM QuarantineIsKept ==
    KnownCodes /\ StartsOwned => (ServerSpec => []QuarantineHolds)
<1> SUFFICES ASSUME KnownCodes, StartsOwned PROVE ServerSpec => []QuarantineHolds
  OBVIOUS
<1>1. ServerInit => QuarantineInv
  <2> SUFFICES ASSUME ServerInit PROVE OwnRecords /\ Quarantined
    BY DEF QuarantineInv
  <2>1. records = <<>> /\ \A l \in Leases : leases[l] = Null  BY DEF ServerInit, Init
  <2> QED  BY <2>1 DEF OwnRecords, Quarantined
<1>2. ServerInv /\ SessionIsConnection /\ QuarantineInv /\ [ServerNext]_server_vars
          => QuarantineInv'
  BY QuarantineStep
<1>3. QuarantineInv => QuarantineHolds
  BY DEF QuarantineInv, Quarantined, QuarantineHolds
<1> QED
  BY <1>1, <1>2, <1>3, ServerInvHolds, SessionsFollowConnections, PTL DEF ServerSpec

-----------------------------------------------------------------------------
(* The directory behind its connections *)

(* What the coordinator does to the directory and its file keeps both safe. *)
LEMMA ServedDurable ==
    ASSUME DurableInv, mode # "SAVING", ServedStep
    PROVE  DurableInv'
<1>0. PersistentInv /\ PersistentInv' /\ DirectoryInv /\ FileInv
  BY ServedPersistent DEF DurableInv
<1>1. CASE [AnyStep]_vars /\ UNCHANGED storage
  BY <1>0, <1>1, DirectoryKept, FileKept DEF DurableInv, storage
<1>2. CASE save
  <2>1. UNCHANGED vars /\ tombstones' = tombstones  BY <1>2 DEF save, vars
  <2>2. DirectoryInv'  BY <1>0, <2>1, DirectoryKept
  <2>3. SafeImage(save_to_buffer) /\ save_to_buffer.tombstones = tombstones
    BY <1>0, BufferSafe DEF save_to_buffer
  <2>4. mode' = mode /\ (file' = save_to_buffer \/ file' = file)  BY <1>2 DEF save
  <2>5. FileInv'  BY <1>0, <2>1, <2>3, <2>4 DEF FileInv
  <2> QED  BY <1>0, <2>2, <2>5 DEF DurableInv
<1>3. CASE start \/ recover  BY <1>3, DurableStep DEF PersistentNext
<1> QED  BY <1>1, <1>2, <1>3 DEF ServedStep

(* Safe from the start, the directory and its file are safe for good. *)
LEMMA ServedDurably == KnownCodes /\ StartsSafe => (ServerSpec => []DurableInv)
<1> SUFFICES ASSUME KnownCodes, StartsSafe PROVE ServerSpec => []DurableInv
  OBVIOUS
<1>1. ServerInit => DurableInv
  <2> SUFFICES ASSUME ServerInit PROVE DurableInv
    OBVIOUS
  <2>1. PersistentInv  BY ServerInvInit DEF ServerInv
  <2>2. TypeOK /\ records = <<>> /\ indexes = Null /\ accounting = Gauges
    BY TypeInit DEF ServerInit, Init
  <2>3. DirectoryInv
    BY <2>2 DEF DirectoryInv, OwnershipInv, UniqueCurrentCopy, BuriedNeverCurrent,
                RecordsAreOwned, StateIndexAgrees, CountsExact
  <2>4. FileInv  BY DEF ServerInit, FileInv, StartsSafe
  <2> QED  BY <2>1, <2>3, <2>4 DEF DurableInv
<1>2. ServerInv /\ DurableInv /\ [ServerNext]_server_vars => DurableInv'
  BY StepServed, ServedDurable DEF ServerInv, LifeInv
<1> QED  BY <1>1, <1>2, ServerInvHolds, PTL DEF ServerSpec

(* Concurrent connections cannot bring the directory into a state that requests *)
(* in sequence could not: one newest generation and one current record of each  *)
(* copy, nothing buried current, not even by the file, no record without its    *)
(* descriptors, no stale index or gauge (dir_mutex_).                           *)
THEOREM ServedSafely ==
    KnownCodes /\ StartsSafe =>
        (ServerSpec => [](/\ CurrentIsNewest /\ UniqueCurrentCopy /\ BuriedNeverCurrent
                          /\ RecordsAreOwned /\ StateIndexAgrees /\ CountsExact
                          /\ DurableBurial))
<1> DEFINE Safe == /\ CurrentIsNewest /\ UniqueCurrentCopy /\ BuriedNeverCurrent
                   /\ RecordsAreOwned /\ StateIndexAgrees /\ CountsExact
                   /\ DurableBurial
<1> SUFFICES ASSUME KnownCodes, StartsSafe PROVE ServerSpec => []Safe
  OBVIOUS
<1>1. DurableInv => Safe
  BY DEF DurableInv, PersistentInv, DirectoryInv, OwnershipInv, FileInv,
         BuriedNeverCurrent, DurableBurial
<1> QED  BY <1>1, ServedDurably, PTL

(* Every step of the coordinator with its connections is a step of the durable   *)
(* catalogue or invisible to it: before it has started nothing is served.        *)
LEMMA ServedCatalogStep ==
    ASSUME ServerInv, DurableInv, DurableInv', [ServerNext]_server_vars
    PROVE  [Durable!DurableNext]_(Durable!durable)
<1>0. ServedStep /\ LifeInv /\ ConnectionsInv  BY StepServed DEF ServerInv
<1>1. CASE mode = "DOWN"
  <2>1. start \/ UNCHANGED persistent_vars
    BY <1>0, <1>1, DownOnlyStarts DEF ServerNext, ClientStep, Handler, server_vars
  <2>2. CASE start  BY <2>2, RecoveryRestores
  <2>3. CASE UNCHANGED persistent_vars
    BY <2>3, DurableStutter DEF persistent_vars, storage
  <2> QED  BY <2>1, <2>2, <2>3
<1>2. CASE mode # "DOWN"
  <2>1. CASE [AnyStep]_vars /\ UNCHANGED storage
    BY <1>2, <2>1, MemoryStep DEF storage
  <2>2. CASE save
    BY <1>2, <2>2, RenameSaves, DurableStutter DEF save
  <2>3. CASE start \/ recover  BY <2>3, RecoveryRestores
  <2> QED  BY <1>0, <2>1, <2>2, <2>3 DEF ServedStep
<1> QED  BY <1>1, <1>2

(* What every worker and every query sees of the coordinator, whichever handler  *)
(* threads interleave and whichever connections break, is one durable catalogue: *)
(* each request takes effect at one instant, under dir_mutex_, and a SAVE stores *)
(* the catalogue of that instant.                                                *)
THEOREM ServerImplementsDurableCatalog ==
    KnownCodes /\ StartsSafe => (ServerSpec => ImplementsDurableCatalog)
<1> SUFFICES ASSUME KnownCodes, StartsSafe PROVE ServerSpec => ImplementsDurableCatalog
  OBVIOUS
<1>1. ServerInit => Durable!DurableInit
  BY DurableStart DEF ServerInit
<1>2. ServerInv /\ DurableInv /\ DurableInv' /\ [ServerNext]_server_vars
         => [Durable!DurableNext]_(Durable!durable)
  BY ServedCatalogStep
<1> QED  BY <1>1, <1>2, ServerInvHolds, ServedDurably, PTL
         DEF ServerSpec, ImplementsDurableCatalog, Durable!DurableSpec
=============================================================================
