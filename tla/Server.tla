------------------------------- MODULE Server -------------------------------
(***************************************************************************)
(* The coordinator with its connections: one handler thread for each, the  *)
(* mutex under which a request is dispatched and its response written, and *)
(* the worker process at the other end, which sends one request at a time  *)
(* and may be killed at any moment.                                        *)
(*                                                                         *)
(* A connection is ordered and reliable while both ends live.  A response  *)
(* is what its client tells apart: the request it answers, the epoch in    *)
(* the reply to a HELLO (Null if refused) and whether it is large enough   *)
(* to fill the socket buffers.  A payload that cannot be decoded is        *)
(* answered like a request that is refused.                                *)
(***************************************************************************)
EXTENDS Persistence, Protocol

CONSTANTS
    Connections,       \* connections, in no particular order
    Suspended,         \* those whose worker stops running once it has asked something
    StartImage,        \* what persist_path_ holds when the coordinator starts
    RequestKinds,      \* the kinds of request workers send after HELLO
    RecordIds,         \* the record ids they name
    InvalidateInputs,  \* the invalidations they ask for
    MaxRequests        \* bound: how many requests follow HELLO on each connection

ASSUME ServerAssumption ==
    /\ Null \notin Connections
    /\ MaxRequests \in [Connections -> Nat]
    /\ "HELLO" \notin RequestKinds
    /\ StartImage \in Image \cup {Null, Torn}

(* An invalidation of a cache or of a location names one. *)
ASSUME InvalidateAssumption ==
    \A in \in InvalidateInputs :
        /\ in.code = 1 => in.target \in Caches
        /\ in.code = 3 => in.target \in Locations

VARIABLES
    peer,      \* the worker process at the other end
    identity,  \* its boot and the epoch it learnt from the reply to HELLO
    sent,      \* how many requests it has sent
    request,   \* the request in the socket (pc READ) or in the handler's hands
    pc,        \* where the handler thread is
    session,   \* the handler's boot; Null while have_boot is false
    replies,   \* responses of the request being handled, not yet written
    out,       \* responses written and not yet read
    mutex      \* the connection whose handler holds dir_mutex_, or Null

client_vars == <<peer, identity, sent>>
handler_vars == <<pc, session, replies, mutex>>
connection_vars == <<client_vars, handler_vars, request, out>>
server_vars == <<persistent_vars, connection_vars>>

Peer == {"ABSENT", "NEW", "IDLE", "WAITING", "GONE", "CUT"}
Running == {"NEW", "IDLE", "WAITING"}

-----------------------------------------------------------------------------
(* The worker process *)

connect(c) ==
    /\ mode = "UP"
    /\ peer[c] = "ABSENT"
    /\ peer' = [peer EXCEPT ![c] = "NEW"]
    /\ pc' = [pc EXCEPT ![c] = "READ"]
    /\ UNCHANGED <<persistent_vars, identity, sent, request, session, replies, out, mutex>>

Send(c, q) ==
    /\ peer' = [peer EXCEPT ![c] = "WAITING"]
    /\ request' = [request EXCEPT ![c] = q]
    /\ sent' = [sent EXCEPT ![c] = q.seq]
    /\ UNCHANGED <<persistent_vars, handler_vars, out>>

Request(kind, arg, n, id, fence) ==
    [kind |-> kind, arg |-> arg, seq |-> n, boot |-> id.boot, epoch |-> id.epoch,
     fence |-> fence]

(* A worker says HELLO once, with the boot it was started with. *)
hello(c, b) ==
    /\ peer[c] = "NEW"
    /\ identity' = [identity EXCEPT ![c].boot = b]
    /\ Send(c, Request("HELLO", Null, 1, [boot |-> b, epoch |-> 0], 0))

(* What a worker may ask for: descriptors and records of its own, any record *)
(* id, lease, or target of an invalidation.                                  *)
Arguments(kind, b) ==
    CASE kind = "REGISTER_CACHE"      -> {in \in CacheInputs : in.desc.worker_boot = b}
      [] kind = "REGISTER_LOCATION"   -> {in \in LocationInputs : in.desc.worker_boot = b}
      [] kind = "REGISTER_REPLICA"    -> {in \in ReplicaInputs : in.desc.boot = b}
      [] kind = "REGISTER_ENTRY"      -> {in \in RecordInputs : in.copy.worker_boot = b}
      [] kind = "UPDATE_HEALTH"       -> [id: RecordIds, value: HealthInputs]
      [] kind = "UPDATE_FRESHNESS"    -> [id: RecordIds, value: FreshnessInputs]
      [] kind = "UPDATE_REACHABILITY" -> [id: RecordIds, value: ReachabilityInputs]
      [] kind = "UPDATE_INTEGRITY"    -> [id: RecordIds, value: IntegrityInputs]
      [] kind = "RENEW_LEASE"         -> Leases
      [] kind = "INVALIDATE"          -> InvalidateInputs
      [] kind = "TOMBSTONE"           -> {t \in TombstoneInputs : t.worker_boot = b}
      [] OTHER                        -> {Null}

ask(c, kind) ==
    /\ peer[c] = "IDLE"
    /\ sent[c] <= MaxRequests[c]
    /\ \E arg \in Arguments(kind, identity[c].boot), fence \in Fences :
           Send(c, Request(kind, arg, sent[c] + 1, identity[c], fence))
    /\ UNCHANGED identity

(* send_recv: the next response on the stream is taken for the answer; the   *)
(* read fails if the handler has returned.  A worker whose HELLO is refused  *)
(* exits.                                                                    *)
take(c) ==
    /\ peer[c] = "WAITING"
    /\ c \in Suspended => identity[c].epoch = 0
    /\ \/ /\ out[c] # <<>>
          /\ LET e == Head(out[c]).epoch IN
             IF identity[c].epoch = 0
             THEN /\ identity' = [identity EXCEPT ![c].epoch = e]
                  /\ peer' = [peer EXCEPT ![c] = IF e = 0 THEN "GONE" ELSE "IDLE"]
             ELSE peer' = [peer EXCEPT ![c] = "IDLE"] /\ UNCHANGED identity
          /\ out' = [out EXCEPT ![c] = Tail(@)]
       \/ /\ out[c] = <<>> /\ pc[c] = "DONE"
          /\ peer' = [peer EXCEPT ![c] = "CUT"]
          /\ UNCHANGED <<identity, out>>
    /\ UNCHANGED <<persistent_vars, handler_vars, sent, request>>

(* The process exits or is killed; a request the handler has not read yet    *)
(* may or may not have left the machine.                                     *)
quit(c) ==
    /\ peer[c] \in Running
    /\ peer' = [peer EXCEPT ![c] = "GONE"]
    /\ out' = [out EXCEPT ![c] = <<>>]
    /\ \/ UNCHANGED request
       \/ pc[c] = "READ" /\ request' = [request EXCEPT ![c] = Null]
    /\ UNCHANGED <<persistent_vars, handler_vars, identity, sent>>

-----------------------------------------------------------------------------
(* The handlers of the requests: each request is one critical section. *)

Envelope(q) == [epoch |-> q.epoch, boot |-> q.boot, fence |-> q.fence]

UpdateRecord(q) ==
    /\ q.kind \in {"UPDATE_HEALTH", "UPDATE_FRESHNESS", "UPDATE_REACHABILITY",
                   "UPDATE_INTEGRITY"}
    /\ \E i \in DOMAIN records :
        /\ IsRecordIndex(i, q.arg.id)
        /\ \/ q.kind = "UPDATE_HEALTH" /\ update_health(i, q.arg.value, Envelope(q))
           \/ q.kind = "UPDATE_FRESHNESS" /\ update_freshness(i, q.arg.value, Envelope(q))
           \/ q.kind = "UPDATE_REACHABILITY" /\ update_reachability(i, q.arg.value, Envelope(q))
           \/ q.kind = "UPDATE_INTEGRITY" /\ update_integrity(i, q.arg.value, Envelope(q))

(* The codes of the InvalidateMsg switch. *)
Invalidate(q) ==
    \/ q.arg.code = 0 /\ invalidate_state(q.arg.target, q.arg.generation, Envelope(q))
    \/ q.arg.code = 1 /\ invalidate_cache(q.arg.target, q.epoch)
    \/ q.arg.code = 2 /\ invalidate_replica(q.arg.target, q.epoch)
    \/ q.arg.code = 3 /\ invalidate_location(q.arg.target, q.epoch)
    \/ q.arg.code = 4 /\ invalidate_worker_boot(q.arg.target, q.epoch)

(* What the directory does with an accepted request that leaves the file alone. *)
Mutate(q) ==
    \/ q.kind = "REGISTER_CACHE" /\ register_cache(q.arg, q.epoch)
    \/ q.kind = "REGISTER_LOCATION" /\ register_location(q.arg, q.epoch)
    \/ q.kind = "REGISTER_REPLICA" /\ register_replica(q.arg, q.epoch)
    \/ q.kind = "REGISTER_ENTRY" /\ register_entry(q.arg, Envelope(q))
    \/ UpdateRecord(q)
    \/ q.kind = "RENEW_LEASE" /\ renew_lease(q.arg, Envelope(q))
    \/ q.kind = "INVALIDATE" /\ Invalidate(q)
    \/ q.kind = "TOMBSTONE" /\ tombstone(q.arg, q.epoch)
    \/ q.kind = "QUERY" /\ (ensure_indexes \/ (indexes # Null /\ UNCHANGED vars))

(* SAVE: the three steps of a save, uninterrupted, or a failure of one of them. *)
save ==
    /\ \/ file' = save_to_buffer /\ temp' = Null
       \/ UNCHANGED file /\ temp' \in {temp, Torn, save_to_buffer}
    /\ UNCHANGED <<vars, mode, saves, restarts>>

Handle(q) ==
    \/ q.kind = "HELLO" /\ register_worker_session(q.boot) /\ UNCHANGED storage
    \/ Mutate(q) /\ UNCHANGED storage
    \/ q.kind = "SAVE" /\ save
    \/ q.kind = "RECOVER" /\ recover

(* No handler accepts the request, or its kind or payload is unknown. *)
Refused(q) == ~ENABLED Handle(q)

Answers_FallThrough(q, accepted) ==
    LET answer == [seq |-> q.seq, large |-> q.kind = "QUERY",
                   epoch |-> IF q.kind = "HELLO" /\ accepted THEN epoch ELSE 0]
    IN  IF q.kind = "RENEW_LEASE" THEN <<answer, answer>> ELSE <<answer>>

(* One response each, with the epoch if a HELLO is accepted; but a bad       *)
(* invalidation kind is answered in the switch and again by the test of the  *)
(* empty result after it.                                                    *)
Answers(q, accepted) ==
    LET answer == [seq |-> q.seq, large |-> q.kind = "QUERY",
                   epoch |-> IF q.kind = "HELLO" /\ accepted THEN epoch ELSE 0]
    IN  IF q.kind = "INVALIDATE" /\ q.arg.code \notin 0..4
        THEN <<answer, answer>> ELSE <<answer>>

-----------------------------------------------------------------------------
(* The handler thread of a connection *)

HangUp_Forgets(c) == "DONE"

(* The end of handle_connection: the loss of a worker that said HELLO. *)
HangUp(c) == IF session[c] = Null THEN "DONE" ELSE "LOSE"

receive(c) ==
    /\ pc[c] = "READ"
    /\ request[c] # Null
    /\ IF IsFrameKind(request[c].kind)
       THEN pc' = [pc EXCEPT ![c] = "LOCK"] /\ UNCHANGED request
       ELSE /\ pc' = [pc EXCEPT ![c] = HangUp(c)]
            /\ request' = [request EXCEPT ![c] = Null]
    /\ UNCHANGED <<persistent_vars, client_vars, session, replies, out, mutex>>

eof(c) ==
    /\ pc[c] = "READ"
    /\ request[c] = Null
    /\ peer[c] = "GONE"
    /\ pc' = [pc EXCEPT ![c] = HangUp(c)]
    /\ UNCHANGED <<persistent_vars, client_vars, session, replies, request, out, mutex>>

Locked(c, accepted) ==
    /\ pc[c] = "LOCK"
    /\ mutex = Null
    /\ mutex' = c
    /\ pc' = [pc EXCEPT ![c] = "RESPOND"]
    /\ request' = [request EXCEPT ![c] = Null]
    /\ replies' = [replies EXCEPT ![c] = Answers(request[c], accepted)]
    /\ UNCHANGED <<client_vars, out>>

accept(c) ==
    /\ Locked(c, TRUE)
    /\ Handle(request[c])
    /\ session' = IF request[c].kind = "HELLO"
                  THEN [session EXCEPT ![c] = request[c].boot] ELSE session

refuse(c) ==
    /\ Locked(c, FALSE)
    /\ Refused(request[c])
    /\ UNCHANGED <<persistent_vars, session>>

respond_KeepsLock(c) ==
    /\ pc[c] = "RESPOND"
    /\ mutex = c
    /\ Head(replies[c]).large => peer[c] = "GONE" \/ c \notin Suspended
    /\ out' = IF peer[c] = "GONE" THEN out
              ELSE [out EXCEPT ![c] = Append(@, Head(replies[c]))]
    /\ replies' = [replies EXCEPT ![c] = Tail(@)]
    /\ pc' = [pc EXCEPT ![c] = IF Tail(replies[c]) = <<>> THEN "READ" ELSE "RESPOND"]
    /\ mutex' = IF peer[c] # "GONE" /\ Tail(replies[c]) = <<>> THEN Null ELSE mutex
    /\ UNCHANGED <<persistent_vars, client_vars, session, request>>

(* The lock is held until the last response is written.  A small one always  *)
(* fits; a large one waits for a peer that reads; one to a dead peer fails,  *)
(* and the failure is ignored.                                               *)
respond(c) ==
    /\ pc[c] = "RESPOND"
    /\ mutex = c
    /\ Head(replies[c]).large => peer[c] = "GONE" \/ c \notin Suspended
    /\ out' = IF peer[c] = "GONE" THEN out
              ELSE [out EXCEPT ![c] = Append(@, Head(replies[c]))]
    /\ replies' = [replies EXCEPT ![c] = Tail(@)]
    /\ IF Tail(replies[c]) = <<>>
       THEN pc' = [pc EXCEPT ![c] = "READ"] /\ mutex' = Null
       ELSE UNCHANGED <<pc, mutex>>
    /\ UNCHANGED <<persistent_vars, client_vars, session, request>>

lose_OnlyLive(c) ==
    /\ pc[c] = "LOSE"
    /\ mutex = Null
    /\ worker_live(session[c]) /\ on_worker_loss(session[c])
    /\ pc' = [pc EXCEPT ![c] = "DONE"]
    /\ UNCHANGED <<storage, client_vars, session, replies, mutex, request, out>>

lose(c) ==
    /\ pc[c] = "LOSE"
    /\ mutex = Null
    /\ IF worker_live(session[c]) THEN on_worker_loss(session[c]) ELSE UNCHANGED vars
    /\ pc' = [pc EXCEPT ![c] = "DONE"]
    /\ UNCHANGED <<storage, client_vars, session, replies, mutex, request, out>>

-----------------------------------------------------------------------------
ServerInit ==
    /\ Init
    /\ mode = "DOWN"
    /\ file = StartImage /\ temp = Null
    /\ saves = 0 /\ restarts = 0
    /\ peer = [c \in Connections |-> "ABSENT"]
    /\ identity = [c \in Connections |-> [boot |-> Null, epoch |-> 0]]
    /\ sent = [c \in Connections |-> 0]
    /\ request = [c \in Connections |-> Null]
    /\ pc = [c \in Connections |-> "NONE"]
    /\ session = [c \in Connections |-> Null]
    /\ replies = [c \in Connections |-> <<>>]
    /\ out = [c \in Connections |-> <<>>]
    /\ mutex = Null

Handler(c) == receive(c) \/ eof(c) \/ accept(c) \/ refuse(c) \/ respond(c) \/ lose(c)

ServerNext ==
    \/ start /\ UNCHANGED connection_vars
    \/ \E c \in Connections :
           \/ connect(c) \/ (\E b \in Boots : hello(c, b))
           \/ (\E kind \in RequestKinds : ask(c, kind))
           \/ take(c) \/ quit(c)
           \/ receive(c) \/ eof(c) \/ accept(c) \/ refuse(c) \/ respond(c) \/ lose(c)

(* Handler threads run and a running worker reads its answer; nothing makes a *)
(* worker connect, ask or stop.  With finitely many requests a mutex need not *)
(* be fair.                                                                   *)
Fairness ==
    \A c \in Connections :
        WF_server_vars(Handler(c)) /\ WF_server_vars(take(c))

ServerSpec == ServerInit /\ [][ServerNext]_server_vars /\ Fairness

-----------------------------------------------------------------------------
(* Properties *)

Serves(c, b) == session[c] = b /\ pc[c] # "DONE"

(* Liveness follows the connection: an incarnation is live only while a       *)
(* handler that remembers it has not finished, however connections open,      *)
(* break and overlap.  Until a RECOVER clears the sessions, the converse also *)
(* holds, and no two handlers serve one incarnation.                          *)
SessionIsConnection ==
    \A b \in Boots :
        /\ workers[b] = "LIVE" => \E c \in Connections : Serves(c, b)
        /\ restarts <= 1 =>
               /\ \A c \in Connections : Serves(c, b) => workers[b] = "LIVE"
               /\ \A c, d \in Connections : Serves(c, b) /\ Serves(d, b) => c = d

(* What a worker reads is the answer to the request it waits for: no response *)
(* is left over, lost or overtaken on a connection.  It holds as long as      *)
(* workers name invalidations the handler's switch knows, and is refuted for  *)
(* one that does not: that request is answered twice.                         *)
AnswersMatch ==
    \A c \in Connections :
        LET pending == replies[c] \o out[c] IN
        /\ peer[c] \in {"NEW", "IDLE"} => pending = <<>>
        /\ \A i \in DOMAIN pending : pending[i].seq = sent[c]

(* Quarantine outlives the race between a worker's last requests and the loss *)
(* of its connection: an available current record has a live source, and an   *)
(* active lease a live holder, as long as workers speak for themselves and    *)
(* nobody asks for RECOVER.                                                   *)
QuarantineHolds ==
    restarts <= 1 =>
        /\ \A i \in DOMAIN records :
               records[i].current /\ records[i].lifecycle = "AVAILABLE"
                   => worker_live(records[i].copy.worker_boot)
        /\ \A l \in Leases :
               leases[l] # Null /\ leases[l].state = "ACTIVE" => worker_live(leases[l].holder)

(* No worker that keeps running waits for ever: whatever the others do, its    *)
(* request is answered, or its connection closed under it.                     *)
RequestsAnswered ==
    \A c \in Connections \ Suspended :
        peer[c] = "WAITING" ~> peer[c] \in {"IDLE", "GONE", "CUT"}

(* The death of a worker is noticed whatever it was doing, and its handler     *)
(* finishes: with SessionIsConnection, its incarnation does not stay live.     *)
LossIsObserved == \A c \in Connections : peer[c] = "GONE" ~> pc[c] = "DONE"

-----------------------------------------------------------------------------
(* What the documentation says and the code does not do. *)

(* README: worker loss is observed when the connection closes, and             *)
(* test_multiprocess: a worker registers a location and goes on.  No handler   *)
(* ends while its worker runs.  Refuted: the registration of a location or a   *)
(* replica has a kind decode_frame refuses, which ends the connection and      *)
(* loses the session.                                                          *)
ServedWhileOpen ==
    \A c \in Connections : pc[c] \in {"LOSE", "DONE"} => peer[c] \notin Running
=============================================================================
