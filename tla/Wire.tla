-------------------------------- MODULE Wire --------------------------------
(***************************************************************************)
(* The messages of a FrameChannel, and the file its receiver keeps.        *)
(*                                                                         *)
(* What is received is stored where it registers something; what is stored *)
(* can be written to an image with save_to_buffer and read back with       *)
(* recover_from_buffer.  CRC-32 and SHA-256 are taken to tell any two      *)
(* contents apart.                                                         *)
(***************************************************************************)
EXTENDS Layouts, Channel

CONSTANTS
    Profiles,    \* the flags, string lengths and counts of the objects sent
    Names,       \* the messages sent
    MaxStored    \* bound: how many descriptors are stored

VARIABLE stored  \* the descriptors the receiver's directory holds

wire_vars == <<channel_vars, stored>>

-----------------------------------------------------------------------------
(* The payloads *)

Serialize ==
    [HELLO |-> serialize_hello, REGISTER_CACHE |-> wr_cache, REGISTER_LOCATION |-> wr_loc,
     REGISTER_REPLICA |-> wr_rep, REGISTER_ENTRY |-> wr_rec, UPDATE_HEALTH |-> serialize_update,
     RENEW_LEASE |-> serialize_renew_lease, INVALIDATE |-> serialize_invalidate,
     TOMBSTONE |-> serialize_tombstone, QUERY |-> serialize_query,
     QUERY_RESULT |-> serialize_query_result, SAVE |-> serialize_path, ACK |-> serialize_ack,
     EPOCH |-> serialize_epoch_reply, ERROR |-> serialize_error]
Deserialize ==
    [HELLO |-> deserialize_hello, REGISTER_CACHE |-> rd_cache, REGISTER_LOCATION |-> rd_loc,
     REGISTER_REPLICA |-> rd_rep, REGISTER_ENTRY |-> rd_rec, UPDATE_HEALTH |-> deserialize_update,
     RENEW_LEASE |-> deserialize_renew_lease, INVALIDATE |-> deserialize_invalidate,
     TOMBSTONE |-> deserialize_tombstone, QUERY |-> deserialize_query,
     QUERY_RESULT |-> deserialize_query_result, SAVE |-> deserialize_path, ACK |-> deserialize_ack,
     EPOCH |-> deserialize_epoch_reply, ERROR |-> deserialize_error]

SerializedMessages ==
    {[name |-> name, object |-> ObjectOf(Serialize[name], profile)] :
        name \in Names, profile \in Profiles}

ASSUME MessagesAssumption == Messages = SerializedMessages

(* What the channel is given: payloads, readers, and what they should return. *)
SerializedPayload(m) == Encode(Serialize[m.name], m.object)
DeserializedObject(name, cells) == Read(Deserialize[name], cells)

(* The strings and lists of a message are within the caps of its reader. *)
IsWithinCaps(m) ==
    LET items == Unroll(Serialize[m.name], m.object)
    IN  \A i \in DOMAIN items : m.object[items[i].field].n <= items[i].cap

(* What rd_rec does not assign, wherever a record travels. *)
Unassigned(name, path) ==
    /\ name \in {"REGISTER_ENTRY", "QUERY_RESULT"}
    /\ Len(path) > 1 /\ path[Len(path) - 1] = "estimate"
    /\ path[Len(path)] \in {"restore_required", "locality", "cost_class", "provenance"}

(* The message field by field, but for the estimate fields rd_rec drops. *)
IsSameObject(m, object) ==
    /\ DOMAIN object = DOMAIN m.object
    /\ \A p \in DOMAIN m.object :
           object[p] = IF Unassigned(m.name, p) THEN Default ELSE m.object[p]

-----------------------------------------------------------------------------
(* The receiver's directory *)

(* Where the directory puts what a message registers. *)
Section ==
    [REGISTER_ENTRY |-> "records", REGISTER_CACHE |-> "caches",
     REGISTER_LOCATION |-> "locations", REGISTER_REPLICA |-> "replicas",
     TOMBSTONE |-> "tombstones"]
Written ==
    [records |-> w_rec, caches |-> w_cache, locations |-> w_loc, replicas |-> w_rep,
     leases |-> w_lease, tombstones |-> w_tomb]
HasRoom(section) ==
    /\ Len(stored[section]) < CountCap
    /\ Cardinality(UNION {{s} \X DOMAIN stored[s] : s \in DOMAIN stored}) < MaxStored

(* Caches, locations, replicas and leases are kept under their identity, and one  *)
(* of the same identity takes the place of the other; records and tombstones are  *)
(* appended, whatever their identity is.                                          *)
IdentityOf ==
    [records |-> "record_id", caches |-> "cache_id", locations |-> "location_id",
     replicas |-> "replica_id", leases |-> "lease_id", tombstones |-> "tombstone_id"]
Keyed == {"caches", "locations", "replicas", "leases"}
Identity(section, object) == object[<<IdentityOf[section]>>].is
Store(section, object) ==
    LET same == {i \in DOMAIN stored[section] :
                    Identity(section, stored[section][i]) = Identity(section, object)}
    IN  stored' = [stored EXCEPT ![section] =
                      IF section \in Keyed /\ same # {}
                      THEN [i \in DOMAIN @ |-> IF i \in same THEN object ELSE @[i]]
                      ELSE Append(@, object)]

(* What handle_connection does with a message it received: the directory may     *)
(* refuse to register it.                                                         *)
handle ==
    /\ receive
    /\ \/ UNCHANGED stored
       \/ LET new == received'[Len(received')]
          IN  /\ received' # received
              /\ new.name \in DOMAIN Section /\ HasRoom(Section[new.name])
              /\ Store(Section[new.name], new.object)

(* A program that embeds the directory registers what it likes, here with the  *)
(* strings that the protocol would admit.                                       *)
embed(section, profile) ==
    /\ status = "NONE"
    /\ HasRoom(section)
    /\ profile.text = 0 /\ profile.key <= 1
    /\ Store(section, ObjectOf(Written[section], profile))
    /\ UNCHANGED channel_vars

-----------------------------------------------------------------------------
(* The image of what is stored *)

Sections == <<"records", "caches", "locations", "replicas", "leases", "tombstones">>
Counts == FlattenSeq([i \in DOMAIN Sections |-> count(8, Sections[i])])
          \o u64(<<"observations", "epoch", "directory_generation">>)

save_layout ==
    Counts \o Each("records", w_rec) \o Each("caches", w_cache) \o Each("locations", w_loc)
           \o Each("replicas", w_rep) \o Each("leases", w_lease) \o Each("tombstones", w_tomb)
recover_layout ==
    Counts \o Each("records", r_rec) \o Each("caches", r_cache) \o Each("locations", r_loc)
           \o Each("replicas", r_rep) \o Each("leases", r_lease) \o Each("tombstones", r_tomb)

(* The directory as one object: the elements of a section under its name. *)
Contents ==
    LET Elements(s) == {<<s, i, p>> : i \in DOMAIN stored[s], p \in UNION {DOMAIN o : o \in Range(stored[s])}}
        Present == {e \in UNION {Elements(s) : s \in Range(Sections)} : e[3] \in DOMAIN stored[e[1]][e[2]]}
        PathOf(e) == <<e[1], Index[e[2]]>> \o e[3]
    IN  [q \in {PathOf(e) : e \in Present} |->
            LET e == CHOOSE x \in Present : PathOf(x) = q IN stored[e[1]][e[2]][e[3]]]
        @@ [q \in {<<s>> : s \in Range(Sections)} |-> [of |-> q, n |-> Len(stored[q[1]]), is |-> 0]]
        @@ [q \in {<<"observations">>, <<"epoch">>, <<"directory_generation">>} |->
               [of |-> q, n |-> 0, is |-> 0]]

save_to_buffer ==
    LET body == Encode(save_layout, Contents)
    IN  [magic |-> TRUE, version |-> TRUE, crc |-> body, sha256 |-> body, body |-> body]

IsIntact(image) ==
    /\ image.magic /\ image.version
    /\ image.crc = image.body
    /\ image.sha256 = image.body

(* The refusals after the reading: an identity that occurs twice in a section,   *)
(* and a tombstone whose kind is above the last.  That an identity is null, and   *)
(* that the generations of current records regress, is out of reach of a         *)
(* directory (IsRecoverable of Persistence is about the latter).                  *)
HasDistinctIds(object) ==
    \A s \in Range(Sections) : \A i, j \in 1..object[<<s>>].n :
        object[<<s, Index[i], IdentityOf[s]>>].is = object[<<s, Index[j], IdentityOf[s]>>].is
            => i = j
HasKnownKinds(object) ==
    \A i \in 1..object[<<"tombstones">>].n : object[<<"tombstones", Index[i], "kind">>].is = 0

recover_from_buffer(image) ==
    LET object == Read(recover_layout, image.body)
    IN  IF /\ IsIntact(image)
           /\ object # Malformed
           /\ HasDistinctIds(object) /\ HasKnownKinds(object)
        THEN object ELSE Malformed

-----------------------------------------------------------------------------
WireInit == ChannelInit /\ stored = [s \in Range(Sections) |-> <<>>]

WireNext ==
    \/ (\E m \in SerializedMessages : send(m)) /\ UNCHANGED stored
    \/ (\E n \in LostTails : break(n)) /\ UNCHANGED stored
    \/ alter /\ UNCHANGED stored
    \/ (\E name \in AlteredKinds : alter_kind(name)) /\ UNCHANGED stored
    \/ handle
    \/ \E s \in Range(Sections), p \in Profiles : embed(s, p)

WireSpec == WireInit /\ [][WireNext]_wire_vars

-----------------------------------------------------------------------------
(* Properties *)

(* Two records or two tombstones were accepted under one identity, or a          *)
(* tombstone of an unknown kind.                                                  *)
HoldsRefused ==
    \/ \E s \in {"records", "tombstones"} : \E i, j \in DOMAIN stored[s] :
           i # j /\ Identity(s, stored[s][i]) = Identity(s, stored[s][j])
    \/ \E i \in DOMAIN stored.tombstones : stored.tombstones[i][<<"kind">>].is # 0

(* What the directory accepted, save_to_buffer writes and recover_from_buffer   *)
(* reads back, field by field, whatever mixture of flags, lengths and counts    *)
(* came over the wire or from the program: nothing else than a repeated         *)
(* identity of records or tombstones and an unknown kind of tombstone makes an  *)
(* image unreadable, and with one of these no part of it is read.               *)
StoredReadsBack ==
    recover_from_buffer(save_to_buffer) = IF HoldsRefused THEN Malformed ELSE Contents

(* test_protocol: "Record round-trip (... so all fields are populated)".  A     *)
(* record arrives with every field it was sent with.  Refuted: rd_rec reads     *)
(* four fields of the estimate and assigns none of them.                        *)
RecordRoundTrip ==
    \A i \in DOMAIN received :
        received[i].name = "REGISTER_ENTRY" =>
            received[i].object = sent[received[i].at].object
=============================================================================
