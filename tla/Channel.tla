------------------------------ MODULE Channel ------------------------------
(***************************************************************************)
(* One direction of a FrameChannel, whatever its messages are encoded to.  *)
(*                                                                         *)
(* Messages are serialized, put into frames and written to a stream, which *)
(* may break with its last cells undelivered, or deliver altered ones.     *)
(* The receiver reads a frame at a time, checks it and decodes its         *)
(* payload.  CRC-32 is taken to tell any two payloads apart.               *)
(***************************************************************************)
EXTENDS Protocol, Sequences, Functions

CONSTANTS
    Messages,        \* the messages sent, each with a name and an object
    Payload(_),      \* the cells a message is serialized to
    Parse(_, _),     \* the object the reader of a kind of message gets from cells
    Unreadable,      \* what it gets from cells that it cannot decode
    Fits(_),         \* whether a message is within the caps of its reader
    Arrives(_, _),   \* whether an object is what its reader should get from a message
    LostTails,       \* how many cells at the end of a broken stream may be missing
    GarbledCells,    \* which cells of a payload may be altered, counted from its end
    LengthErrors,    \* by how much the length in a header may be altered
    AlteredKinds,    \* what the kind in a header may be altered to
    MaxSent          \* bound: how many messages are sent

ASSUME PayloadAssumption ==
    \A m \in Messages : Payload(m) \in Seq(Range(Payload(m))) /\ Payload(m) # <<>>

ASSUME StreamAssumption ==
    LostTails \subseteq Nat /\ GarbledCells \subseteq Nat /\ LengthErrors \subseteq Int \ {0}

VARIABLES
    sent,        \* the messages written so far
    stream,      \* the cells that are under way
    status,      \* "OPEN", "BROKEN" (nothing more arrives), "CLOSED" (the receiver gave up)
                 \* or "NONE": a program without a channel embeds the directory
    taken,       \* how many frames the receiver has read
    received,    \* the messages it decoded, each with the number of its frame
    rekinded     \* history: the numbers of the frames whose kind was altered

channel_vars == <<sent, stream, status, taken, received, rekinded>>

-----------------------------------------------------------------------------
(* Frames: a header of 17 bytes, and the payload it measures and sums up *)

(* The reply to HELLO is an ACK whose payload is the epoch; its receiver waits *)
(* for that one and knows.                                                     *)
KindOf(name) == IF name = "EPOCH" THEN "ACK" ELSE name

Garbled == [width |-> 8, value |-> [of |-> <<"garbled">>, n |-> 0, is |-> 0]]

(* More than MAX_PAYLOAD, here only when one string is. *)
IsOversized(payload) ==
    \E i \in DOMAIN payload : payload[i].width = 0 /\ payload[i].value.n > 2

encode_frame(name, payload) ==
    <<[width |-> 17, name |-> name, length |-> Len(payload),
       magic |-> TRUE, version |-> TRUE, crc |-> payload]>> \o payload

decode_frame_Unchecked(header, payload) ==
    /\ header.magic /\ header.version
    /\ IsFrameKind(KindOf(header.name))
    /\ ~IsOversized(payload)
    /\ Len(payload) = header.length

decode_frame(header, payload) ==
    /\ header.magic /\ header.version
    /\ IsFrameKind(KindOf(header.name))
    /\ ~IsOversized(payload)
    /\ Len(payload) = header.length
    /\ header.crc = payload

send(m) ==
    /\ status = "OPEN"
    /\ Len(sent) < MaxSent
    /\ sent' = Append(sent, m)
    /\ stream' = stream \o encode_frame(m.name, Payload(m))
    /\ UNCHANGED <<status, taken, received, rekinded>>

(* The sender dies or the network drops the rest of what it wrote. *)
break(n) ==
    /\ status = "OPEN"
    /\ n <= Len(stream)
    /\ status' = "BROKEN"
    /\ stream' = SubSeq(stream, 1, Len(stream) - n)
    /\ UNCHANGED <<sent, taken, received, rekinded>>

(* The first frame under way is as it was sent. *)
IsWhole(header) ==
    /\ header.magic /\ header.version
    /\ header.length = Len(header.crc)
    /\ header.crc = SubSeq(stream, 2, 1 + header.length)
    /\ taken + 1 \notin rekinded

(* A cell of the next frame is altered: one of its payload, or the magic, the   *)
(* version or the length of its header.  An altered checksum is like an altered *)
(* payload.                                                                     *)
alter ==
    /\ status = "OPEN"
    /\ stream # <<>>
    /\ IsWhole(stream[1])
    /\ \/ stream' = [stream EXCEPT ![1].magic = FALSE]
       \/ stream' = [stream EXCEPT ![1].version = FALSE]
       \/ \E d \in LengthErrors :
              /\ stream[1].length + d >= 0
              /\ stream' = [stream EXCEPT ![1].length = @ + d]
       \/ \E k \in GarbledCells :
              /\ k < stream[1].length
              /\ stream' = [stream EXCEPT ![1 + stream[1].length - k] = Garbled]
    /\ UNCHANGED <<sent, status, taken, received, rekinded>>

(* The kind of the next frame is altered: the checksum does not cover it. *)
alter_kind(name) ==
    /\ status = "OPEN"
    /\ stream # <<>>
    /\ IsWhole(stream[1])
    /\ KindOf(name) # KindOf(stream[1].name)
    /\ stream' = [stream EXCEPT ![1].name = name]
    /\ rekinded' = rekinded \cup {taken + 1}
    /\ UNCHANGED <<sent, status, taken, received>>

receive_Resumes ==
    /\ status \in {"OPEN", "BROKEN"}
    /\ IF stream = <<>> \/ Len(stream) < 1 + stream[1].length
       THEN /\ status = "BROKEN"
            /\ status' = "CLOSED"
            /\ UNCHANGED <<stream, taken, received>>
       ELSE LET header == stream[1]
                payload == SubSeq(stream, 2, 1 + header.length)
                object == Parse(header.name, payload)
            IN  /\ stream' = SubSeq(stream, 2 + header.length, Len(stream))
                /\ taken' = taken + 1
                /\ UNCHANGED status
                /\ received' = IF ~decode_frame(header, payload) \/ object = Unreadable
                               THEN received
                               ELSE Append(received, [name |-> header.name, object |-> object,
                                                      at |-> taken + 1])
    /\ UNCHANGED <<sent, rekinded>>

(* receive: the header, as many bytes as it says, and the checks.  A frame that *)
(* fails them, or the end of the stream, ends the connection; a payload that    *)
(* cannot be decoded is answered with an error.                                 *)
receive ==
    /\ status \in {"OPEN", "BROKEN"}
    /\ IF stream = <<>> \/ Len(stream) < 1 + stream[1].length
       THEN /\ status = "BROKEN"
            /\ status' = "CLOSED"
            /\ UNCHANGED <<stream, taken, received>>
       ELSE LET header == stream[1]
                payload == SubSeq(stream, 2, 1 + header.length)
                object == Parse(header.name, payload)
            IN  /\ stream' = SubSeq(stream, 2 + header.length, Len(stream))
                /\ taken' = taken + 1
                /\ IF ~decode_frame(header, payload)
                   THEN status' = "CLOSED" /\ UNCHANGED received
                   ELSE /\ UNCHANGED status
                        /\ received' = IF object = Unreadable THEN received
                                       ELSE Append(received, [name |-> header.name,
                                                object |-> object, at |-> taken + 1])
    /\ UNCHANGED <<sent, rekinded>>

-----------------------------------------------------------------------------
ChannelInit ==
    /\ sent = <<>> /\ stream = <<>> /\ status \in {"OPEN", "NONE"}
    /\ taken = 0 /\ received = <<>> /\ rekinded = {}

ChannelNext ==
    \/ \E m \in Messages : send(m)
    \/ \E n \in LostTails : break(n)
    \/ alter
    \/ \E name \in AlteredKinds : alter_kind(name)
    \/ receive

ChannelSpec == ChannelInit /\ [][ChannelNext]_channel_vars

-----------------------------------------------------------------------------
(* Properties *)

(* From the cells of every message sent, its reader gets what it should or      *)
(* nothing, and what fits its caps it does get (serialize_, deserialize_).       *)
CodecRoundTrips ==
    \A m \in Range(sent) :
        LET object == Parse(m.name, Payload(m)) IN
        /\ object # Unreadable => Arrives(m, object)
        /\ Fits(m) => object # Unreadable

(* However the stream breaks or is altered, what is decoded was sent in its      *)
(* place, in order and at most once: no frame is cut short or shifted.  Unless    *)
(* the kind in its own header was altered, which the checksum does not cover and  *)
(* decode_frame does not notice, no frame is read as another either.              *)
DeliveredAsSent ==
    /\ \A i \in DOMAIN received :
           LET r == received[i] IN
           /\ r.at \in DOMAIN sent
           /\ r.at \notin rekinded =>
                  r.name = sent[r.at].name /\ Arrives(sent[r.at], r.object)
    /\ \A i, j \in DOMAIN received : i < j => received[i].at < received[j].at

(* Every frame a receiver takes while the connection stays up, and whose strings *)
(* and lists are within the caps, it decodes, whatever flags and counts: no      *)
(* request is lost to its encoding or to a frame that was skipped, unless the    *)
(* kind in its own header was altered.                                           *)
TakenIsDecoded ==
    status = "OPEN" =>
        \A i \in (1..taken) \ rekinded :
            Fits(sent[i]) => \E r \in Range(received) : r.at = i
=============================================================================
