------------------------------ MODULE Protocol ------------------------------
(***************************************************************************)
(* The message kinds of the framed protocol, with their codes, and the     *)
(* kinds a receiver lets through.                                          *)
(***************************************************************************)
EXTENDS Integers

MessageKind ==
    [HELLO |-> 0, REGISTER_CACHE |-> 1, REGISTER_ENTRY |-> 2, UPDATE_LOCATION |-> 3,
     UPDATE_HEALTH |-> 4, UPDATE_FRESHNESS |-> 5, UPDATE_REACHABILITY |-> 6,
     UPDATE_INTEGRITY |-> 7, RENEW_LEASE |-> 8, INVALIDATE |-> 9, TOMBSTONE |-> 10,
     QUERY |-> 11, QUERY_RESULT |-> 12, SAVE |-> 13, RECOVER |-> 14, ACK |-> 15,
     ERROR |-> 16, REGISTER_LOCATION |-> 17, REGISTER_REPLICA |-> 18]

(* decode_frame takes ERROR for the last kind; two were added after it. *)
IsFrameKind(kind) == MessageKind[kind] <= MessageKind.ERROR
=============================================================================
