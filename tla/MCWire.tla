------------------------------ MODULE MCWire ------------------------------
(* A small instance of the frame channel and of the image. *)
EXTENDS Wire

ProfileOf(id_, kind, digest, lease_, text, key, n) ==
    [id |-> id_, code |-> kind, digest |-> digest, lease |-> lease_, text |-> text,
     key |-> key, count |-> n]
SampleProfiles ==
    {ProfileOf(1, 0, 0, 0, 0, 0, 0), ProfileOf(2, 0, 1, 1, 0, 1, 2), ProfileOf(2, 1, 0, 1, 0, 0, 1),
     ProfileOf(3, 0, 1, 0, 1, 2, 3), ProfileOf(3, 0, 0, 1, 3, 0, 1)}
OneMoreOrLess == {-1, 1}
=============================================================================
