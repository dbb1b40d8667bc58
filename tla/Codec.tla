------------------------------- MODULE Codec -------------------------------
(***************************************************************************)
(* How objects become bytes and bytes objects, on the wire and in the file.*)
(*                                                                         *)
(* A layout lists what a writer writes, or what a reader reads and assigns,*)
(* in order.  An object maps the path of each of its fields to a value: the*)
(* field it was written for, a number n that matters only for presence     *)
(* flags, counts and the length class of strings (0: at most 1 MiB, 1: at  *)
(* most 16 MiB, 2: at most 64 MiB, 3: more), and a number that tells the   *)
(* values of identities and codes apart.  A cell is what one write leaves  *)
(* in the buffer; a read of another width is a misread, and fails.         *)
(***************************************************************************)
EXTENDS Integers, Sequences, SequencesExt, TLC

CONSTANT CountCap   \* bound: stands for the caps on counts (1024, 10^6, 10^8)

Plain(width, field) ==
    [width |-> width, field |-> <<field>>, cap |-> 0, vary |-> "plain", assigned |-> TRUE,
     body |-> <<>>, base |-> <<>>, indexed |-> FALSE]
Fields(width, names) == [i \in DOMAIN names |-> Plain(width, names[i])]

u8(names) == Fields(1, names)
u32(names) == Fields(4, names)
u64(names) == Fields(8, names)
f64(names) == Fields(8, names)
bytes(name) == Fields(32, <<name>>)
flag(name, vary) == <<[Plain(1, name) EXCEPT !.vary = vary, !.cap = 1]>>
count(width, name) == <<[Plain(width, name) EXCEPT !.vary = "count", !.cap = CountCap]>>

(* The identity of a descriptor, and a code that no reader checks: 0 for one of  *)
(* the enumeration, 1 for one above it.                                          *)
id(name) == <<[Plain(8, name) EXCEPT !.vary = "id"]>>
code(name) == <<[Plain(1, name) EXCEPT !.vary = "code"]>>

(* A string with the length a reader accepts; writers write any. *)
string(name, cap) == <<[Plain(0, name) EXCEPT !.vary = "text", !.cap = cap]>>
locator(name, cap) == <<[Plain(0, name) EXCEPT !.vary = "key", !.cap = cap]>>

(* Fields whose bytes are read into a local variable and never assigned: they    *)
(* keep their default.                                                          *)
unassigned(fields) == [i \in DOMAIN fields |-> [fields[i] EXCEPT !.assigned = FALSE]]
Default == [of |-> <<"default">>, n |-> 0, is |-> 0]

(* A layout under a flag, once for each element of a list, or as a member. *)
Optional(name, vary, layout) ==
    flag(name, vary) \o <<[Plain(0, name) EXCEPT !.vary = vary, !.body = layout]>>
Each(name, layout) ==
    <<[Plain(0, name) EXCEPT !.vary = "count", !.body = layout, !.base = <<name>>,
                             !.indexed = TRUE]>>
Under(path, layout) ==
    [i \in DOMAIN layout |->
        [layout[i] EXCEPT !.field = path \o @, !.base = path \o @]]
Member(name, layout) == Under(<<name>>, layout)

Index == <<"first", "second", "third">>
Iterations(item, n) ==
    FlattenSeq([i \in 1..n |->
        Under(IF item.indexed THEN Append(item.base, Index[i]) ELSE item.base, item.body)])

-----------------------------------------------------------------------------
(* The ByteWriter, the ByteReader, and the objects a profile gives rise to.     *)
(* Each works on a layout half by half, so that long ones do not nest deeply.   *)

FirstHalf(s) == SubSeq(s, 1, Len(s) \div 2)
SecondHalf(s) == SubSeq(s, Len(s) \div 2 + 1, Len(s))

(* The items written for an object, the bodies under flags and counts unrolled. *)
RECURSIVE Unroll(_, _)
Unroll(layout, object) ==
    IF Len(layout) > 1 THEN Unroll(FirstHalf(layout), object) \o Unroll(SecondHalf(layout), object)
    ELSE IF layout = <<>> \/ layout[1].body = <<>> THEN layout
    ELSE Unroll(Iterations(layout[1], object[layout[1].field].n), object)

Encode(layout, object) ==
    LET items == Unroll(layout, object)
    IN  [i \in DOMAIN items |-> [width |-> items[i].width, value |-> object[items[i].field]]]

Malformed == <<"malformed">> :> Default

(* A reader: how many cells it has consumed, whether it failed, what it assigned. *)
ReadItem(item, cells, reader) ==
    LET at == reader.at + 1 IN
    IF at > Len(cells) \/ cells[at].width # item.width \/ cells[at].value.n > item.cap
    THEN [reader EXCEPT !.failed = TRUE]
    ELSE [reader EXCEPT !.at = at,
                        !.object = (item.field :> IF item.assigned THEN cells[at].value
                                                  ELSE Default) @@ @]

RECURSIVE Decode(_, _, _)
Decode(layout, cells, reader) ==
    IF layout = <<>> \/ reader.failed THEN reader
    ELSE IF Len(layout) > 1
         THEN Decode(SecondHalf(layout), cells, Decode(FirstHalf(layout), cells, reader))
    ELSE IF layout[1].body = <<>> THEN ReadItem(layout[1], cells, reader)
    ELSE Decode(Iterations(layout[1], reader.object[layout[1].field].n), cells, reader)

(* What a reader returns: nothing when it failed or left cells over. *)
Read(layout, cells) ==
    LET reader == Decode(layout, cells, [at |-> 0, failed |-> FALSE, object |-> <<>>])
    IN  IF reader.failed \/ reader.at < Len(cells) THEN Malformed ELSE reader.object

(* An object with identity, codes, flags, string lengths and counts as in the    *)
(* profile.                                                                      *)
RECURSIVE UnrollBy(_, _)
UnrollBy(layout, profile) ==
    IF Len(layout) > 1
    THEN UnrollBy(FirstHalf(layout), profile) \o UnrollBy(SecondHalf(layout), profile)
    ELSE IF layout = <<>> \/ layout[1].body = <<>> THEN layout
    ELSE UnrollBy(Iterations(layout[1], profile[layout[1].vary]), profile)

ObjectOf(layout, profile) ==
    LET items == UnrollBy(layout, profile)
        Valued == {"id", "code"}
        Value(item) == [of |-> item.field,
                        n |-> IF item.vary \in Valued \cup {"plain"} THEN 0 ELSE profile[item.vary],
                        is |-> IF item.vary \in Valued THEN profile[item.vary] ELSE 0]
    IN  [p \in {items[i].field : i \in DOMAIN items} |->
            Value(items[CHOOSE i \in DOMAIN items : items[i].field = p])]
=============================================================================
