--------------------------- MODULE ChannelProofs ---------------------------
(***************************************************************************)
(* Whatever its messages are encoded to, and however its stream breaks or  *)
(* is altered, a channel delivers messages in order and at most once, as   *)
(* they were sent unless the kind in their header was altered, and none is *)
(* skipped while it stays open.                                            *)
(*                                                                         *)
(* The receiver knows nothing but the cells: it stays aligned with the     *)
(* frames because the header it takes sums up the payload that was sent.   *)
(* The invariant says where the header of each frame under way is.         *)
(***************************************************************************)
EXTENDS Channel, SequenceTheorems, TLAPS

(* The header of a message's frame, with its magic, version and length as they *)
(* were sent or not, and its kind if that may have been altered.               *)
NamesOf(m, changed) == IF changed THEN {m.name} \cup AlteredKinds ELSE {m.name}
HeadersOf(m, changed) ==
    [width: {17}, name: NamesOf(m, changed), length: Nat, magic: BOOLEAN, version: BOOLEAN,
     crc: {Payload(m)}]

PayloadCells == UNION {Range(Payload(m)) : m \in Messages}
Cells == PayloadCells \cup {Garbled} \cup UNION {HeadersOf(m, TRUE) : m \in Messages}

(* What its reader gets of a message, and what the receiver keeps of it when it *)
(* takes it for one of that name.                                               *)
Reading(m) == Parse(m.name, Payload(m))
Delivery(name, m, k) == [name |-> name, object |-> Parse(name, Payload(m)), at |-> k]
DeliveriesOf(m) == {Delivery(name, m, k) : name \in NamesOf(m, TRUE), k \in Nat}
Deliveries == UNION {DeliveriesOf(m) : m \in Messages}

FrameLength(m) == 1 + Len(Payload(m))

(* The cells under way after t frames of these messages were taken: the frame of   *)
(* the k-th message ends off[k] cells from their head, or did before the stream    *)
(* broke, and starts with its header, whose kind is altered in those changed only. *)
Aligned(off, t, messages, cells, changed) ==
    /\ off \in [t..Len(messages) -> Int]
    /\ off[t] = 0
    /\ \A k \in (t + 1)..Len(messages) : off[k] = off[k - 1] + FrameLength(messages[k])
    /\ \A j, k \in t..Len(messages) : j <= k => off[j] <= off[k]
    /\ Len(cells) <= off[Len(messages)]
    /\ \A k \in (t + 1)..Len(messages) :
           off[k - 1] + 1 <= Len(cells) =>
               cells[off[k - 1] + 1] \in HeadersOf(messages[k], k \in changed)

ChannelTypeOK ==
    /\ sent \in Seq(Messages)
    /\ stream \in Seq(Cells)
    /\ status \in {"OPEN", "BROKEN", "CLOSED", "NONE"}
    /\ taken \in Nat /\ taken <= Len(sent)
    /\ received \in Seq(Deliveries)
    /\ rekinded \subseteq Nat

Live == status \in {"OPEN", "BROKEN"}

(* Frames are found where they are as long as anybody reads. *)
AlignedInv ==
    Live => \E off : /\ Aligned(off, taken, sent, stream, rekinded)
                     /\ status = "OPEN" => Len(stream) = off[Len(sent)]

(* What was received is the reading of what was sent there, in order, under its  *)
(* own name unless that was altered.                                             *)
ReceivedInv ==
    /\ \A i \in DOMAIN received :
           /\ received[i].at \in 1..taken
           /\ received[i].name \in NamesOf(sent[received[i].at], received[i].at \in rekinded)
           /\ received[i] = Delivery(received[i].name, sent[received[i].at], received[i].at)
           /\ received[i].object # Unreadable
    /\ \A i, j \in DOMAIN received : i < j => received[i].at < received[j].at

(* What was taken and can be read was received. *)
TakenInv ==
    Live => \A k \in (1..taken) \ rekinded : Reading(sent[k]) # Unreadable =>
                                                 \E i \in DOMAIN received : received[i].at = k

ChannelInv == ChannelTypeOK /\ AlignedInv /\ ReceivedInv /\ TakenInv

(* A payload is a non-empty sequence of cells, and so is a frame, one longer. *)
LEMMA PayloadType ==
    ASSUME NEW m \in Messages
    PROVE  /\ Payload(m) \in Seq(Cells) /\ Len(Payload(m)) \in Nat \ {0}
           /\ FrameLength(m) \in Nat /\ FrameLength(m) >= 2
<1>1. Payload(m) \in Seq(Range(Payload(m))) /\ Payload(m) # <<>>  BY PayloadAssumption
<1>2. Range(Payload(m)) \subseteq Cells  BY DEF Cells, PayloadCells
<1>3. Payload(m) \in Seq(Cells)
  <2>1. \A i \in 1..Len(Payload(m)) : Payload(m)[i] \in Range(Payload(m))
    BY <1>1, ElementOfSeq
  <2> QED  BY <1>1, <1>2, <2>1, SeqDef
<1>4. Len(Payload(m)) \in Nat \ {0}  BY <1>1, EmptySeq
<1> QED  BY <1>3, <1>4 DEF FrameLength

(* The frame of a message is its header and its payload. *)
LEMMA FrameShape ==
    ASSUME NEW m \in Messages
    PROVE  LET f == encode_frame(m.name, Payload(m)) IN
           /\ f \in Seq(Cells) /\ Len(f) = FrameLength(m)
           /\ \A b \in BOOLEAN : f[1] \in HeadersOf(m, b)
<1> DEFINE h == [width |-> 17, name |-> m.name, length |-> Len(Payload(m)),
                 magic |-> TRUE, version |-> TRUE, crc |-> Payload(m)]
<1>1. Payload(m) \in Seq(Cells) /\ Len(Payload(m)) \in Nat  BY PayloadType
<1>2. \A b \in BOOLEAN : h \in HeadersOf(m, b)  BY <1>1 DEF HeadersOf, NamesOf
<1>3. h \in Cells  BY <1>2 DEF Cells
<1>4. encode_frame(m.name, Payload(m)) = <<h>> \o Payload(m)  BY DEF encode_frame
<1> HIDE DEF h
<1>5. <<h>> \in Seq(Cells) /\ Len(<<h>>) = 1 /\ <<h>>[1] = h  BY <1>3
<1>6. /\ <<h>> \o Payload(m) \in Seq(Cells)
      /\ Len(<<h>> \o Payload(m)) = 1 + Len(Payload(m))
      /\ (<<h>> \o Payload(m))[1] = h
  BY <1>1, <1>5, ConcatProperties
<1> QED  BY <1>2, <1>4, <1>6 DEF FrameLength

(* The invariant holds before anything is sent. *)
LEMMA ChannelInvInit == ChannelInit => ChannelInv
<1> SUFFICES ASSUME ChannelInit PROVE ChannelInv
  OBVIOUS
<1>1. /\ sent = <<>> /\ stream = <<>> /\ taken = 0 /\ received = <<>>
      /\ status \in {"OPEN", "NONE"} /\ Len(sent) = 0 /\ Len(stream) = 0 /\ rekinded = {}
  BY DEF ChannelInit
<1>2. ChannelTypeOK  BY <1>1 DEF ChannelTypeOK
<1>3. AlignedInv
  <2> DEFINE off == [k \in 0..0 |-> 0]
  <2>1. Aligned(off, 0, <<>>, <<>>, {}) /\ off[0] = 0  BY DEF Aligned
  <2> HIDE DEF off
  <2> QED  BY <1>1, <2>1 DEF AlignedInv
<1>4. ReceivedInv /\ TakenInv  BY <1>1 DEF ReceivedInv, TakenInv
<1> QED  BY <1>2, <1>3, <1>4 DEF ChannelInv

(* What was received and taken stays so when more is sent or the stream changes. *)
LEMMA HistoryKept ==
    ASSUME ChannelInv, taken' = taken, received' = received, Live' => Live,
           \A k \in 1..taken : k \in rekinded' <=> k \in rekinded,
           \A k \in 1..Len(sent) : sent'[k] = sent[k]
    PROVE  ReceivedInv' /\ TakenInv'
<1>0. taken \in Nat /\ Len(sent) \in Nat /\ taken <= Len(sent)
  BY DEF ChannelInv, ChannelTypeOK
<1>1. \A k \in 1..taken : sent'[k] = sent[k]  BY <1>0
<1>2. ReceivedInv'
  BY <1>1 DEF ChannelInv, ReceivedInv, Delivery, NamesOf
<1>3. TakenInv'
  BY <1>1 DEF ChannelInv, TakenInv, Reading
<1> QED  BY <1>2, <1>3

(* Appending a message and its frame keeps the frames aligned. *)
LEMMA AlignedSend ==
    ASSUME NEW s \in Seq(Messages), NEW c \in Seq(Cells), NEW m \in Messages,
           NEW t \in Nat, t <= Len(s), NEW off, NEW w, Aligned(off, t, s, c, w),
           Len(c) = off[Len(s)],
           NEW f \in Seq(Cells), Len(f) = FrameLength(m),
           \A b \in BOOLEAN : f[1] \in HeadersOf(m, b)
    PROVE  \E new : /\ Aligned(new, t, Append(s, m), c \o f, w)
                    /\ Len(c \o f) = new[Len(s) + 1]
<1> DEFINE n == Len(s)  u == Append(s, m)  d == c \o f
           new == [k \in t..(n + 1) |-> IF k = n + 1 THEN off[n] + FrameLength(m) ELSE off[k]]
<1>0. n \in Nat /\ Len(c) \in Nat /\ FrameLength(m) \in Nat /\ FrameLength(m) >= 2
  BY PayloadType
<1>1. /\ Len(u) = n + 1 /\ u[n + 1] = m /\ \A k \in 1..n : u[k] = s[k]
  OBVIOUS
<1>2. Len(d) = Len(c) + FrameLength(m)  OBVIOUS
<1>3. /\ \A i \in 1..Len(c) : d[i] = c[i]
      /\ d[Len(c) + 1] = f[1]
  <2>1. Len(f) >= 1 /\ Len(f) \in Nat  BY <1>0
  <2>2. \A i \in 1..(Len(c) + Len(f)) : d[i] = IF i <= Len(c) THEN c[i] ELSE f[i - Len(c)]
    BY ConcatProperties
  <2>3. /\ Len(c) + 1 \in 1..(Len(c) + Len(f)) /\ (Len(c) + 1) - Len(c) = 1
        /\ ~(Len(c) + 1 <= Len(c)) /\ \A i \in 1..Len(c) : i \in 1..(Len(c) + Len(f)) /\ i <= Len(c)
    BY <1>0, <2>1
  <2> HIDE DEF d
  <2> QED  BY <2>2, <2>3
<1>4. /\ off \in [t..n -> Int] /\ off[t] = 0
      /\ \A k \in (t + 1)..n : off[k] = off[k - 1] + FrameLength(s[k])
      /\ \A j, k \in t..n : j <= k => off[j] <= off[k]
      /\ \A k \in (t + 1)..n :
             off[k - 1] + 1 <= Len(c) => c[off[k - 1] + 1] \in HeadersOf(s[k], k \in w)
  BY DEF Aligned
<1>5. \A k \in t..n : off[k] \in Int  BY <1>4
<1>6. n \in t..n /\ t \in t..n  BY <1>0
<1>7. /\ new \in [t..(n + 1) -> Int]
      /\ new[n + 1] = off[n] + FrameLength(m)
      /\ \A k \in t..n : new[k] = off[k]
  <2>1. off[n] + FrameLength(m) \in Int  BY <1>0, <1>5, <1>6
  <2>2. \A k \in t..(n + 1) : k \in t..n \/ k = n + 1  BY <1>0
  <2>3. n + 1 \in t..(n + 1) /\ \A k \in t..n : k \in t..(n + 1) /\ k # n + 1  BY <1>0
  <2> QED  BY <1>5, <2>1, <2>2, <2>3
<1> HIDE DEF new, u, d, n
<1>8. new[t] = 0 /\ Len(d) = new[n + 1]
  BY <1>0, <1>2, <1>4, <1>6, <1>7 DEF n
<1>9. ASSUME NEW k \in (t + 1)..(n + 1)
      PROVE  new[k] = new[k - 1] + FrameLength(u[k])
  <2>1. CASE k = n + 1
    <3>1. k - 1 = n  BY <1>0, <2>1
    <3> QED  BY <1>1, <1>6, <1>7, <2>1, <3>1
  <2>2. CASE k # n + 1
    <3>1. k \in (t + 1)..n /\ k \in t..n /\ k - 1 \in t..n /\ k \in 1..n
      BY <1>0, <2>2
    <3> QED  BY <1>1, <1>4, <1>7, <3>1
  <2> QED  BY <2>1, <2>2
<1>10. ASSUME NEW j \in t..(n + 1), NEW k \in t..(n + 1), j <= k
       PROVE  new[j] <= new[k]
  <2>1. CASE j = n + 1
    <3>1. k = n + 1 /\ new[k] \in Int  BY <1>0, <1>7, <1>10, <2>1
    <3> QED  BY <2>1, <3>1
  <2>2. CASE j # n + 1
    <3>1. j \in t..n /\ j <= n  BY <1>0, <2>2
    <3>2. CASE k = n + 1
      <4>1. off[j] <= off[n] /\ off[j] \in Int /\ off[n] \in Int  BY <1>4, <1>5, <1>6, <3>1
      <4> QED  BY <1>0, <1>7, <3>1, <3>2, <4>1
    <3>3. CASE k # n + 1
      <4>1. k \in t..n  BY <1>0, <3>3
      <4> QED  BY <1>4, <1>7, <1>10, <3>1, <4>1
    <3> QED  BY <3>2, <3>3
  <2> QED  BY <2>1, <2>2
<1>11. ASSUME NEW k \in (t + 1)..(n + 1), new[k - 1] + 1 <= Len(d)
       PROVE  d[new[k - 1] + 1] \in HeadersOf(u[k], k \in w)
  <2>1. CASE k = n + 1
    <3>1. k - 1 = n  BY <1>0, <2>1
    <3>2. new[k - 1] = Len(c)  BY <1>6, <1>7, <3>1 DEF n
    <3>3. d[new[k - 1] + 1] = f[1] /\ u[k] = m  BY <1>1, <1>3, <2>1, <3>2
    <3>4. (k \in w) \in BOOLEAN  OBVIOUS
    <3> QED  BY <3>3, <3>4
  <2>2. CASE k # n + 1
    <3>1. /\ k \in (t + 1)..n /\ k \in t..n /\ k - 1 \in t..n /\ k \in 1..n
          /\ k <= n /\ t <= k - 1
      BY <1>0, <2>2
    <3>2. /\ off[k] = off[k - 1] + FrameLength(s[k]) /\ off[k] <= off[n]
          /\ off[t] <= off[k - 1] /\ off[k - 1] \in Int
      BY <1>4, <1>5, <1>6, <3>1
    <3>3. FrameLength(s[k]) \in Nat /\ FrameLength(s[k]) >= 2
      BY <3>1, PayloadType, ElementOfSeq DEF n
    <3>4. off[n] = Len(c)  BY DEF n
    <3>5. off[k - 1] + 1 <= Len(c) /\ off[k - 1] + 1 \in 1..Len(c)
      <4>1. 0 <= off[k - 1] /\ off[k - 1] + FrameLength(s[k]) <= Len(c)
        BY <1>4, <3>2, <3>4
      <4> QED  BY <1>0, <3>2, <3>3, <4>1
    <3>6. c[off[k - 1] + 1] \in HeadersOf(s[k], k \in w)  BY <1>4, <3>1, <3>5
    <3> QED  BY <1>1, <1>3, <1>7, <3>1, <3>5, <3>6
  <2> QED  BY <2>1, <2>2
<1>12. Len(d) <= new[n + 1]  BY <1>0, <1>2, <1>8
<1>13. Aligned(new, t, u, d, w)
  BY <1>1, <1>7, <1>8, <1>9, <1>10, <1>11, <1>12 DEF Aligned
<1> QED  BY <1>8, <1>13 DEF n, u, d

(* A frame is written behind the others. *)
LEMMA SendKeeps ==
    ASSUME ChannelInv, NEW m \in Messages, send(m)
    PROVE  ChannelInv'
<1> DEFINE f == encode_frame(m.name, Payload(m))
<1>0. ChannelTypeOK /\ Live /\ Live'  BY DEF ChannelInv, send, Live
<1>1. /\ f \in Seq(Cells) /\ Len(f) = FrameLength(m) /\ \A b \in BOOLEAN : f[1] \in HeadersOf(m, b)
  BY FrameShape
<1>2. /\ status = "OPEN" /\ status' = "OPEN" /\ taken' = taken /\ received' = received
      /\ sent' = Append(sent, m) /\ stream' = stream \o f /\ rekinded' = rekinded
  BY DEF send
<1> HIDE DEF f
<1>3. /\ sent' \in Seq(Messages) /\ Len(sent') = Len(sent) + 1
      /\ \A k \in 1..Len(sent) : sent'[k] = sent[k]
  BY <1>0, <1>2 DEF ChannelTypeOK
<1>4. ChannelTypeOK'
  BY <1>0, <1>1, <1>2, <1>3, ConcatProperties DEF ChannelTypeOK
<1>5. AlignedInv'
  <2>1. PICK off : Aligned(off, taken, sent, stream, rekinded) /\ Len(stream) = off[Len(sent)]
    BY <1>0, <1>2 DEF ChannelInv, AlignedInv
  <2>2. \E new : /\ Aligned(new, taken, Append(sent, m), stream \o f, rekinded)
                 /\ Len(stream \o f) = new[Len(sent) + 1]
    BY <1>0, <1>1, <2>1, AlignedSend DEF ChannelTypeOK
  <2>3. PICK new : /\ Aligned(new, taken', sent', stream', rekinded')
                   /\ Len(stream') = new[Len(sent')]
    BY <1>2, <1>3, <2>2
  <2> QED  BY <2>3 DEF AlignedInv
<1>6. ReceivedInv' /\ TakenInv'  BY <1>0, <1>2, <1>3, HistoryKept
<1> QED  BY <1>4, <1>5, <1>6 DEF ChannelInv

(* If cells are under way, the first is the header of the next frame, which the *)
(* others follow.                                                               *)
LEMMA FirstFrame ==
    ASSUME NEW s \in Seq(Messages), NEW c \in Seq(Cells), NEW t \in Nat, t <= Len(s),
           NEW off, NEW w, Aligned(off, t, s, c, w), c # <<>>
    PROVE  /\ t + 1 \in 1..Len(s) /\ s[t + 1] \in Messages
           /\ c[1] \in HeadersOf(s[t + 1], t + 1 \in w)
           /\ off[t + 1] = FrameLength(s[t + 1])
           /\ \A k \in (t + 1)..Len(s) : off[k] \in Int /\ off[k] >= FrameLength(s[t + 1])
<1>1. Len(c) \in Nat /\ Len(c) >= 1 /\ Len(s) \in Nat
  BY EmptySeq
<1>2. t \in t..Len(s) /\ off \in [t..Len(s) -> Int] /\ off[t] = 0 /\ Len(c) <= off[Len(s)]
  BY <1>1 DEF Aligned
<1>3. t # Len(s)  BY <1>1, <1>2
<1>4. /\ t + 1 \in (t + 1)..Len(s) /\ t + 1 \in t..Len(s) /\ t + 1 \in 1..Len(s)
      /\ (t + 1) - 1 = t
  BY <1>1, <1>3
<1>5. s[t + 1] \in Messages  BY <1>4, ElementOfSeq
<1>6. FrameLength(s[t + 1]) \in Nat  BY <1>5, PayloadType
<1>7. off[t + 1] = off[(t + 1) - 1] + FrameLength(s[t + 1])
  BY <1>4 DEF Aligned
<1>8. off[t + 1] = FrameLength(s[t + 1])  BY <1>2, <1>4, <1>6, <1>7
<1>9. off[(t + 1) - 1] + 1 <= Len(c) => c[off[(t + 1) - 1] + 1] \in HeadersOf(s[t + 1], t + 1 \in w)
  BY <1>4 DEF Aligned
<1>10. c[1] \in HeadersOf(s[t + 1], t + 1 \in w)
  <2>1. off[(t + 1) - 1] + 1 = 1  BY <1>2, <1>4
  <2> QED  BY <1>1, <1>9, <2>1
<1>11. ASSUME NEW k \in (t + 1)..Len(s)
       PROVE  off[k] \in Int /\ off[k] >= FrameLength(s[t + 1])
  <2>1. k \in t..Len(s) /\ t + 1 <= k  BY <1>1
  <2>2. off[k] \in Int /\ off[t + 1] <= off[k]  BY <1>2, <1>4, <2>1 DEF Aligned
  <2> QED  BY <1>6, <1>8, <2>2
<1> QED  BY <1>4, <1>5, <1>8, <1>10, <1>11

(* Cells that are lost from the end, or altered where no header is, leave the   *)
(* frames aligned.                                                              *)
LEMMA AlignedAltered ==
    ASSUME NEW s, NEW c, NEW d, NEW t, NEW off, NEW w, NEW x, Aligned(off, t, s, c, w),
           Len(d) <= off[Len(s)],
           \A k \in (t + 1)..Len(s) :
               off[k - 1] + 1 <= Len(d) => d[off[k - 1] + 1] \in HeadersOf(s[k], k \in x)
    PROVE  Aligned(off, t, s, d, x)
  BY DEF Aligned

(* A stream that breaks keeps what it delivers. *)
LEMMA BreakKeeps ==
    ASSUME ChannelInv, NEW n \in LostTails, break(n)
    PROVE  ChannelInv'
<1>0. ChannelTypeOK /\ Live /\ n \in Nat /\ Len(stream) \in Nat
  BY StreamAssumption DEF ChannelInv, ChannelTypeOK, break, Live
<1>1. /\ status' = "BROKEN" /\ taken' = taken /\ received' = received /\ sent' = sent
      /\ rekinded' = rekinded
      /\ stream' = SubSeq(stream, 1, Len(stream) - n) /\ n <= Len(stream)
  BY DEF break
<1>2. \A i \in 1..(Len(stream) - n) : stream[i] \in Cells
  BY <1>0, ElementOfSeq DEF ChannelTypeOK
<1>3. /\ stream' \in Seq(Cells)
      /\ Len(stream') \in Nat /\ Len(stream') <= Len(stream)
      /\ \A i \in 1..Len(stream') : stream'[i] = stream[i]
  <2>1. /\ SubSeq(stream, 1, Len(stream) - n) \in Seq(Cells)
        /\ Len(SubSeq(stream, 1, Len(stream) - n)) =
               IF 1 <= Len(stream) - n THEN (Len(stream) - n) - 1 + 1 ELSE 0
        /\ \A i \in 1..((Len(stream) - n) - 1 + 1) :
               SubSeq(stream, 1, Len(stream) - n)[i] = stream[1 + i - 1]
    BY <1>0, <1>2, SubSeqProperties
  <2>2. Len(stream') = Len(stream) - n  BY <1>0, <1>1, <2>1
  <2>3. \A i \in 1..Len(stream') : stream'[i] = stream[1 + i - 1] /\ 1 + i - 1 = i
    BY <1>0, <1>1, <2>1, <2>2
  <2> QED  BY <1>0, <1>1, <2>1, <2>2, <2>3
<1>4. ChannelTypeOK'  BY <1>0, <1>1, <1>3 DEF ChannelTypeOK
<1>5. AlignedInv'
  <2>1. PICK off : Aligned(off, taken, sent, stream, rekinded)
    BY <1>0 DEF ChannelInv, AlignedInv
  <2>2. /\ Len(sent) \in Nat /\ taken \in Nat /\ taken <= Len(sent)
        /\ off \in [taken..Len(sent) -> Int] /\ off[taken] = 0 /\ Len(stream) <= off[Len(sent)]
    BY <1>0, <2>1 DEF Aligned, ChannelTypeOK
  <2>3. Len(stream') <= off[Len(sent)]
    <3>1. Len(sent) \in taken..Len(sent)  BY <2>2
    <3> QED  BY <1>0, <1>3, <2>2, <3>1
  <2>4. ASSUME NEW k \in (taken + 1)..Len(sent), off[k - 1] + 1 <= Len(stream')
        PROVE  stream'[off[k - 1] + 1] \in HeadersOf(sent[k], k \in rekinded)
    <3>1. k - 1 \in taken..Len(sent) /\ taken \in taken..Len(sent) /\ taken <= k - 1
      BY <2>2
    <3>2. off[k - 1] \in Int /\ off[taken] <= off[k - 1]  BY <2>1, <2>2, <3>1 DEF Aligned
    <3>3. off[k - 1] + 1 \in 1..Len(stream') /\ off[k - 1] + 1 <= Len(stream)
      BY <1>0, <1>3, <2>2, <2>4, <3>2
    <3> QED  BY <1>3, <2>1, <3>3 DEF Aligned
  <2>5. Aligned(off, taken', sent', stream', rekinded')
    BY <1>1, <2>1, <2>3, <2>4, AlignedAltered
  <2> QED  BY <1>1, <2>5 DEF AlignedInv
<1>6. Live' => Live  BY <1>0
<1>7. ReceivedInv' /\ TakenInv'  BY <1>1, <1>6, HistoryKept
<1> QED  BY <1>4, <1>5, <1>7 DEF ChannelInv

(* Altering the header of the first frame, but for its kind and checksum, leaves *)
(* it a header of that frame.                                                    *)
LEMMA AlteredHeader ==
    ASSUME NEW m, NEW b, NEW h \in HeadersOf(m, b)
    PROVE  /\ [h EXCEPT !.magic = FALSE] \in HeadersOf(m, b)
           /\ [h EXCEPT !.version = FALSE] \in HeadersOf(m, b)
           /\ \A d \in Int : h.length + d >= 0 => [h EXCEPT !.length = @ + d] \in HeadersOf(m, b)
<1>1. /\ [h EXCEPT !.magic = FALSE] \in HeadersOf(m, b)
      /\ [h EXCEPT !.version = FALSE] \in HeadersOf(m, b)
  BY DEF HeadersOf
<1>2. ASSUME NEW d \in Int, h.length + d >= 0
      PROVE  [h EXCEPT !.length = @ + d] \in HeadersOf(m, b)
  <2>1. h.length \in Nat  BY DEF HeadersOf
  <2>2. h.length + d \in Nat  BY <1>2, <2>1
  <2>3. \A n \in Nat : [h EXCEPT !.length = n] \in HeadersOf(m, b)  BY DEF HeadersOf
  <2> QED  BY <2>2, <2>3
<1> QED  BY <1>1, <1>2

(* A cell of the first frame that is altered, and is no header unless it was, *)
(* leaves the invariant true.                                                 *)
LEMMA CellAltered ==
    ASSUME ChannelInv, status = "OPEN", stream # <<>>, NEW p \in Nat, NEW v \in Cells,
           \/ p = 1 /\ v \in HeadersOf(sent[taken + 1], taken + 1 \in rekinded')
           \/ p >= 2 /\ p <= FrameLength(sent[taken + 1]),
           stream' = [stream EXCEPT ![p] = v], UNCHANGED <<sent, status, taken, received>>,
           rekinded' \subseteq Nat, rekinded \subseteq rekinded',
           rekinded' \subseteq rekinded \cup {taken + 1}
    PROVE  ChannelInv'
<1>0. ChannelTypeOK /\ Live /\ Live' /\ Len(stream) \in Nat
  BY DEF ChannelInv, ChannelTypeOK, Live
<1>1. PICK off : Aligned(off, taken, sent, stream, rekinded) /\ Len(stream) = off[Len(sent)]
  BY <1>0 DEF ChannelInv, AlignedInv
<1>2. /\ Len(sent) \in Nat /\ taken \in Nat /\ taken <= Len(sent)
      /\ off[taken] = 0 /\ Len(stream) <= off[Len(sent)]
  BY <1>0, <1>1 DEF Aligned, ChannelTypeOK
<1>3. /\ taken + 1 \in 1..Len(sent) /\ sent[taken + 1] \in Messages
      /\ \A k \in (taken + 1)..Len(sent) :
             off[k] \in Int /\ off[k] >= FrameLength(sent[taken + 1])
  BY <1>0, <1>1, FirstFrame DEF ChannelTypeOK
<1>4. FrameLength(sent[taken + 1]) \in Nat  BY <1>3, PayloadType
<1>5. stream' \in Seq(Cells) /\ Len(stream') = Len(stream)
  <2>1. Len(sent) \in (taken + 1)..Len(sent)  BY <1>2, <1>3
  <2>2. p \in 1..Len(stream)
    <3>1. off[Len(sent)] >= FrameLength(sent[taken + 1])  BY <1>3, <2>1
    <3>2. FrameLength(sent[taken + 1]) >= 2  BY <1>3, PayloadType
    <3> QED  BY <1>0, <1>1, <1>4, <3>1, <3>2
  <2> QED  BY <1>0, <2>2, ExceptSeq DEF ChannelTypeOK
<1>6. ChannelTypeOK'  BY <1>0, <1>5 DEF ChannelTypeOK
<1>7. ASSUME NEW k \in (taken + 1)..Len(sent), off[k - 1] + 1 <= Len(stream')
      PROVE  stream'[off[k - 1] + 1] \in HeadersOf(sent[k], k \in rekinded')
  <2>1. stream[off[k - 1] + 1] \in HeadersOf(sent[k], k \in rekinded)
    BY <1>5, <1>1, <1>7 DEF Aligned
  <2>0. HeadersOf(sent[k], k \in rekinded) \subseteq HeadersOf(sent[k], k \in rekinded')
    BY DEF HeadersOf, NamesOf
  <2>2. CASE k = taken + 1
    <3>1. off[k - 1] + 1 = 1  BY <1>2, <2>2
    <3>2. stream'[1] \in HeadersOf(sent[k], k \in rekinded')
      <4>1. 1 \in 1..Len(stream)  BY <1>0, EmptySeq DEF ChannelTypeOK
      <4>2. CASE p = 1
        <5>1. v \in HeadersOf(sent[k], k \in rekinded')  BY <2>2, <4>2
        <5>2. stream'[1] = v  BY <1>0, <4>1, <4>2, ExceptSeq DEF ChannelTypeOK
        <5> QED  BY <5>1, <5>2
      <4>3. CASE p # 1
        <5>1. stream'[1] = stream[1]  BY <1>0, <4>1, <4>3, ExceptSeq DEF ChannelTypeOK
        <5> QED  BY <2>0, <2>1, <3>1, <5>1
      <4> QED  BY <4>2, <4>3
    <3> QED  BY <3>1, <3>2
  <2>3. CASE k # taken + 1
    <3>1. k - 1 \in (taken + 1)..Len(sent)  BY <1>2, <2>3
    <3>2. off[k - 1] \in Int /\ off[k - 1] >= FrameLength(sent[taken + 1])  BY <1>3, <3>1
    <3>3. off[k - 1] + 1 \in 1..Len(stream)  BY <1>0, <1>5, <1>4, <1>7, <3>2
    <3>4. FrameLength(sent[taken + 1]) >= 2  BY <1>3, PayloadType
    <3>5. p # off[k - 1] + 1  BY <1>4, <3>2, <3>4
    <3>6. stream'[off[k - 1] + 1] = stream[off[k - 1] + 1]
      BY <1>0, <3>3, <3>5, ExceptSeq DEF ChannelTypeOK
    <3> QED  BY <2>0, <2>1, <3>6
  <2> QED  BY <2>2, <2>3
<1>8. Len(stream') <= off[Len(sent)]  BY <1>5, <1>2
<1>9. Aligned(off, taken', sent', stream', rekinded') /\ Len(stream') = off[Len(sent')]
  BY <1>5, <1>1, <1>7, <1>8, AlignedAltered
<1>10. AlignedInv'  BY <1>9 DEF AlignedInv
<1>11. ReceivedInv' /\ TakenInv'
  <2>1. \A k \in 1..taken : k \in rekinded' <=> k \in rekinded  BY <1>2
  <2> QED  BY <1>0, <2>1, HistoryKept
<1> QED  BY <1>6, <1>10, <1>11 DEF ChannelInv

(* Whatever is altered of the next frame, its header is where it was. *)
LEMMA AlterKeeps ==
    ASSUME ChannelInv, alter
    PROVE  ChannelInv'
<1> DEFINE h == stream[1]  m == sent[taken + 1]  b == taken + 1 \in rekinded
<1>0. /\ ChannelTypeOK /\ Live /\ status = "OPEN" /\ stream # <<>>
      /\ UNCHANGED <<sent, status, taken, received, rekinded>> /\ rekinded \subseteq Nat
  BY DEF ChannelInv, ChannelTypeOK, alter, Live
<1>1. PICK off : Aligned(off, taken, sent, stream, rekinded)
  BY <1>0 DEF ChannelInv, AlignedInv
<1>2. m \in Messages /\ h \in HeadersOf(m, b)
  BY <1>0, <1>1, FirstFrame DEF ChannelTypeOK
<1>3. HeadersOf(m, b) \subseteq Cells
  <2>1. HeadersOf(m, b) \subseteq HeadersOf(m, TRUE)  BY DEF HeadersOf, NamesOf
  <2> QED  BY <1>2, <2>1 DEF Cells
<1>4. /\ h.length \in Nat /\ h.length = Len(Payload(m)) /\ FrameLength(m) = 1 + h.length
      /\ IsWhole(h)
  BY <1>2 DEF HeadersOf, IsWhole, alter, FrameLength
<1>5. CASE stream' = [stream EXCEPT ![1].magic = FALSE]
  <2>1. [h EXCEPT !.magic = FALSE] \in HeadersOf(m, b)  BY <1>2, AlteredHeader
  <2>2. stream' = [stream EXCEPT ![1] = [h EXCEPT !.magic = FALSE]]  BY <1>5
  <2> HIDE DEF h
  <2> QED  BY <1>0, <1>3, <2>1, <2>2, CellAltered
<1>6. CASE stream' = [stream EXCEPT ![1].version = FALSE]
  <2>1. [h EXCEPT !.version = FALSE] \in HeadersOf(m, b)  BY <1>2, AlteredHeader
  <2>2. stream' = [stream EXCEPT ![1] = [h EXCEPT !.version = FALSE]]  BY <1>6
  <2> HIDE DEF h
  <2> QED  BY <1>0, <1>3, <2>1, <2>2, CellAltered
<1>7. ASSUME NEW d \in LengthErrors, stream[1].length + d >= 0,
             stream' = [stream EXCEPT ![1].length = @ + d]
      PROVE  ChannelInv'
  <2>1. d \in Int  BY StreamAssumption
  <2>2. [h EXCEPT !.length = @ + d] \in HeadersOf(m, b)  BY <1>2, <1>7, <2>1, AlteredHeader
  <2>3. stream' = [stream EXCEPT ![1] = [h EXCEPT !.length = @ + d]]  BY <1>7
  <2> HIDE DEF h
  <2> QED  BY <1>0, <1>3, <2>2, <2>3, CellAltered
<1>8. ASSUME NEW k \in GarbledCells, k < stream[1].length,
             stream' = [stream EXCEPT ![1 + stream[1].length - k] = Garbled]
      PROVE  ChannelInv'
  <2> DEFINE p == 1 + h.length - k
  <2>1. k \in Nat  BY StreamAssumption
  <2>2. p \in Nat /\ p >= 2 /\ p <= FrameLength(m)  BY <1>4, <1>8, <2>1
  <2>3. Garbled \in Cells  BY DEF Cells
  <2>4. stream' = [stream EXCEPT ![p] = Garbled]  BY <1>8
  <2> HIDE DEF p, h
  <2> QED  BY <1>0, <2>2, <2>3, <2>4, CellAltered
<1> QED  BY <1>5, <1>6, <1>7, <1>8 DEF alter

(* The frame of an altered kind is where it was, and noted. *)
LEMMA AlterKindKeeps ==
    ASSUME ChannelInv, NEW name \in AlteredKinds, alter_kind(name)
    PROVE  ChannelInv'
<1> DEFINE h == stream[1]  m == sent[taken + 1]
<1>0. /\ ChannelTypeOK /\ Live /\ status = "OPEN" /\ stream # <<>>
      /\ UNCHANGED <<sent, status, taken, received>> /\ rekinded' = rekinded \cup {taken + 1}
      /\ stream' = [stream EXCEPT ![1] = [h EXCEPT !.name = name]]
  BY DEF ChannelInv, alter_kind, Live
<1>1. PICK off : Aligned(off, taken, sent, stream, rekinded)
  BY <1>0 DEF ChannelInv, AlignedInv
<1>2. m \in Messages /\ h \in HeadersOf(m, taken + 1 \in rekinded)
  BY <1>0, <1>1, FirstFrame DEF ChannelTypeOK
<1>3. [h EXCEPT !.name = name] \in HeadersOf(m, TRUE)  BY <1>2 DEF HeadersOf, NamesOf
<1>4. HeadersOf(m, TRUE) \subseteq Cells  BY <1>2 DEF Cells
<1>5. taken + 1 \in rekinded' /\ rekinded' \subseteq Nat  BY <1>0 DEF ChannelTypeOK
<1>6. [h EXCEPT !.name = name] \in HeadersOf(m, taken + 1 \in rekinded')
  <2>1. (taken + 1 \in rekinded') = TRUE  BY <1>5
  <2> QED  BY <1>3, <2>1
<1> HIDE DEF h
<1> QED  BY <1>0, <1>3, <1>4, <1>5, <1>6, CellAltered

(* A part of a sequence of cells is a sequence of cells. *)
LEMMA CellsBetween ==
    ASSUME NEW c \in Seq(Cells), NEW m \in Int, NEW n \in Int, 1 <= m, n <= Len(c)
    PROVE  /\ SubSeq(c, m, n) \in Seq(Cells)
           /\ Len(SubSeq(c, m, n)) = IF m <= n THEN n - m + 1 ELSE 0
           /\ \A i \in 1..(n - m + 1) : SubSeq(c, m, n)[i] = c[m + i - 1]
<1>1. \A i \in m..n : c[i] \in Cells  BY ElementOfSeq
<1> QED  BY <1>1, SubSeqProperties

(* Taking the first frame whole leaves the others aligned. *)
LEMMA AlignedTake ==
    ASSUME NEW s \in Seq(Messages), NEW c \in Seq(Cells), NEW t \in Nat, t <= Len(s),
           NEW off, NEW w, Aligned(off, t, s, c, w), c # <<>>,
           NEW l \in Nat, l = FrameLength(s[t + 1]), l <= Len(c)
    PROVE  LET d == SubSeq(c, l + 1, Len(c)) IN
           /\ d \in Seq(Cells)
           /\ \E new : /\ Aligned(new, t + 1, s, d, w)
                       /\ Len(c) = off[Len(s)] => Len(d) = new[Len(s)]
<1> DEFINE n == Len(s)  d == SubSeq(c, l + 1, Len(c))
           new == [k \in (t + 1)..n |-> off[k] - l]
<1>0. Len(c) \in Nat /\ n \in Nat  OBVIOUS
<1>1. /\ t + 1 \in 1..n /\ off[t + 1] = l
      /\ \A k \in (t + 1)..n : off[k] \in Int /\ off[k] >= l
  BY FirstFrame
<1>2. /\ off \in [t..n -> Int]
      /\ \A k \in (t + 1)..n : off[k] = off[k - 1] + FrameLength(s[k])
      /\ \A j, k \in t..n : j <= k => off[j] <= off[k]
      /\ Len(c) <= off[n]
      /\ \A k \in (t + 1)..n :
             off[k - 1] + 1 <= Len(c) => c[off[k - 1] + 1] \in HeadersOf(s[k], k \in w)
  BY DEF Aligned
<1>3. /\ d \in Seq(Cells) /\ Len(d) = Len(c) - l
      /\ \A i \in 1..Len(d) : d[i] = c[l + i]
  <2>2. l + 1 \in Int /\ Len(c) \in Int /\ 1 <= l + 1 /\ Len(c) <= Len(c)  BY <1>0
  <2>3. /\ d \in Seq(Cells)
        /\ Len(d) = IF l + 1 <= Len(c) THEN Len(c) - (l + 1) + 1 ELSE 0
        /\ \A i \in 1..(Len(c) - (l + 1) + 1) : d[i] = c[(l + 1) + i - 1]
    BY <2>2, CellsBetween
  <2> HIDE DEF d
  <2>4. Len(d) = Len(c) - l  BY <1>0, <2>3
  <2>5. \A i \in 1..Len(d) : d[i] = c[(l + 1) + i - 1] /\ (l + 1) + i - 1 = l + i
    BY <1>0, <2>3, <2>4
  <2> QED  BY <2>3, <2>4, <2>5
<1>4. n \in (t + 1)..n /\ t + 1 \in (t + 1)..n  BY <1>0, <1>1
<1>5. /\ new \in [(t + 1)..n -> Int]
      /\ \A k \in (t + 1)..n : new[k] = off[k] - l
  BY <1>1
<1> HIDE DEF new, d, n
<1>6. new[t + 1] = 0  BY <1>1, <1>4, <1>5
<1>7. ASSUME NEW k \in ((t + 1) + 1)..n
      PROVE  new[k] = new[k - 1] + FrameLength(s[k])
  <2>1. k \in (t + 1)..n /\ k - 1 \in (t + 1)..n /\ k \in 1..n  BY <1>0
  <2>2. off[k] = off[k - 1] + FrameLength(s[k]) /\ off[k - 1] \in Int  BY <1>1, <1>2, <2>1
  <2>3. FrameLength(s[k]) \in Nat  BY <2>1, PayloadType, ElementOfSeq DEF n
  <2>4. new[k] = off[k] - l /\ new[k - 1] = off[k - 1] - l  BY <1>5, <2>1
  <2> QED  BY <2>2, <2>3, <2>4
<1>8. ASSUME NEW j \in (t + 1)..n, NEW k \in (t + 1)..n, j <= k
      PROVE  new[j] <= new[k]
  <2>1. j \in t..n /\ k \in t..n  BY <1>0
  <2>2. off[j] <= off[k] /\ off[j] \in Int /\ off[k] \in Int  BY <1>1, <1>2, <1>8, <2>1
  <2>3. new[j] = off[j] - l /\ new[k] = off[k] - l  BY <1>5
  <2> QED  BY <2>2, <2>3
<1>9. /\ Len(d) <= new[n]
      /\ Len(c) = off[n] => Len(d) = new[n]
  <2>1. new[n] = off[n] - l /\ off[n] \in Int  BY <1>1, <1>4, <1>5
  <2> QED  BY <1>0, <1>2, <1>3, <2>1
<1>10. ASSUME NEW k \in ((t + 1) + 1)..n, new[k - 1] + 1 <= Len(d)
       PROVE  d[new[k - 1] + 1] \in HeadersOf(s[k], k \in w)
  <2>1. k \in (t + 1)..n /\ k - 1 \in (t + 1)..n  BY <1>0
  <2>2. new[k - 1] = off[k - 1] - l /\ off[k - 1] \in Int /\ off[k - 1] >= l
    BY <1>1, <1>5, <2>1
  <2>3. new[k - 1] + 1 \in 1..Len(d) /\ l + (new[k - 1] + 1) = off[k - 1] + 1
    BY <1>0, <1>3, <1>10, <2>2
  <2>4. off[k - 1] + 1 <= Len(c)  BY <1>0, <1>3, <2>2, <2>3
  <2>5. c[off[k - 1] + 1] \in HeadersOf(s[k], k \in w)  BY <1>2, <2>1, <2>4
  <2>6. d[new[k - 1] + 1] = c[l + (new[k - 1] + 1)]  BY <1>3, <2>3
  <2> QED  BY <2>3, <2>5, <2>6
<1>11. Aligned(new, t + 1, s, d, w)
  BY <1>5, <1>6, <1>7, <1>8, <1>9, <1>10 DEF Aligned, n
<1> QED  BY <1>3, <1>9, <1>11 DEF d, n

(* A receiver that gives up keeps what it has; nobody reads on. *)
LEMMA ClosingKeeps ==
    ASSUME ChannelInv, status' = "CLOSED", sent' = sent, received' = received,
           rekinded' = rekinded,
           stream' \in Seq(Cells), taken' \in Nat, taken <= taken', taken' <= Len(sent)
    PROVE  ChannelInv'
<1>1. ChannelTypeOK'  BY DEF ChannelInv, ChannelTypeOK
<1>2. ~Live'  BY DEF Live
<1>3. AlignedInv' /\ TakenInv'  BY <1>2 DEF AlignedInv, TakenInv
<1>4. ReceivedInv'
  <2>1. \A k \in 1..taken : k \in 1..taken'  BY DEF ChannelInv, ChannelTypeOK
  <2> QED  BY <2>1 DEF ChannelInv, ReceivedInv
<1> QED  BY <1>1, <1>3, <1>4 DEF ChannelInv

(* The part of a stream behind a frame is one of cells again. *)
LEMMA RestIsCells ==
    ASSUME NEW c \in Seq(Cells), NEW l \in Nat, l <= Len(c)
    PROVE  SubSeq(c, l + 1, Len(c)) \in Seq(Cells)
<1>1. l + 1 \in Int /\ Len(c) \in Int /\ 1 <= l + 1 /\ Len(c) <= Len(c)  OBVIOUS
<1> QED  BY <1>1, CellsBetween, Zenon

(* What the receiver may keep of a message. *)
LEMMA DeliveryType ==
    ASSUME NEW m \in Messages, NEW name \in NamesOf(m, TRUE), NEW k \in Nat
    PROVE  Delivery(name, m, k) \in Deliveries
<1>1. Delivery(name, m, k) \in DeliveriesOf(m)  BY DEF DeliveriesOf, NamesOf
<1> QED  BY <1>1 DEF Deliveries

(* What is received next to what was: the reading of the frame just taken. *)
LEMMA ReceivedNext ==
    ASSUME ChannelInv, Live, taken + 1 <= Len(sent), sent' = sent, taken' = taken + 1,
           rekinded' = rekinded,
           NEW name \in NamesOf(sent[taken + 1], taken + 1 \in rekinded),
           received' = IF Parse(name, Payload(sent[taken + 1])) = Unreadable THEN received
                       ELSE Append(received, Delivery(name, sent[taken + 1], taken + 1))
    PROVE  received' \in Seq(Deliveries) /\ ReceivedInv' /\ TakenInv'
<1> DEFINE m == sent[taken + 1]  n == Len(received)  object == Parse(name, Payload(m))
<1>0. /\ received \in Seq(Deliveries) /\ n \in Nat /\ taken \in Nat
      /\ sent \in Seq(Messages) /\ DOMAIN received = 1..n
  BY DEF ChannelInv, ChannelTypeOK
<1>1. m \in Messages /\ taken + 1 \in Nat /\ taken + 1 \in 1..taken'
  <2>1. taken + 1 \in 1..Len(sent)  BY <1>0
  <2> QED  BY <1>0, <2>1, ElementOfSeq
<1>2. \A k \in 1..taken : k \in 1..taken'  BY <1>0
<1>3. /\ \A i \in 1..n : /\ received[i].at \in 1..taken
                         /\ received[i].name \in
                                NamesOf(sent[received[i].at], received[i].at \in rekinded)
                         /\ received[i] = Delivery(received[i].name, sent[received[i].at],
                                                   received[i].at)
                         /\ received[i].object # Unreadable
      /\ \A i, j \in 1..n : i < j => received[i].at < received[j].at
      /\ \A k \in (1..taken) \ rekinded : Reading(sent[k]) # Unreadable =>
                                              \E i \in 1..n : received[i].at = k
  BY <1>0 DEF ChannelInv, ReceivedInv, TakenInv
<1>r. taken + 1 \notin rekinded => Reading(m) = object  BY DEF NamesOf, Reading
<1>4. CASE object = Unreadable
  <2>1. received' = received  BY <1>4
  <2>2. ReceivedInv'  BY <1>0, <1>2, <1>3, <2>1 DEF ReceivedInv
  <2>3. ASSUME NEW k \in (1..taken') \ rekinded, Reading(sent[k]) # Unreadable
        PROVE  \E i \in DOMAIN received' : received'[i].at = k
    <3>1. k # taken + 1  BY <1>4, <1>r, <2>3
    <3>2. k \in (1..taken) \ rekinded  BY <1>0, <3>1
    <3> QED  BY <1>0, <1>3, <2>1, <2>3, <3>2
  <2>4. TakenInv'  BY <2>3 DEF TakenInv, Reading
  <2> QED  BY <1>0, <2>1, <2>2, <2>4
<1>5. CASE object # Unreadable
  <2> DEFINE e == Delivery(name, m, taken + 1)
  <2>1. received' = Append(received, e)  BY <1>5
  <2>2. e \in Deliveries
    <3>1. name \in NamesOf(m, TRUE)  BY DEF NamesOf
    <3> QED  BY <1>1, <3>1, DeliveryType
  <2>3. e.at = taken + 1 /\ e.name = name /\ e.object = object  BY DEF Delivery
  <2> HIDE DEF e
  <2>4. /\ received' \in Seq(Deliveries) /\ DOMAIN received' = 1..(n + 1)
        /\ \A i \in 1..n : received'[i] = received[i]
        /\ received'[n + 1] = e
    BY <1>0, <2>1, <2>2, AppendProperties
  <2>5. \A i \in 1..(n + 1) : i \in 1..n \/ i = n + 1  BY <1>0
  <2>6. ASSUME NEW i \in 1..(n + 1)
        PROVE  /\ received'[i].at \in 1..taken'
               /\ received'[i].name \in
                      NamesOf(sent[received'[i].at], received'[i].at \in rekinded)
               /\ received'[i] = Delivery(received'[i].name, sent[received'[i].at],
                                          received'[i].at)
               /\ received'[i].object # Unreadable
    <3>1. CASE i \in 1..n  BY <1>2, <1>3, <2>4, <3>1
    <3>2. CASE i = n + 1  BY <1>1, <1>5, <2>3, <2>4, <3>2 DEF e
    <3> QED  BY <2>5, <3>1, <3>2
  <2>7. ASSUME NEW i \in 1..(n + 1), NEW j \in 1..(n + 1), i < j
        PROVE  received'[i].at < received'[j].at
    <3>1. i \in 1..n  BY <1>0, <2>7
    <3>2. CASE j \in 1..n  BY <1>3, <2>4, <2>7, <3>1, <3>2
    <3>3. CASE j = n + 1
      <4>1. received[i].at \in 1..taken /\ received'[i].at = received[i].at  BY <1>3, <2>4, <3>1
      <4>2. received'[j].at = taken + 1  BY <2>3, <2>4, <3>3
      <4> QED  BY <1>0, <4>1, <4>2
    <3> QED  BY <2>5, <3>2, <3>3
  <2>8. ASSUME NEW k \in (1..taken') \ rekinded, Reading(sent[k]) # Unreadable
        PROVE  \E i \in 1..(n + 1) : received'[i].at = k
    <3>1. CASE k = taken + 1
      <4>1. n + 1 \in 1..(n + 1)  BY <1>0
      <4> QED  BY <2>3, <2>4, <3>1, <4>1
    <3>2. CASE k # taken + 1
      <4>1. k \in (1..taken) \ rekinded  BY <1>0, <3>2
      <4>2. PICK i \in 1..n : received[i].at = k  BY <1>3, <2>8, <4>1
      <4>3. i \in 1..(n + 1)  BY <1>0
      <4> QED  BY <2>4, <4>2, <4>3
    <3> QED  BY <3>1, <3>2
  <2>9. ReceivedInv'  BY <2>4, <2>6, <2>7 DEF ReceivedInv, Delivery, NamesOf
  <2>10. TakenInv'  BY <2>4, <2>8 DEF TakenInv, Reading
  <2> QED  BY <2>4, <2>9, <2>10
<1> QED  BY <1>4, <1>5

(* The receiver takes the frame that is next, or gives up: a frame whose length  *)
(* was altered, and which it would cut elsewhere, does not match its checksum.   *)
LEMMA ReceiveKeeps ==
    ASSUME ChannelInv, receive
    PROVE  ChannelInv'
<1>0. ChannelTypeOK /\ Live /\ sent' = sent /\ rekinded' = rekinded
  BY DEF ChannelInv, receive, Live
<1>1. /\ sent \in Seq(Messages) /\ stream \in Seq(Cells) /\ taken \in Nat /\ taken <= Len(sent)
      /\ Len(stream) \in Nat /\ Len(sent) \in Nat
  BY <1>0 DEF ChannelTypeOK
<1>2. CASE stream = <<>> \/ Len(stream) < 1 + stream[1].length
  <2>1. status' = "CLOSED" /\ UNCHANGED <<stream, taken, received>>
    BY <1>2 DEF receive
  <2> QED  BY <1>0, <1>1, <2>1, ClosingKeeps
<1>3. CASE ~(stream = <<>> \/ Len(stream) < 1 + stream[1].length)
  <2> DEFINE h == stream[1]  m == sent[taken + 1]  l == 1 + h.length
             payload == SubSeq(stream, 2, 1 + h.length)
  <2>1. PICK off : /\ Aligned(off, taken, sent, stream, rekinded)
                   /\ status = "OPEN" => Len(stream) = off[Len(sent)]
    BY <1>0 DEF ChannelInv, AlignedInv
  <2>2. taken + 1 \in 1..Len(sent) /\ m \in Messages /\ h \in HeadersOf(m, taken + 1 \in rekinded)
    BY <1>1, <1>3, <2>1, FirstFrame
  <2>3. /\ h.length \in Nat /\ h.crc = Payload(m)
        /\ h.name \in NamesOf(m, taken + 1 \in rekinded)
    BY <2>2 DEF HeadersOf
  <2>4. l \in Nat /\ l <= Len(stream) /\ 2 + h.length = l + 1  BY <1>1, <1>3, <2>3
  <2>5. stream' = SubSeq(stream, l + 1, Len(stream)) /\ taken' = taken + 1
    BY <1>3, <2>4 DEF receive
  <2>6. taken + 1 \in Nat /\ taken <= taken + 1 /\ taken + 1 <= Len(sent)  BY <1>1, <2>2
  <2>7. CASE ~decode_frame(h, payload)
    <3>1. status' = "CLOSED" /\ received' = received  BY <1>3, <2>7 DEF receive
    <3>2. stream' \in Seq(Cells)  BY <1>1, <2>4, <2>5, RestIsCells
    <3> QED  BY <1>0, <2>5, <2>6, <3>1, <3>2, ClosingKeeps
  <2>8. CASE decode_frame(h, payload)
    <3>1. payload = Payload(m) /\ Len(payload) = h.length  BY <2>3, <2>8 DEF decode_frame
    <3>2. l = FrameLength(m)  BY <3>1 DEF FrameLength
    <3>4. /\ status' = status
          /\ received' = IF Parse(h.name, Payload(m)) = Unreadable THEN received
                         ELSE Append(received, Delivery(h.name, m, taken + 1))
      <4>1. /\ status' = status
            /\ received' = IF Parse(h.name, payload) = Unreadable THEN received
                           ELSE Append(received, [name |-> h.name,
                                    object |-> Parse(h.name, payload), at |-> taken + 1])
        BY <1>3, <2>8 DEF receive
      <4> QED  BY <3>1, <4>1 DEF Delivery
    <3> HIDE DEF h, m, l, payload
    <3>5. /\ SubSeq(stream, l + 1, Len(stream)) \in Seq(Cells)
          /\ \E new : /\ Aligned(new, taken + 1, sent, SubSeq(stream, l + 1, Len(stream)), rekinded)
                      /\ Len(stream) = off[Len(sent)] =>
                             Len(SubSeq(stream, l + 1, Len(stream))) = new[Len(sent)]
      <4>1. stream # <<>> /\ l = FrameLength(sent[taken + 1])  BY <1>3, <3>2 DEF m
      <4>2. Aligned(off, taken, sent, stream, rekinded)  BY <2>1
      <4> QED  BY <1>1, <2>4, <4>1, <4>2, AlignedTake
    <3>6. PICK new : /\ Aligned(new, taken', sent', stream', rekinded')
                     /\ Len(stream) = off[Len(sent)] => Len(stream') = new[Len(sent')]
      BY <1>0, <2>5, <3>5
    <3>7. AlignedInv'  BY <2>1, <3>4, <3>6 DEF AlignedInv
    <3>8. received' \in Seq(Deliveries) /\ ReceivedInv' /\ TakenInv'
      BY <1>0, <2>3, <2>5, <2>6, <3>4, ReceivedNext DEF m
    <3>9. ChannelTypeOK'
      BY <1>0, <2>5, <2>6, <3>4, <3>5, <3>8 DEF ChannelTypeOK
    <3> QED  BY <3>7, <3>8, <3>9 DEF ChannelInv
  <2> QED  BY <2>7, <2>8
<1> QED  BY <1>2, <1>3

(* The invariant is inductive: sending, breaking, altering and receiving keep it. *)
LEMMA ChannelInvStep == ChannelInv /\ [ChannelNext]_channel_vars => ChannelInv'
<1> SUFFICES ASSUME ChannelInv, [ChannelNext]_channel_vars PROVE ChannelInv'
  OBVIOUS
<1>1. ASSUME NEW m \in Messages, send(m) PROVE ChannelInv'  BY <1>1, SendKeeps
<1>2. ASSUME NEW n \in LostTails, break(n) PROVE ChannelInv'  BY <1>2, BreakKeeps
<1>3. CASE alter  BY <1>3, AlterKeeps
<1>4. CASE receive  BY <1>4, ReceiveKeeps
<1>5. ASSUME NEW name \in AlteredKinds, alter_kind(name) PROVE ChannelInv'
  BY <1>5, AlterKindKeeps
<1>6. CASE UNCHANGED channel_vars
  BY <1>6 DEF channel_vars, ChannelInv, ChannelTypeOK, AlignedInv, ReceivedInv, TakenInv,
              Live, Aligned
<1> QED  BY <1>1, <1>2, <1>3, <1>4, <1>5, <1>6 DEF ChannelNext

(* FrameChannel: as long as anybody reads, the cells under way are the frames    *)
(* of the messages that were sent and not yet taken, each header where its frame *)
(* begins, and what was received is the reading of what was sent.                *)
THEOREM ChannelStaysAligned == ChannelSpec => []ChannelInv
<1>1. ChannelInit => ChannelInv  BY ChannelInvInit
<1>2. ChannelInv /\ [ChannelNext]_channel_vars => ChannelInv'  BY ChannelInvStep
<1> QED  BY <1>1, <1>2, PTL DEF ChannelSpec

(* Messages whose readers get what they should from their cells arrive only as  *)
(* they were sent.                                                               *)
LEMMA InvDelivers == CodecRoundTrips /\ ChannelInv => DeliveredAsSent
<1> SUFFICES ASSUME CodecRoundTrips, ChannelInv PROVE DeliveredAsSent
  OBVIOUS
<1>1. /\ sent \in Seq(Messages) /\ Len(sent) \in Nat /\ taken \in Nat /\ taken <= Len(sent)
      /\ DOMAIN sent = 1..Len(sent)
  BY DEF ChannelInv, ChannelTypeOK
<1>2. ASSUME NEW i \in DOMAIN received
      PROVE  LET r == received[i] IN
             /\ r.at \in DOMAIN sent
             /\ r.at \notin rekinded =>
                    r.name = sent[r.at].name /\ Arrives(sent[r.at], r.object)
  <2> DEFINE k == received[i].at
  <2>1. /\ k \in 1..taken /\ received[i].name \in NamesOf(sent[k], k \in rekinded)
        /\ received[i] = Delivery(received[i].name, sent[k], k)
        /\ received[i].object # Unreadable
    BY DEF ChannelInv, ReceivedInv
  <2>2. k \in 1..Len(sent)  BY <1>1, <2>1
  <2>3. sent[k] \in Range(sent)  BY <1>1, <2>2 DEF Range
  <2>4. k \notin rekinded => received[i].name = sent[k].name  BY <2>1 DEF NamesOf
  <2>5. received[i].object = Parse(received[i].name, Payload(sent[k]))  BY <2>1 DEF Delivery
  <2>6. k \notin rekinded => Arrives(sent[k], received[i].object)
    BY <2>1, <2>3, <2>4, <2>5 DEF CodecRoundTrips
  <2> QED  BY <1>1, <2>2, <2>4, <2>6
<1>3. \A i, j \in DOMAIN received : i < j => received[i].at < received[j].at
  BY DEF ChannelInv, ReceivedInv
<1> QED  BY <1>2, <1>3 DEF DeliveredAsSent

(* FrameChannel::send, receive, whatever is lost or altered on the way: if      *)
(* what is sent can be read back, every message that is decoded is the one sent  *)
(* in its place, in the order of sending and at most once; only one whose own    *)
(* kind was altered may be decoded as another.                                   *)
THEOREM ChannelDeliversAsSent == ChannelSpec /\ []CodecRoundTrips => []DeliveredAsSent
<1>1. CodecRoundTrips /\ ChannelInv => DeliveredAsSent  BY InvDelivers
<1> QED  BY <1>1, ChannelStaysAligned, PTL

(* On an open channel nothing that fits the caps of its reader was skipped. *)
LEMMA InvDecodes == CodecRoundTrips /\ ChannelInv => TakenIsDecoded
<1> SUFFICES ASSUME CodecRoundTrips, ChannelInv, status = "OPEN",
                    NEW k \in (1..taken) \ rekinded, Fits(sent[k])
             PROVE  \E r \in Range(received) : r.at = k
  BY DEF TakenIsDecoded
<1>1. sent \in Seq(Messages) /\ k \in 1..Len(sent) /\ DOMAIN sent = 1..Len(sent)
  BY DEF ChannelInv, ChannelTypeOK
<1>2. sent[k] \in Range(sent)  BY <1>1 DEF Range
<1>3. Reading(sent[k]) # Unreadable  BY <1>2 DEF CodecRoundTrips, Reading
<1>4. Live  BY DEF Live
<1>5. PICK i \in DOMAIN received : received[i].at = k
  BY <1>3, <1>4 DEF ChannelInv, TakenInv
<1>6. received[i] \in Range(received)  BY DEF Range
<1> QED  BY <1>5, <1>6

(* FrameChannel::receive: if what is sent can be read back, every frame taken    *)
(* while the connection stays up is decoded, unless it exceeds a cap of its      *)
(* reader or the kind in its own header was altered.                             *)
THEOREM ChannelDecodesTaken == ChannelSpec /\ []CodecRoundTrips => []TakenIsDecoded
<1>1. CodecRoundTrips /\ ChannelInv => TakenIsDecoded  BY InvDecodes
<1> QED  BY <1>1, ChannelStaysAligned, PTL
=============================================================================
