---------------------------- MODULE FramingProofs -----------------------------
(***************************************************************************)
(* Proofs about the binary messages for every set of kinds, every length   *)
(* of data, any number of messages and whatever misplaced bytes announce:  *)
(* the variables keep their types, a Read takes no byte of the message     *)
(* after its own, and it returns the next message in full as long as no    *)
(* read is short.                                                          *)
(***************************************************************************)
EXTENDS Framing, SequenceTheorems, TLAPS

(* What is recorded of a message written. *)
Record ==
  {m \in [kind : Kind, data : Nat, begin : Nat] :
     [kind |-> m.kind, data |-> m.data] \in Message}

(* The first byte after the i-th message. *)
End(msgs, i) == msgs[i].begin + Size(msgs[i])

TypeInv ==
  /\ sent \in Seq(Record) /\ Len(sent) <= MaxFrames
  /\ written \in Nat /\ read \in 0 .. written
  /\ closed \in BOOLEAN
  /\ reader \in [at : {"idle", "payload", "failed"}, asked : Kind \cup {"none"},
                 count : Nat, length : Nat]
  /\ reader.count <= HeaderBytes
  /\ intact \in BOOLEAN
  /\ returned \in Nat
  /\ last \in [asked : Kind \cup {"none"}, frame : Nat, count : Nat]

(* The messages fill the stream, one after the other. *)
StreamInv ==
  /\ \A i \in 1 .. Len(sent) : sent[i].begin = IF i = 1 THEN 0 ELSE End(sent, i - 1)
  /\ \A i, j \in 1 .. Len(sent) : i < j => End(sent, i) <= sent[j].begin
  /\ written = IF Len(sent) = 0 THEN 0 ELSE End(sent, Len(sent))

(* While nothing was short the next byte is the one after the message that the *)
(* last Read returned.                                                         *)
IdleInv ==
  reader.at = "idle" /\ intact =>
    returned <= Len(sent) /\ read = IF returned = 0 THEN 0 ELSE End(sent, returned)

(* A Read that waits for a body, and began where a message does, was announced no *)
(* more than there is of that message.                                            *)
PayloadInv ==
  reader.at = "payload" =>
    /\ reader.asked \in Kind /\ reader.count > 0 /\ reader.length > 0
    /\ \A i \in 1 .. Len(sent) :
         sent[i].begin = read - reader.count => reader.count + reader.length <= Size(sent[i])
    /\ intact =>
         /\ returned + 1 \in 1 .. Len(sent) /\ sent[returned + 1].begin = read - reader.count
         /\ reader.count + reader.length = Size(sent[returned + 1])

LastInv == last.asked # "none" => last.frame \in 1 .. Len(sent)

IInv == TypeInv /\ StreamInv /\ IdleInv /\ PayloadInv /\ LastInv /\ StaysInMessage /\ ReadInOrder

-------------------------------------------------------------------------------
(* Lengths and places. *)

(* The length in the header is that of the body, for every message. *)
LEMMA LengthsAgree ==
  ASSUME NEW m, m.kind \in Kind, m.data \in Nat
  PROVE  /\ Length(m) \in Nat /\ Body(m) = Length(m)
         /\ Size(m) \in Nat /\ Size(m) = HeaderBytes + Length(m)
<1>1. Length(m) \in Nat /\ Body(m) = Length(m)
  BY FramingAssumption DEF Length, Body
<1>2. QED  BY <1>1 DEF Size, HeaderBytes

(* Every message written has a length and a place. *)
LEMMA Written ==
  ASSUME TypeInv
  PROVE  /\ DOMAIN sent = 1 .. Len(sent) /\ Len(sent) \in Nat
         /\ \A i \in 1 .. Len(sent) :
              /\ sent[i].kind \in Kind /\ sent[i].begin \in Nat
              /\ Length(sent[i]) \in Nat /\ Size(sent[i]) \in Nat
              /\ Size(sent[i]) = HeaderBytes + Length(sent[i])
              /\ End(sent, i) \in Nat /\ End(sent, i) = sent[i].begin + Size(sent[i])
<1>1. DOMAIN sent = 1 .. Len(sent) /\ Len(sent) \in Nat
  BY LenProperties DEF TypeInv
<1>2. ASSUME NEW i \in 1 .. Len(sent)
      PROVE  sent[i].kind \in Kind /\ sent[i].data \in Nat /\ sent[i].begin \in Nat
  <2>1. sent[i] \in Record
    BY <1>2, ElementOfSeq DEF TypeInv
  <2>2. QED  BY <2>1 DEF Record
<1>3. ASSUME NEW i \in 1 .. Len(sent)
      PROVE  /\ Length(sent[i]) \in Nat /\ Size(sent[i]) \in Nat
             /\ Size(sent[i]) = HeaderBytes + Length(sent[i])
  BY <1>2, <1>3, LengthsAgree
<1>4. QED  BY <1>1, <1>2, <1>3 DEF End

(* What is left of a length is no more than the length. *)
LEMMA KeptBound ==
  ASSUME NEW length \in Nat, NEW n \in Nat
  PROVE  Kept(length, n) \in 0 .. length /\ Kept(length, 24) = length
<1>1. /\ length % 256 \in 0 .. length /\ length % 65536 \in 0 .. length
      /\ length % 16777216 \in 0 .. length
  OBVIOUS
<1>2. QED  BY <1>1 DEF Kept

(* At most one message begins at a byte. *)
LEMMA Unique ==
  ASSUME TypeInv, StreamInv, NEW i \in 1 .. Len(sent), NEW j \in 1 .. Len(sent),
         sent[i].begin = sent[j].begin
  PROVE  i = j
<1>1. End(sent, i) > sent[i].begin /\ End(sent, j) > sent[j].begin
  BY Written DEF HeaderBytes
<1>2. ~ i < j /\ ~ j < i
  BY <1>1, Written DEF StreamInv
<1>3. QED  BY <1>2, Written

(* While nothing was short the next message begins with the next byte. *)
LEMMA NextBegins ==
  ASSUME IInv, intact, reader.at = "idle", read < written
  PROVE  returned + 1 \in 1 .. Len(sent) /\ sent[returned + 1].begin = read
<1>1. /\ returned \in Nat /\ returned <= Len(sent) /\ Len(sent) \in Nat
      /\ read = IF returned = 0 THEN 0 ELSE End(sent, returned)
  BY Written DEF IInv, IdleInv, TypeInv
<1>2. returned # Len(sent)
  BY <1>1, Written DEF IInv, StreamInv, TypeInv
<1>3. returned + 1 \in 1 .. Len(sent)
  BY <1>1, <1>2
<1>4. ASSUME NEW i \in 1 .. Len(sent), i = returned + 1
      PROVE  sent[i].begin = read
  <2>1. i - 1 = returned /\ (i = 1 <=> returned = 0)
    BY <1>1, <1>4
  <2>2. sent[i].begin = IF i = 1 THEN 0 ELSE End(sent, i - 1)
    BY DEF IInv, StreamInv
  <2>3. QED  BY <1>1, <2>1, <2>2
<1>5. QED  BY <1>3, <1>4

(* The messages that begin at a byte, by the number of the message. *)
LEMMA Beginning ==
  ASSUME TypeInv, NEW byte
  PROVE  /\ BeginAt(byte) = {i \in 1 .. Len(sent) : sent[i].begin = byte}
  BY Written DEF BeginAt

(* The Read that returns began where a message does, or nothing is known of it. *)
LEMMA Returned ==
  ASSUME TypeInv, StreamInv, NEW kind \in Kind, NEW count \in Nat, UNCHANGED sent,
         read' \in Int, Return(kind, count)
  PROVE  /\ reader' = Waiting
         /\ returned' = IF intact' THEN returned + 1 ELSE returned
         /\ last' \in [asked : Kind \cup {"none"}, frame : Nat, count : Nat]
         /\ last'.asked # "none" =>
              /\ last'.frame \in 1 .. Len(sent) /\ sent[last'.frame].begin = read' - count
              /\ last'.count = count
<1> DEFINE set == BeginAt(read' - count)
           pick == CHOOSE i \in set : TRUE
<1>1. /\ reader' = Waiting
      /\ returned' = IF intact' THEN returned + 1 ELSE returned
      /\ last' = IF set = {} THEN Nothing ELSE [asked |-> kind, frame |-> pick, count |-> count]
  BY DEF Return
<1>2. set = {i \in 1 .. Len(sent) : sent[i].begin = read' - count}
  BY Beginning
<1> HIDE DEF set
<1>3. CASE set = {}
  BY <1>1, <1>3 DEF Nothing
<1>4. CASE set # {}
  <2>1. pick \in set
    BY <1>4
  <2> HIDE DEF pick
  <2>2. pick \in 1 .. Len(sent) /\ sent[pick].begin = read' - count /\ pick \in Nat
    BY <1>2, <2>1, Written
  <2>3. last' = [asked |-> kind, frame |-> pick, count |-> count]
    BY <1>1, <1>4
  <2>4. QED  BY <1>1, <2>2, <2>3
<1>5. QED  BY <1>3, <1>4

-------------------------------------------------------------------------------
(* The invariant implies the properties, and every step keeps it. *)

LEMMA Strong == IInv => TypeOK /\ StaysInMessage /\ ReadInOrder
<1> SUFFICES ASSUME IInv PROVE TypeOK /\ StaysInMessage /\ ReadInOrder
  OBVIOUS
<1>1. \A i \in DOMAIN sent : [kind |-> sent[i].kind, data |-> sent[i].data] \in Message
  <2>1. ASSUME NEW i \in 1 .. Len(sent)
        PROVE  [kind |-> sent[i].kind, data |-> sent[i].data] \in Message
    <3>1. sent[i] \in Record
      BY ElementOfSeq DEF IInv, TypeInv
    <3>2. QED  BY <3>1 DEF Record
  <2>2. QED  BY <2>1, Written DEF IInv
<1>2. TypeOK
  BY <1>1 DEF IInv, TypeInv, PayloadInv, TypeOK
<1>3. QED  BY <1>2 DEF IInv

(* Nothing has been written or read at the start. *)
LEMMA Initially == Init => IInv
<1> SUFFICES ASSUME Init PROVE IInv
  OBVIOUS
<1>1. sent = <<>> /\ Len(sent) = 0 /\ sent \in Seq(Record) /\ 0 <= MaxFrames
  BY EmptySeq, FramingAssumption DEF Init
<1>2. TypeInv
  <2>1. reader \in [at : {"idle", "payload", "failed"}, asked : Kind \cup {"none"},
                    count : Nat, length : Nat] /\ reader.count <= HeaderBytes
    BY DEF Init, Waiting, HeaderBytes
  <2>2. last \in [asked : Kind \cup {"none"}, frame : Nat, count : Nat]
    BY DEF Init, Nothing
  <2>3. written \in Nat /\ read \in 0 .. written /\ returned \in Nat
    BY DEF Init
  <2>4. closed \in BOOLEAN /\ intact \in BOOLEAN
    BY Zenon DEF Init
  <2>5. QED  BY <1>1, <2>1, <2>2, <2>3, <2>4 DEF TypeInv
<1>3. StreamInv /\ IdleInv /\ PayloadInv /\ LastInv /\ StaysInMessage /\ ReadInOrder
  BY <1>1 DEF Init, StreamInv, IdleInv, PayloadInv, LastInv, StaysInMessage, ReadInOrder,
              Waiting, Nothing
<1>4. QED  BY <1>2, <1>3 DEF IInv

(* Another message is written. *)
LEMMA WriteKeeps ==
  ASSUME IInv, NEW m \in Message, Write(m)
  PROVE  IInv'
<1> DEFINE next == Len(sent) + 1
           record == [kind |-> m.kind, data |-> m.data, begin |-> written]
<1>1. TypeInv /\ StreamInv /\ Len(sent) < MaxFrames /\ sent' = Append(sent, record)
      /\ written' = written + Size(m) /\ UNCHANGED <<read, closed, reader, intact, returned, last>>
  BY DEF IInv, Write
<1>2. m.kind \in Kind /\ m.data \in Nat /\ [kind |-> m.kind, data |-> m.data] = m
  <2>1. CASE m \in [kind : Kind \ {"DataResponse"}, data : {0}]
    BY <2>1
  <2>2. CASE m \in [kind : Kind \cap {"DataResponse"}, data : DataLengths]
    BY <2>2, FramingAssumption
  <2>3. QED  BY <2>1, <2>2 DEF Message
<1>3. record \in Record /\ Size(record) = Size(m) /\ record.begin = written
  <2>1. record \in [kind : Kind, data : Nat, begin : Nat]
    BY <1>1, <1>2 DEF TypeInv
  <2>2. QED  BY <1>2, <2>1 DEF Record, Size, Body
<1>4. Size(m) \in Nat /\ Size(m) >= HeaderBytes
  BY <1>2, LengthsAgree DEF HeaderBytes
<1> HIDE DEF record
<1>5. /\ sent' \in Seq(Record) /\ Len(sent') = next /\ sent'[next] = record
      /\ \A i \in 1 .. Len(sent) : sent'[i] = sent[i]
  BY <1>1, <1>3, AppendProperties DEF TypeInv
<1>6. /\ Len(sent) \in Nat /\ next \in 1 .. Len(sent')
      /\ \A i \in 1 .. Len(sent') : i \in 1 .. Len(sent) \/ i = next
  BY <1>1, <1>5, Written
<1>7. /\ \A i \in 1 .. Len(sent) : End(sent', i) = End(sent, i)
      /\ End(sent', next) = written + Size(m)
  BY <1>3, <1>5 DEF End
<1>8. TypeInv'
  <2>1. written \in Nat /\ read \in 0 .. written
    BY <1>1 DEF TypeInv
  <2>2. written' \in Nat /\ read' \in 0 .. written'
    BY <1>1, <1>4, <2>1
  <2>3. Len(sent') <= MaxFrames
    BY <1>1, <1>5, <1>6, FramingAssumption
  <2>4. QED  BY <1>1, <1>5, <2>2, <2>3 DEF TypeInv
<1>9. \A i \in 1 .. Len(sent) : End(sent, i) <= written
  <2>1. ASSUME NEW i \in 1 .. Len(sent)
        PROVE  End(sent, i) <= written
    <3>1. written = End(sent, Len(sent)) /\ Len(sent) \in 1 .. Len(sent)
      BY <1>1, <1>6 DEF StreamInv
    <3>2. CASE i = Len(sent)
      BY <1>1, <3>1, <3>2, Written
    <3>3. CASE i < Len(sent)
      <4>1. End(sent, i) <= sent[Len(sent)].begin
        BY <1>1, <3>1, <3>3 DEF StreamInv
      <4>2. QED  BY <1>1, <3>1, <4>1, Written
    <3>4. QED  BY <1>6, <3>2, <3>3
  <2>2. QED  BY <2>1
<1>10. StreamInv'
  <2>1. ASSUME NEW i \in 1 .. Len(sent')
        PROVE  sent'[i].begin = IF i = 1 THEN 0 ELSE End(sent', i - 1)
    <3>1. CASE i \in 1 .. Len(sent)
      <4>1. i # 1 => i - 1 \in 1 .. Len(sent)
        BY <1>6, <3>1
      <4>2. QED  BY <1>1, <1>5, <1>7, <3>1, <4>1 DEF StreamInv
    <3>2. CASE i = next
      <4>1. i # 1 => i - 1 = Len(sent) /\ Len(sent) \in 1 .. Len(sent)
        BY <1>6, <3>2
      <4>2. sent'[i].begin = written
        BY <1>3, <1>5, <3>2
      <4>3. CASE i = 1
        BY <1>1, <1>6, <3>2, <4>2, <4>3 DEF StreamInv
      <4>4. CASE i # 1
        <5>1. End(sent', i - 1) = End(sent, Len(sent)) /\ written = End(sent, Len(sent))
          BY <1>1, <1>6, <1>7, <4>1, <4>4 DEF StreamInv
        <5>2. QED  BY <4>2, <4>4, <5>1
      <4>5. QED  BY <4>3, <4>4
    <3>3. QED  BY <1>6, <3>1, <3>2
  <2>2. ASSUME NEW i \in 1 .. Len(sent'), NEW j \in 1 .. Len(sent'), i < j
        PROVE  End(sent', i) <= sent'[j].begin
    <3>1. i \in 1 .. Len(sent) /\ End(sent', i) = End(sent, i)
      BY <1>5, <1>6, <1>7, <2>2
    <3>2. CASE j \in 1 .. Len(sent)
      BY <1>1, <1>5, <2>2, <3>1, <3>2 DEF StreamInv
    <3>3. CASE j = next
      BY <1>3, <1>5, <1>9, <3>1, <3>3
    <3>4. QED  BY <1>6, <3>2, <3>3
  <2>3. written' = IF Len(sent') = 0 THEN 0 ELSE End(sent', Len(sent'))
    BY <1>5, <1>6, <1>7, <1>1
  <2>4. QED  BY <2>1, <2>2, <2>3 DEF StreamInv
<1>11. IdleInv'
  <2>1. ASSUME reader.at = "idle", intact
        PROVE  returned <= Len(sent') /\ read = IF returned = 0 THEN 0 ELSE End(sent', returned)
    <3>1. /\ returned \in Nat /\ returned <= Len(sent)
          /\ read = IF returned = 0 THEN 0 ELSE End(sent, returned)
      BY <2>1 DEF IInv, IdleInv, TypeInv
    <3>2. returned # 0 => returned \in 1 .. Len(sent)
      BY <1>6, <3>1
    <3>3. QED  BY <1>5, <1>6, <1>7, <3>1, <3>2
  <2>2. QED  BY <1>1, <2>1 DEF IdleInv
<1>12. PayloadInv'
  <2>1. ASSUME reader.at = "payload"
        PROVE  PayloadInv'
    <3>1. /\ reader.asked \in Kind /\ reader.count > 0 /\ reader.length > 0
          /\ \A i \in 1 .. Len(sent) : sent[i].begin = read - reader.count =>
                                          reader.count + reader.length <= Size(sent[i])
          /\ intact =>
               /\ returned + 1 \in 1 .. Len(sent) /\ sent[returned + 1].begin = read - reader.count
               /\ reader.count + reader.length = Size(sent[returned + 1])
      BY <2>1 DEF IInv, PayloadInv
    <3>2. written # read - reader.count
      BY <1>1, <3>1 DEF TypeInv, HeaderBytes
    <3>3. \A i \in 1 .. Len(sent') : sent'[i].begin = read - reader.count =>
                                        reader.count + reader.length <= Size(sent'[i])
      BY <1>3, <1>5, <1>6, <3>1, <3>2
    <3>4. 1 .. Len(sent) \subseteq 1 .. Len(sent')
      BY <1>5, <1>6
    <3>5. QED  BY <1>1, <1>5, <3>1, <3>3, <3>4 DEF PayloadInv
  <2>2. QED  BY <1>1, <2>1 DEF PayloadInv
<1>13. LastInv' /\ StaysInMessage' /\ ReadInOrder'
  <2>1. last.asked # "none" => last.frame \in 1 .. Len(sent) /\ sent'[last.frame] = sent[last.frame]
    BY <1>5 DEF IInv, LastInv
  <2>2. 1 .. Len(sent) \subseteq 1 .. Len(sent')
    BY <1>5, <1>6
  <2>3. QED  BY <1>1, <2>1, <2>2 DEF IInv, LastInv, StaysInMessage, ReadInOrder
<1>14. QED  BY <1>8, <1>10, <1>11, <1>12, <1>13 DEF IInv

(* The variables of the stream keep their values, and the others what they say. *)
LEMMA SameStream ==
  ASSUME IInv, UNCHANGED <<sent, written, closed>>, read' \in 0 .. written',
         reader' \in [at : {"idle", "payload", "failed"}, asked : Kind \cup {"none"},
                      count : Nat, length : Nat],
         reader'.count <= HeaderBytes,
         intact' \in BOOLEAN, returned' \in Nat,
         last' \in [asked : Kind \cup {"none"}, frame : Nat, count : Nat]
  PROVE  TypeInv' /\ StreamInv' /\ \A i \in 1 .. Len(sent) : End(sent', i) = End(sent, i)
<1>1. \A i : End(sent', i) = End(sent, i)
  OBVIOUS
<1>2. TypeInv'
  BY DEF IInv, TypeInv
<1>3. QED  BY <1>1, <1>2 DEF IInv, StreamInv

(* A Read gets bytes of a header. *)
LEMMA HeaderKeeps ==
  ASSUME IInv, NEW kind \in Kind, ReadHeader(kind)
  PROVE  IInv'
<1>1. TypeInv /\ StreamInv /\ reader.at = "idle" /\ UNCHANGED <<sent, written, closed>>
  BY DEF IInv, ReadHeader
<1>2. PICK n \in Chunks(HeaderBytes) :
        /\ read' = read + n
        /\ intact' = (intact /\ n = HeaderBytes /\ \A i \in Here : sent[i].kind = kind)
        /\ Parse(kind, n)
  BY DEF ReadHeader
<1>3. /\ n \in 1 .. HeaderBytes /\ n \in Nat /\ n <= 24 /\ read \in Nat /\ read < written
      /\ read' \in 0 .. written' /\ read' \in Int /\ read' - n = read
  <2>1. n \in 1 .. 24 /\ n <= written - read
    BY <1>2 DEF Chunks, HeaderBytes
  <2>2. written \in Nat /\ read \in 0 .. written
    BY <1>1 DEF TypeInv
  <2>3. read' = read + n /\ written' = written
    BY <1>1, <1>2
  <2>4. QED  BY <2>1, <2>2, <2>3 DEF HeaderBytes
<1>4. Here = {i \in 1 .. Len(sent) : sent[i].begin = read}
  BY <1>1, Beginning DEF Here
<1>5. intact' \in BOOLEAN
  BY <1>1, <1>2 DEF TypeInv
<1>6. intact' => /\ intact /\ n = HeaderBytes
                 /\ \A i \in 1 .. Len(sent) : sent[i].begin = read => sent[i].kind = kind
  BY <1>2, <1>4
<1>7. intact => returned + 1 \in 1 .. Len(sent) /\ sent[returned + 1].begin = read
  BY <1>1, <1>3, NextBegins
<1>8. /\ returned \in Nat
      /\ \A i \in 1 .. Len(sent) : /\ sent[i].kind \in Kind /\ sent[i].begin \in Nat
                                   /\ Length(sent[i]) \in Nat /\ Size(sent[i]) \in Nat
                                   /\ Size(sent[i]) = HeaderBytes + Length(sent[i])
                                   /\ End(sent, i) = sent[i].begin + Size(sent[i])
  BY <1>1, Written DEF TypeInv
<1>9. ASSUME NEW hdr \in Headers(n)
      PROVE  /\ hdr.length \in Nat
             /\ \A i \in 1 .. Len(sent) : sent[i].begin = read =>
                  /\ hdr.kind = sent[i].kind
                  /\ hdr.length <= Length(sent[i])
                  /\ n = HeaderBytes => hdr.length = Length(sent[i])
  <2>1. CASE Here # {}
    <3>1. PICK j \in Here : hdr = [kind |-> sent[j].kind, length |-> Kept(Length(sent[j]), n)]
      BY <1>9, <2>1 DEF Headers
    <3>2. j \in 1 .. Len(sent) /\ sent[j].begin = read
      BY <1>4
    <3>3. Kept(Length(sent[j]), n) \in 0 .. Length(sent[j])
          /\ Kept(Length(sent[j]), 24) = Length(sent[j])
      BY <1>3, <1>8, <3>2, KeptBound
    <3>4. \A i \in 1 .. Len(sent) : sent[i].begin = read => i = j
      BY <1>1, <3>2, Unique
    <3>5. QED  BY <1>8, <3>1, <3>2, <3>3, <3>4 DEF HeaderBytes
  <2>2. CASE Here = {}
    <3>1. PICK length \in Lengths : hdr.length = Kept(length, n)
      BY <1>9, <2>2 DEF Headers
    <3>2. hdr.length \in Nat
      BY <1>3, <3>1, KeptBound, FramingAssumption
    <3>3. QED  BY <1>4, <2>2, <3>2
  <2>3. QED  BY <2>1, <2>2
<1>10. ASSUME Return(kind, n),
              intact' => \A i \in 1 .. Len(sent) : sent[i].begin = read => Length(sent[i]) = 0
       PROVE  IInv'
  <2>1. /\ reader' = Waiting
        /\ returned' = IF intact' THEN returned + 1 ELSE returned
        /\ last' \in [asked : Kind \cup {"none"}, frame : Nat, count : Nat]
        /\ last'.asked # "none" =>
             /\ last'.frame \in 1 .. Len(sent) /\ sent[last'.frame].begin = read
             /\ last'.count = n
    BY <1>1, <1>3, <1>10, Returned
  <2>2. TypeInv' /\ StreamInv' /\ \A i \in 1 .. Len(sent) : End(sent', i) = End(sent, i)
    BY <1>1, <1>3, <1>5, <1>8, <2>1, SameStream DEF Waiting, HeaderBytes
  <2>3. intact' => returned' \in 1 .. Len(sent) /\ sent[returned'].begin = read
                   /\ Size(sent[returned']) = n /\ read' = End(sent, returned')
    BY <1>2, <1>6, <1>7, <1>8, <1>10, <2>1 DEF HeaderBytes
  <2>4. IdleInv'
    BY <1>1, <1>8, <2>1, <2>2, <2>3, Written DEF IdleInv
  <2>5. PayloadInv'
    BY <2>1 DEF PayloadInv, Waiting
  <2>6. LastInv' /\ StaysInMessage'
    BY <1>1, <1>3, <1>8, <2>1 DEF LastInv, StaysInMessage, HeaderBytes
  <2>7. ReadInOrder'
    <3>1. ASSUME intact', last'.asked # "none"
          PROVE  last'.frame = returned' /\ last'.count = Size(sent[returned'])
      BY <1>1, <2>1, <2>3, <3>1, Unique
    <3>2. QED  BY <1>1, <3>1 DEF ReadInOrder
  <2>8. QED  BY <2>2, <2>4, <2>5, <2>6, <2>7 DEF IInv
<1>11. ASSUME Fail
       PROVE  IInv'
  <2>1. reader' = [Waiting EXCEPT !.at = "failed"] /\ last' = Nothing /\ returned' = returned
    BY <1>11 DEF Fail
  <2>2. TypeInv' /\ StreamInv'
    BY <1>1, <1>3, <1>5, <1>8, <2>1, SameStream DEF Waiting, Nothing, HeaderBytes
  <2>3. IdleInv' /\ PayloadInv' /\ LastInv' /\ StaysInMessage' /\ ReadInOrder'
    BY <2>1 DEF IdleInv, PayloadInv, LastInv, StaysInMessage, ReadInOrder, Waiting, Nothing
  <2>4. QED  BY <2>2, <2>3 DEF IInv
<1>12. ASSUME NEW hdr \in Headers(n), hdr.kind = kind, hdr.length > 0, Await(kind, n, hdr)
       PROVE  IInv'
  <2>1. /\ reader' = [at |-> "payload", asked |-> kind, count |-> n, length |-> hdr.length]
        /\ last' = Nothing /\ returned' = returned
    BY <1>12 DEF Await
  <2>2. hdr.length \in Nat
    BY <1>9, <1>12
  <2>3. TypeInv' /\ StreamInv'
    BY <1>1, <1>3, <1>5, <1>8, <2>1, <2>2, SameStream DEF Nothing, HeaderBytes
  <2>4. IdleInv' /\ LastInv' /\ StaysInMessage' /\ ReadInOrder'
    BY <2>1 DEF IdleInv, LastInv, StaysInMessage, ReadInOrder, Nothing
  <2>5. ASSUME NEW i \in 1 .. Len(sent), sent[i].begin = read
        PROVE  /\ n + hdr.length <= Size(sent[i])
               /\ n = HeaderBytes => n + hdr.length = Size(sent[i])
    BY <1>3, <1>8, <1>9, <1>12, <2>2, <2>5 DEF HeaderBytes
  <2>6. PayloadInv'
    BY <1>1, <1>3, <1>6, <1>7, <1>12, <2>1, <2>5 DEF PayloadInv
  <2>7. QED  BY <2>3, <2>4, <2>6 DEF IInv
<1>13. CASE n < 8
  <2>1. Return(kind, n) /\ ~ intact'
    BY <1>2, <1>3, <1>6, <1>13 DEF Parse, HeaderBytes
  <2>2. QED  BY <1>10, <2>1
<1>14. CASE ~ n < 8
  <2>1. Fail \/ \E hdr \in Headers(n) : \/ (hdr.kind # kind \/ hdr.length = 0) /\ Return(kind, n)
                                        \/ hdr.kind = kind /\ hdr.length > 0 /\ Await(kind, n, hdr)
    BY <1>2, <1>14 DEF Parse
  <2>2. ASSUME NEW hdr \in Headers(n), hdr.kind # kind \/ hdr.length = 0, Return(kind, n)
        PROVE  IInv'
    <3>1. intact' => \A i \in 1 .. Len(sent) : sent[i].begin = read => Length(sent[i]) = 0
      BY <1>6, <1>9, <2>2
    <3>2. QED  BY <1>10, <2>2, <3>1
  <2>3. QED  BY <1>11, <1>12, <2>1, <2>2
<1>15. QED  BY <1>13, <1>14

(* A Read gets bytes of a body. *)
LEMMA PayloadKeeps ==
  ASSUME IInv, ReadPayload
  PROVE  IInv'
<1> DEFINE count == reader.count
<1>1. TypeInv /\ StreamInv /\ UNCHANGED <<sent, written, closed>>
  BY DEF IInv, ReadPayload
<1>2. /\ reader.asked \in Kind /\ count > 0 /\ reader.length > 0
      /\ \A i \in 1 .. Len(sent) :
           sent[i].begin = read - count => count + reader.length <= Size(sent[i])
      /\ intact =>
           /\ returned + 1 \in 1 .. Len(sent) /\ sent[returned + 1].begin = read - count
           /\ count + reader.length = Size(sent[returned + 1])
  BY DEF IInv, PayloadInv, ReadPayload
<1>3. PICK n \in Chunks(reader.length) :
        /\ read' = read + n
        /\ intact' = (intact /\ n = reader.length)
        /\ Return(reader.asked, count + n)
  BY DEF ReadPayload
<1>4. count \in Nat /\ reader.length \in Nat /\ read \in Nat /\ returned \in Nat
  BY <1>1 DEF TypeInv, HeaderBytes
<1>5. /\ n \in Nat /\ n <= reader.length /\ count + n \in Nat
      /\ read' \in 0 .. written' /\ read' \in Int /\ read' - (count + n) = read - count
  BY <1>1, <1>3, <1>4 DEF Chunks, TypeInv
<1> HIDE DEF count
<1>6. /\ reader' = Waiting
      /\ returned' = IF intact' THEN returned + 1 ELSE returned
      /\ last' \in [asked : Kind \cup {"none"}, frame : Nat, count : Nat]
      /\ last'.asked # "none" =>
           /\ last'.frame \in 1 .. Len(sent) /\ sent[last'.frame].begin = read - count
           /\ last'.count = count + n
  BY <1>1, <1>2, <1>3, <1>5, Returned
<1>7. intact' \in BOOLEAN
  BY <1>1, <1>3 DEF TypeInv
<1>8. \A i \in 1 .. Len(sent) : /\ sent[i].begin \in Nat /\ Size(sent[i]) \in Nat
                                /\ End(sent, i) = sent[i].begin + Size(sent[i])
  BY <1>1, Written
<1>9. TypeInv' /\ StreamInv' /\ \A i \in 1 .. Len(sent) : End(sent', i) = End(sent, i)
  BY <1>1, <1>4, <1>5, <1>6, <1>7, SameStream DEF Waiting, HeaderBytes
<1>10. intact' => /\ returned' \in 1 .. Len(sent) /\ sent[returned'].begin = read - count
                  /\ Size(sent[returned']) = count + n /\ read' = End(sent, returned')
  <2>1. ASSUME intact'
        PROVE  /\ returned' = returned + 1 /\ n = reader.length
               /\ returned + 1 \in 1 .. Len(sent) /\ sent[returned + 1].begin = read - count
               /\ Size(sent[returned + 1]) = count + reader.length
               /\ read' = read + n
    BY <1>2, <1>3, <1>6, <2>1
  <2>2. ASSUME NEW i \in 1 .. Len(sent), sent[i].begin = read - count,
               Size(sent[i]) = count + n
        PROVE  read + n = End(sent, i)
    BY <1>4, <1>5, <1>8, <2>2
  <2>3. QED  BY <2>1, <2>2
<1>11. IdleInv'
  BY <1>1, <1>6, <1>9, <1>10, Written DEF IdleInv
<1>12. PayloadInv'
  BY <1>6 DEF PayloadInv, Waiting
<1>13. LastInv' /\ StaysInMessage'
  <2>1. last'.asked # "none" =>
          last'.frame \in 1 .. Len(sent) /\ last'.count <= Size(sent[last'.frame])
    <3>1. ASSUME NEW i \in 1 .. Len(sent), sent[i].begin = read - count
          PROVE  count + n <= Size(sent[i])
      <4>1. count + reader.length <= Size(sent[i]) /\ Size(sent[i]) \in Nat
        BY <1>2, <1>8, <3>1
      <4>2. QED  BY <1>4, <1>5, <4>1
    <3>2. QED  BY <1>6, <3>1
  <2>2. QED  BY <1>1, <2>1 DEF LastInv, StaysInMessage
<1>14. ReadInOrder'
  <2>1. ASSUME intact', last'.asked # "none"
        PROVE  last'.frame = returned' /\ last'.count = Size(sent[returned'])
    BY <1>1, <1>6, <1>10, <2>1, Unique
  <2>2. QED  BY <1>1, <2>1 DEF ReadInOrder
<1>15. QED  BY <1>9, <1>11, <1>12, <1>13, <1>14 DEF IInv

(* A Read finds that the connection has ended. *)
LEMMA EndKeeps ==
  ASSUME IInv, ReadEnd
  PROVE  IInv'
<1>1. /\ UNCHANGED <<sent, written, read, closed, intact>> /\ returned' = returned
      /\ reader' = [Waiting EXCEPT !.at = "failed"] /\ last' = Nothing
  BY DEF ReadEnd, Fail
<1>2. TypeInv' /\ StreamInv'
  BY <1>1, SameStream DEF IInv, TypeInv, Waiting, Nothing, HeaderBytes
<1>3. IdleInv' /\ PayloadInv' /\ LastInv' /\ StaysInMessage' /\ ReadInOrder'
  BY <1>1 DEF IdleInv, PayloadInv, LastInv, StaysInMessage, ReadInOrder, Waiting, Nothing
<1>4. QED  BY <1>2, <1>3 DEF IInv

(* Every step keeps the invariant. *)
LEMMA Inductive == IInv /\ [Next]_vars => IInv'
<1> SUFFICES ASSUME IInv, [Next]_vars PROVE IInv'
  OBVIOUS
<1>1. CASE UNCHANGED vars \/ Close
  <2>1. /\ UNCHANGED <<sent, written, read, reader, intact, returned, last>>
        /\ closed' \in BOOLEAN
    BY <1>1 DEF vars, Close, IInv, TypeInv
  <2>2. TypeInv'
    BY <2>1 DEF IInv, TypeInv
  <2>3. StreamInv' /\ IdleInv' /\ PayloadInv' /\ LastInv'
    BY <2>1 DEF IInv, StreamInv, IdleInv, PayloadInv, LastInv, End
  <2>4. StaysInMessage' /\ ReadInOrder'
    BY <2>1 DEF IInv, StaysInMessage, ReadInOrder
  <2>5. QED  BY <2>2, <2>3, <2>4 DEF IInv
<1>2. CASE \E m \in Message : Write(m)
  BY <1>2, WriteKeeps
<1>3. CASE ReadStep
  BY <1>3, HeaderKeeps, PayloadKeeps, EndKeeps DEF ReadStep
<1>4. QED  BY <1>1, <1>2, <1>3 DEF Next

(* The invariant always holds. *)
LEMMA Invariance == Spec => []IInv
  BY Initially, Inductive, PTL DEF Spec

(* The variables of both ends keep their types. *)
THEOREM TypeCorrect == Spec => []TypeOK
  BY Invariance, Strong, PTL

(* A Read that begins where a message does takes no byte of the next one, however *)
(* the network cuts the stream and whatever its bytes are taken for (message.go:  *)
(* 86, 240).                                                                      *)
THEOREM Unmixed == Spec => []StaysInMessage
  BY Invariance, Strong, PTL

(* The n-th Read returns the n-th message in full, as long as no read is short *)
(* and both ends agree on the kinds (message.go:78).                           *)
THEOREM InOrder == Spec => []ReadInOrder
  BY Invariance, Strong, PTL
===============================================================================
