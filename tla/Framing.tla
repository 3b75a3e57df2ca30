------------------------------- MODULE Framing --------------------------------
(***************************************************************************)
(* core/message.go: the binary messages that the TCP programs (client,     *)
(* sink) exchange with a server.  Write sends a header, with the length of *)
(* what follows, and a body, in one call.  Read asks the connection once   *)
(* for a header and once for a body: net.Conn hands over what has arrived, *)
(* which may be less, and Read does not ask again.                         *)
(*                                                                         *)
(* The stream is a number of bytes and a place in it.  What its bytes say  *)
(* is known where a message starts.  Anywhere else two of them may read as *)
(* magic and version, and the rest of a UUID, a location or the data as    *)
(* any type and any of the Lengths.                                        *)
(***************************************************************************)
EXTENDS Naturals, Sequences

CONSTANTS Kind,         \* the kinds of message in use
          DataLengths,  \* lengths of the Data of a DataResponseMsg, in bytes
          Lengths,      \* lengths that other bytes than a header may announce
          MaxFrames     \* bound: messages written to the connection

ASSUME FramingAssumption ==
  /\ Kind \subseteq {"SyncRequest", "SyncResponse", "DataRequest", "DataResponse"}
  /\ DataLengths \subseteq Nat /\ Lengths \subseteq Nat
  /\ MaxFrames \in Nat

VARIABLES
  sent,      \* the messages written, each with the byte at which it begins
  written,   \* how many bytes have been written
  read,      \* how many of them have been read
  closed,    \* the writer has closed the connection
  reader,    \* the reader: what was asked for, the bytes read so far, the length announced
  intact,    \* history: no c.Read so far has been short, no message of the wrong kind
  returned,  \* history: how many Reads have returned nil meanwhile
  last       \* history: what the last Read was for and how many bytes it took, if it returned
             \* nil and began where a message does

vars == <<sent, written, read, closed, reader, intact, returned, last>>

HeaderBytes == 24

(* Only the Data of a DataResponseMsg varies in length. *)
Message ==
  [kind : Kind \ {"DataResponse"}, data : {0}]
    \cup [kind : Kind \cap {"DataResponse"}, data : DataLengths]

(* The bytes of a body. *)
Body(m) ==
  CASE m.kind = "SyncRequest"  -> 16 + 32  \* ServiceUUID, Location
    [] m.kind = "SyncResponse" -> 16 + 16  \* ServiceUUID, TokenId
    [] m.kind = "DataRequest"  -> 32       \* Location
    [] m.kind = "DataResponse" -> m.data

(* Mutant: a SyncResponseMsg announces the length of a SyncRequestMsg. *)
LengthCopied(m) ==
  CASE m.kind \in {"SyncRequest", "SyncResponse"} -> 48
    [] m.kind = "DataRequest"  -> 32
    [] m.kind = "DataResponse" -> m.data

(* The length that Write puts into the header. *)
Length(m) ==
  CASE m.kind = "SyncRequest" -> 48
    [] m.kind \in {"SyncResponse", "DataRequest"} -> 32
    [] m.kind = "DataResponse" -> m.data

Size(m) == HeaderBytes + Body(m)

Waiting == [at |-> "idle", asked |-> "none", count |-> 0, length |-> 0]
Nothing == [asked |-> "none", frame |-> 0, count |-> 0]

TypeOK ==
  /\ \A i \in DOMAIN sent : [kind |-> sent[i].kind, data |-> sent[i].data] \in Message
  /\ Len(sent) <= MaxFrames
  /\ written \in Nat /\ read \in 0 .. written
  /\ closed \in BOOLEAN
  /\ reader.at \in {"idle", "payload", "failed"} /\ reader.count \in 0 .. HeaderBytes
  /\ reader.at = "payload" => reader.asked \in Kind /\ reader.length > 0
  /\ intact \in BOOLEAN
  /\ returned \in Nat
  /\ last.asked \in Kind \cup {"none"}

-------------------------------------------------------------------------------
(* The writer. *)

(* Write of any of the messages: one c.Write of header and body. *)
Write(m) ==
  /\ ~ closed /\ Len(sent) < MaxFrames
  /\ sent' = Append(sent, [kind |-> m.kind, data |-> m.data, begin |-> written])
  /\ written' = written + Size(m)
  /\ UNCHANGED <<read, closed, reader, intact, returned, last>>

Close ==
  /\ ~ closed
  /\ closed' = TRUE
  /\ UNCHANGED <<sent, written, read, reader, intact, returned, last>>

-------------------------------------------------------------------------------
(* The reader. *)

(* How many bytes one c.Read of up to `asked` of them may hand over. *)
Chunks(asked) == {n \in 1 .. asked : n <= written - read}

(* The messages that begin at a byte of the stream, or with the next one: one, or none. *)
BeginAt(byte) == {i \in DOMAIN sent : sent[i].begin = byte}
Here == BeginAt(read)

(* What is left of a length if only the first n bytes of its header were read: *)
(* it comes last, its highest byte first, and what is missing is zero.         *)
Kept(length, n) ==
  CASE n = 24 -> length
    [] n = 23 -> length - (length % 256)
    [] n = 22 -> length - (length % 65536)
    [] n = 21 -> length - (length % 16777216)
    [] OTHER  -> 0

(* The headers that the next n bytes may be read as. *)
Headers(n) ==
  IF Here # {}
  THEN {[kind |-> sent[i].kind, length |-> Kept(Length(sent[i]), n)] : i \in Here}
  ELSE [kind : Kind \cup {"none"}, length : {Kept(length, n) : length \in Lengths}]

(* A Read of `count` bytes that were the last ones read returns nil. *)
Return(kind, count) ==
  /\ reader' = Waiting
  /\ returned' = IF intact' THEN returned + 1 ELSE returned
  /\ last' = IF BeginAt(read' - count) = {} THEN Nothing
             ELSE [asked |-> kind, frame |-> CHOOSE i \in BeginAt(read' - count) : TRUE, count |-> count]

Fail ==
  /\ reader' = [Waiting EXCEPT !.at = "failed"]
  /\ last' = Nothing
  /\ UNCHANGED returned

Await(kind, n, hdr) ==
  /\ reader' = [at |-> "payload", asked |-> kind, count |-> n, length |-> hdr.length]
  /\ last' = Nothing
  /\ UNCHANGED returned

(* Mutant: Read waits for a byte of the body even if there is none. *)
ParseNonEmpty(kind, n) ==
  \/ n < 8 /\ Return(kind, n)
  \/ n >= 8 /\ Here = {} /\ Fail
  \/ /\ n >= 8
     /\ \E hdr \in Headers(n) :
          \/ hdr.kind # kind /\ Return(kind, n)
          \/ hdr.kind = kind /\ Await(kind, n, hdr)

(* ReadHeader got n bytes.  Less than 8 are no error, and no header either; of *)
(* more, magic and version have to be right, and Read returns nil for a        *)
(* message of another kind.  If a body is announced it asks for that.          *)
Parse(kind, n) ==
  \/ n < 8 /\ Return(kind, n)
  \/ n >= 8 /\ Here = {} /\ Fail
  \/ /\ n >= 8
     /\ \E hdr \in Headers(n) :
          \/ (hdr.kind # kind \/ hdr.length = 0) /\ Return(kind, n)
          \/ hdr.kind = kind /\ hdr.length > 0 /\ Await(kind, n, hdr)

ReadHeader(kind) ==
  /\ reader.at = "idle"
  /\ \E n \in Chunks(HeaderBytes) :
        /\ read' = read + n
        /\ intact' = (intact /\ n = HeaderBytes /\ \A i \in Here : sent[i].kind = kind)
        /\ Parse(kind, n)
  /\ UNCHANGED <<sent, written, closed>>

(* The bytes that did not come stay zero. *)
ReadPayload ==
  /\ reader.at = "payload"
  /\ \E n \in Chunks(reader.length) :
        /\ read' = read + n
        /\ intact' = (intact /\ n = reader.length)
        /\ Return(reader.asked, reader.count + n)
  /\ UNCHANGED <<sent, written, closed>>

(* The connection ended.  The programs give it up after any error. *)
ReadEnd ==
  /\ reader.at # "failed" /\ closed /\ read = written
  /\ Fail
  /\ UNCHANGED <<sent, written, read, closed, intact>>

-------------------------------------------------------------------------------
Init ==
  /\ sent = <<>> /\ written = 0 /\ read = 0 /\ closed = FALSE
  /\ reader = Waiting /\ intact = TRUE /\ returned = 0 /\ last = Nothing

ReadStep == ReadPayload \/ ReadEnd \/ \E kind \in Kind : ReadHeader(kind)

Next == Close \/ (\E m \in Message : Write(m)) \/ ReadStep

Spec == Init /\ [][Next]_vars

(* The reader keeps reading. *)
FairSpec == Spec /\ WF_vars(ReadStep)

-------------------------------------------------------------------------------
(* Properties. *)

(* However the network cuts the stream, and whatever its bytes were taken for   *)
(* before, a Read that begins where a message does takes no byte of the next    *)
(* one, not even with a header that came in part.  A Read that begins elsewhere *)
(* may go on into the next message.                                             *)
StaysInMessage ==
  last.asked # "none" => last.count <= Size(sent[last.frame])

(* As long as the network hands over all that is asked for and both ends agree  *)
(* on the kinds, the n-th Read returns the n-th message, and all of it.         *)
ReadInOrder ==
  intact /\ last.asked # "none" =>
    last.frame = returned /\ last.count = Size(sent[returned])

(* In those circumstances every message written is read in the end.              *)
EveryFrameIsRead ==
  []intact => \A i \in 1 .. MaxFrames : Len(sent) >= i ~> returned >= i

(* message.go:78 (and 122, 165, 206): Read returns an error when it fails, so if *)
(* it returns nil where a message of the right kind begins, it has read that     *)
(* message to its end.                                                           *)
NilMeansRead ==
  last.asked # "none" /\ sent[last.frame].kind = last.asked => last.count = Size(sent[last.frame])
===============================================================================
