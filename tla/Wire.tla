-------------------------------- MODULE Wire --------------------------------
(***************************************************************************)
(* The frame codec of crates/airclip-core/src/frame.rs under the Framed    *)
(* stream of client.rs and server.rs: one direction of one connection.     *)
(* send encodes a frame into bytes; the stream delivers them in pieces of  *)
(* any size; next decodes what has been buffered, and reads more when that *)
(* is not a whole frame.  A timeout around next drops nothing: the buffer  *)
(* belongs to the stream.                                                  *)
(*                                                                         *)
(* The lengths are parameters: bytes are 0..Base-1, the magic has any      *)
(* length, and the length field has LenBytes bytes, least significant      *)
(* first.                                                                  *)
(***************************************************************************)
EXTENDS Integers, Sequences

CONSTANTS
  Base, Magic, LenBytes,
  Types,        \* the type bytes FrameType knows
  MaxFrameLen,  \* MAX_FRAME_LEN
  Frames,       \* bound: frames a caller may hand to send
  Foreign,      \* bound: byte strings a peer of another kind may send
  MaxSends      \* bound: calls of send

Bytes == 0..(Base - 1)

(* What a byte of a number counts for: Base ^ i. *)
Place[i \in 0..LenBytes] == IF i = 0 THEN 1 ELSE Base * Place[i - 1]

ASSUME WireAssumption ==
  /\ Base \in Nat \ {0, 1} /\ LenBytes \in Nat \ {0} /\ MaxSends \in Nat
  /\ Magic \in Seq(Bytes) /\ Types \subseteq Bytes
  /\ MaxFrameLen \in Nat /\ MaxFrameLen < Place[LenBytes]
  /\ Frames \subseteq [ty : Types, payload : Seq(Bytes)]
  /\ Foreign \subseteq Seq(Bytes)

VARIABLES
  sent,     \* frames encoded so far
  foreign,  \* whether the peer has sent other bytes
  wire,     \* bytes on their way
  eof,      \* whether what is on its way is all that will come
  broken,   \* whether the connection has broken
  buf,      \* bytes the receiver has buffered
  got,      \* frames next has returned
  st        \* "open", "closed" by us, or how next found it: "ended" or "failed"

vars == <<sent, foreign, wire, eof, broken, buf, got, st>>

-----------------------------------------------------------------------------
HeaderLen == Len(Magic) + 1 + LenBytes

(* to_le_bytes: each byte is the last digit of what the ones before leave. *)
Rest(n) == LET rest[i \in 0..LenBytes] == IF i = 0 THEN n ELSE rest[i - 1] \div Base IN rest
LeBytes(n) == [i \in 1..LenBytes |-> Rest(n)[i - 1] % Base]

(* from_le_bytes: the sum of the first bytes at their places. *)
Sums(s) ==
  LET sum[i \in 0..LenBytes] == IF i = 0 THEN 0 ELSE sum[i - 1] + s[i] * Place[i - 1] IN sum
FromLe(s) == Sums(s)[LenBytes]

TooLarge(f) == Len(f.payload) > MaxFrameLen

(* The bytes FrameCodec::encode puts for a frame it does not refuse. *)
Encode(f) == Magic \o <<f.ty>> \o LeBytes(Len(f.payload)) \o f.payload

(* FrameCodec::decode: the header is judged as soon as it is complete, and *)
(* before the body is read.                                                *)
HasHeader(b) == Len(b) >= HeaderLen
LenField(b) == FromLe(SubSeq(b, Len(Magic) + 2, HeaderLen))
Total(b) == HeaderLen + LenField(b)

BadHeader_LenLate(b) ==  \* mutant: the length is checked once the body is there
  /\ HasHeader(b)
  /\ \/ SubSeq(b, 1, Len(Magic)) # Magic
     \/ b[Len(Magic) + 1] \notin Types
     \/ LenField(b) > MaxFrameLen /\ Len(b) >= Total(b)

BadHeader(b) ==
  /\ HasHeader(b)
  /\ \/ SubSeq(b, 1, Len(Magic)) # Magic
     \/ b[Len(Magic) + 1] \notin Types
     \/ LenField(b) > MaxFrameLen

HasFrame(b) == HasHeader(b) /\ ~BadHeader(b) /\ Len(b) >= Total(b)

FirstFrame_Short(b) ==  \* mutant: the payload ends one byte early
  [ty |-> b[Len(Magic) + 1], payload |-> SubSeq(b, HeaderLen + 1, Total(b) - 1)]
FirstFrame(b) == [ty |-> b[Len(Magic) + 1], payload |-> SubSeq(b, HeaderLen + 1, Total(b))]
AfterFirst(b) == SubSeq(b, Total(b) + 1, Len(b))

-----------------------------------------------------------------------------
(* Types. *)
TypeOK ==
  /\ sent \in Seq(Frames) /\ Len(sent) <= MaxSends
  /\ foreign \in BOOLEAN /\ eof \in BOOLEAN /\ broken \in BOOLEAN
  /\ wire \in Seq(Bytes) /\ buf \in Seq(Bytes)
  /\ got \in Seq([ty : Types, payload : Seq(Bytes)])
  /\ st \in {"open", "ended", "failed", "closed"}

Init ==
  /\ sent = <<>> /\ foreign = FALSE
  /\ wire = <<>> /\ eof = FALSE /\ broken = FALSE
  /\ buf = <<>> /\ got = <<>>
  /\ st = "open"

(* The sending side. *)

MaySend == ~eof /\ ~foreign /\ Len(sent) < MaxSends

(* send_frame and wire.send. *)
Send(f) ==
  /\ MaySend /\ ~TooLarge(f)
  /\ sent' = Append(sent, f)
  /\ wire' = wire \o Encode(f)
  /\ UNCHANGED <<foreign, eof, broken, buf, got, st>>

SendRefused_HeaderFirst(f) ==  \* mutant: the length is checked after the header is put
  /\ MaySend /\ TooLarge(f)
  /\ wire' = wire \o Magic \o <<f.ty>>
  /\ eof' = TRUE
  /\ UNCHANGED <<sent, foreign, broken, buf, got, st>>

(* A frame that is too large is refused before a byte of it is put; every  *)
(* caller then gives the connection up.                                    *)
SendRefused(f) ==
  /\ MaySend /\ TooLarge(f)
  /\ eof' = TRUE
  /\ UNCHANGED <<sent, foreign, wire, broken, buf, got, st>>

(* What is on its way is lost from some byte on, and nothing comes after.  *)
Cuts ==
  /\ eof' = TRUE
  /\ \E n \in 0..Len(wire) : wire' = SubSeq(wire, 1, n)
  /\ UNCHANGED <<sent, foreign, buf, got, st>>

(* The peer closes its end, perhaps before all it has encoded is sent.     *)
PeerCloses == ~eof /\ Cuts /\ UNCHANGED broken

(* The connection is reset or lost.  The receiver finds out once it has    *)
(* read what arrived.                                                      *)
Breaks == ~broken /\ broken' = TRUE /\ Cuts

(* The peer, from here on, is not an AirClip of this version. *)
ForeignBytes(s) ==
  /\ ~eof /\ ~foreign
  /\ foreign' = TRUE
  /\ wire' = wire \o s
  /\ UNCHANGED <<sent, eof, broken, buf, got, st>>

(* The receiving side: Framed::next. *)

Read(n) ==
  /\ st = "open" /\ ~BadHeader(buf) /\ ~HasFrame(buf)
  /\ n \in 1..Len(wire)
  /\ buf' = buf \o SubSeq(wire, 1, n)
  /\ wire' = SubSeq(wire, n + 1, Len(wire))
  /\ UNCHANGED <<sent, foreign, eof, broken, got, st>>

TakeFrame ==
  /\ st = "open" /\ HasFrame(buf)
  /\ got' = Append(got, FirstFrame(buf))
  /\ buf' = AfterFirst(buf)
  /\ UNCHANGED <<sent, foreign, wire, eof, broken, st>>

Refuse ==
  /\ st = "open" /\ BadHeader(buf)
  /\ st' = "failed"
  /\ UNCHANGED <<sent, foreign, wire, eof, broken, buf, got>>

(* The stream is over.  next finds its end, unless part of a frame is left *)
(* in the buffer, or the connection broke: reading is then an error.       *)
End ==
  /\ st = "open" /\ eof /\ wire = <<>> /\ ~BadHeader(buf) /\ ~HasFrame(buf)
  /\ st' = IF buf = <<>> /\ ~broken THEN "ended" ELSE "failed"
  /\ UNCHANGED <<sent, foreign, wire, eof, broken, buf, got>>

(* The session closes, or its idle timeout runs out. *)
Closes ==
  /\ st = "open" /\ st' = "closed"
  /\ UNCHANGED <<sent, foreign, wire, eof, broken, buf, got>>

Receives == (\E n \in 1..Len(wire) : Read(n)) \/ TakeFrame \/ Refuse \/ End

Next ==
  \/ \E f \in Frames : Send(f) \/ SendRefused(f)
  \/ PeerCloses \/ Breaks
  \/ \E s \in Foreign : ForeignBytes(s)
  \/ Receives \/ Closes

(* The task that owns the stream calls next until the stream is over. *)
Spec == Init /\ [][Next]_vars /\ WF_vars(Receives)

-----------------------------------------------------------------------------
(* Properties. *)

(* Whatever the peer sends, no frame of an unknown type or of more than    *)
(* the largest size comes out, and a receiver that waits for more never    *)
(* waits for more than one such frame: a length field cannot make it       *)
(* buffer without end.                                                     *)
ForeignContained ==
  /\ \A i \in 1..Len(got) : got[i].ty \in Types /\ Len(got[i].payload) <= MaxFrameLen
  /\ st = "open" /\ ~BadHeader(buf) /\ ~HasFrame(buf) => Len(buf) < HeaderLen + MaxFrameLen

(* A stream that the peer closed between two frames ends without an error: *)
(* only a broken connection, a part of a frame or bytes of a foreign peer  *)
(* make next fail.  No header the peer's encoder let through is refused.   *)
FailsForAReason ==
  st = "failed" => foreign \/ broken \/ (eof /\ buf # <<>> /\ Len(got) < Len(sent))

Fifo == INSTANCE FrameFifo WITH
  taken <- SubSeq(got, 1, IF Len(got) < Len(sent) THEN Len(got) ELSE Len(sent)),
  over <- st # "open"

(* The frames that come out are the frames that went in, each once and in  *)
(* order, and all of them unless the connection ends.                      *)
ImplementsFifo == Fifo!Spec

=============================================================================
