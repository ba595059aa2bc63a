----------------------------- MODULE FrameCodec -----------------------------
(***************************************************************************)
(* The framing of the TCP link (bridge/src/frame_codec.cpp): a length of   *)
(* four bytes, least significant first, that counts the type, the flags,   *)
(* the sequence number and the payload behind it; and a decoder fed from   *)
(* recv() with whatever part of the stream has arrived.                    *)
(***************************************************************************)
EXTENDS Integers, Sequences

CONSTANTS
  MaxLength,  \* kMaxFrameLength, 64 KiB
  MaxChunk,   \* kReadChunk, the bytes of one recv()
  Frames,     \* the frames sent
  Garbage,    \* what else gets into the stream, byte sequences
  MaxStream   \* bound of the model: the bytes of one stream

\* An unsigned number, eight bits at a time.
Low8(n) == n % 256
Shr8(n) == n \div 256

Byte == {n \in Nat : n < 256}
Word == {n \in Nat : Shr8(n) < 256}

AnyFrame == [type : Byte, flags : Byte, seq : Word, payload : Seq(Byte)]

\* encode_frame does not look at MaxLength: that no longer frame is sent is a
\* condition on the frames.
ASSUME CodecAssumption ==
  /\ MaxLength \in Nat /\ Shr8(Shr8(Shr8(MaxLength))) < 256
  /\ Frames \subseteq AnyFrame
  /\ \A f \in Frames : 4 + Len(f.payload) <= MaxLength
  /\ Garbage \subseteq Seq(Byte)
  /\ MaxChunk \in Nat /\ MaxStream \in Nat

VARIABLES
  sent,      \* the frames sent, in order
  stream,    \* the bytes written to the connection
  arrived,   \* how many of them recv() has returned
  buf,       \* buf_
  received,  \* the frames next() has yielded
  draining,  \* client_loop is in its loop over next()
  clean      \* nothing but frames is in the stream

codecVars == <<sent, stream, arrived, buf, received, draining, clean>>

-----------------------------------------------------------------------------
(* encode_frame *)

Header(f) ==
  LET length == 4 + Len(f.payload)
  IN  <<Low8(length), Low8(Shr8(length)), Low8(Shr8(Shr8(length))),
        Low8(Shr8(Shr8(Shr8(length)))),
        f.type, f.flags, Low8(f.seq), Low8(Shr8(f.seq))>>

Encode(f) == Header(f) \o f.payload

-----------------------------------------------------------------------------
(* FrameDecoder *)

LengthOf(b) == b[1] + 256 * (b[2] + 256 * (b[3] + 256 * b[4]))

\* Faulty variant: a length without an upper limit.
CorruptIfShort(b) == LengthOf(b) < 4

Corrupt(b) == LengthOf(b) < 4 \/ LengthOf(b) > MaxLength

Complete(b) == Len(b) >= 4 + LengthOf(b)

FirstFrame(b) ==
  [type |-> b[5], flags |-> b[6], seq |-> b[7] + 256 * b[8],
   payload |-> SubSeq(b, 9, 4 + LengthOf(b))]

\* Faulty variant: the length bytes are not counted.
BehindPayload(b) == SubSeq(b, 1 + LengthOf(b), Len(b))

Behind(b) == SubSeq(b, 5 + LengthOf(b), Len(b))

-----------------------------------------------------------------------------
CodecInit ==
  /\ sent = <<>> /\ stream = <<>> /\ arrived = 0 /\ received = <<>>
  /\ buf = <<>> /\ draining = FALSE /\ clean = TRUE

\* send_frame
Send(f) ==
  /\ clean /\ Len(stream) + Len(Encode(f)) <= MaxStream
  /\ sent' = Append(sent, f)
  /\ stream' = stream \o Encode(f)
  /\ UNCHANGED <<arrived, buf, received, draining, clean>>

\* Bytes that are no frame of a peer that keeps to the protocol.
Disturb(g) ==
  /\ Len(stream) + Len(g) <= MaxStream
  /\ stream' = stream \o g
  /\ clean' = FALSE
  /\ UNCHANGED <<sent, arrived, buf, received, draining>>

\* recv() and append(): the next n bytes, up to a chunk.
Recv(n) ==
  /\ ~draining /\ arrived + n <= Len(stream)
  /\ buf' = buf \o SubSeq(stream, arrived + 1, arrived + n)
  /\ arrived' = arrived + n
  /\ draining' = TRUE
  /\ UNCHANGED <<sent, stream, received, clean>>

\* next() yields a frame.
Yield ==
  /\ draining /\ Len(buf) >= 4 /\ ~Corrupt(buf) /\ Complete(buf)
  /\ received' = Append(received, FirstFrame(buf))
  /\ buf' = Behind(buf)
  /\ UNCHANGED <<sent, stream, arrived, draining, clean>>

\* next() yields none: too few bytes yet.
Wait ==
  /\ draining
  /\ Len(buf) >= 4 => ~Corrupt(buf) /\ ~Complete(buf)
  /\ draining' = FALSE
  /\ UNCHANGED <<sent, stream, arrived, buf, received, clean>>

\* next() yields none: the length is corrupt.  When nothing of the stream is left
\* on its way the record begins anew: what is sent from now on meets an empty buffer.
Reset ==
  /\ draining /\ Len(buf) >= 4 /\ Corrupt(buf)
  /\ buf' = <<>>
  /\ draining' = FALSE
  /\ IF arrived = Len(stream)
     THEN /\ sent' = <<>> /\ stream' = <<>> /\ arrived' = 0 /\ received' = <<>>
          /\ clean' = TRUE
     ELSE UNCHANGED <<sent, stream, arrived, received, clean>>

CodecNext ==
  \/ \E f \in Frames : Send(f)
  \/ \E g \in Garbage : Disturb(g)
  \/ \E n \in 1..MaxChunk : Recv(n)
  \/ Yield \/ Wait \/ Reset

CodecSpec == CodecInit /\ [][CodecNext]_codecVars

-----------------------------------------------------------------------------
(***************************************************************************)
(* Properties                                                              *)
(***************************************************************************)
\* However TCP cuts the stream, the frames yielded are the frames sent, also when a
\* payload looks like a length. When all has arrived none is missing and nothing
\* stays buffered; what is no frame costs none of the frames before it.
FramesSurviveSplits ==
  /\ \A k \in 1..Len(sent) : k <= Len(received) => received[k] = sent[k]
  /\ ~draining /\ arrived = Len(stream) =>
       /\ Len(received) >= Len(sent)
       /\ clean => received = sent /\ buf = <<>>

\* "Reset stream rather than grow without bound": whatever length a header states
\* and however much follows, less than one frame stays buffered between two calls of
\* recv(), and one chunk more in the loop over next().
CorruptionContained ==
  Len(buf) < 4 + MaxLength + (IF draining THEN MaxChunk ELSE 0)
=============================================================================
