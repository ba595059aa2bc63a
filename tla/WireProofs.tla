------------------------------ MODULE WireProofs ------------------------------
(***************************************************************************)
(* What the framing promises, for every sequence of frames of any legal    *)
(* content and every way to cut the stream.                                *)
(***************************************************************************)
EXTENDS FrameCodec, JsonUtil, SequenceTheorems, TLAPS

-----------------------------------------------------------------------------
(* Sequences *)

LEMMA Joined ==
  ASSUME NEW s \in Seq(Byte), NEW t \in Seq(Byte), NEW u, u = s \o t
  PROVE  /\ u \in Seq(Byte) /\ Len(u) = Len(s) + Len(t)
         /\ \A i \in 1..Len(s) : u[i] = s[i]
         /\ \A i \in 1..Len(t) : u[Len(s) + i] = t[i]
<1>1. /\ u \in Seq(Byte) /\ Len(u) = Len(s) + Len(t)
      /\ \A i \in 1..Len(s) + Len(t) : u[i] = IF i <= Len(s) THEN s[i] ELSE t[i - Len(s)]
  BY ConcatProperties, Zenon
<1>2. Len(s) \in Nat /\ Len(t) \in Nat
  BY LenProperties
<1>3. ASSUME NEW i \in 1..Len(s) PROVE u[i] = s[i]
  <2>1. i \in 1..Len(s) + Len(t) /\ i <= Len(s)
    BY <1>2
  <2> QED BY <2>1, <1>1
<1>4. ASSUME NEW i \in 1..Len(t) PROVE u[Len(s) + i] = t[i]
  <2>1. /\ Len(s) + i \in 1..Len(s) + Len(t) /\ ~(Len(s) + i <= Len(s))
        /\ (Len(s) + i) - Len(s) = i
    BY <1>2
  <2> QED BY <2>1, <1>1
<1> QED BY <1>1, <1>3, <1>4

LEMMA Eight ==
  ASSUME NEW S, NEW a \in S, NEW b \in S, NEW c \in S, NEW d \in S,
         NEW e \in S, NEW f \in S, NEW g \in S, NEW h \in S,
         NEW s, s = <<a, b, c, d, e, f, g, h>>
  PROVE  /\ s \in Seq(S) /\ Len(s) = 8
         /\ s[1] = a /\ s[2] = b /\ s[3] = c /\ s[4] = d
         /\ s[5] = e /\ s[6] = f /\ s[7] = g /\ s[8] = h
OBVIOUS

-----------------------------------------------------------------------------
(* A frame and its bytes *)

LEMMA OneByte ==
  ASSUME NEW n \in Nat
  PROVE  /\ Low8(n) \in Byte /\ Shr8(n) \in Nat /\ Low8(n) + 256 * Shr8(n) = n
         /\ n < 256 => Low8(n) = n
  BY DEF Low8, Shr8, Byte

LEMMA FewerBits ==
  ASSUME NEW m \in Nat, NEW n \in Nat, m <= n
  PROVE  Shr8(m) <= Shr8(n)
  BY DEF Shr8

LEMMA TwoBytes ==
  ASSUME NEW n \in Word
  PROVE  /\ Low8(n) \in Byte /\ Low8(Shr8(n)) \in Byte
         /\ Low8(n) + 256 * Low8(Shr8(n)) = n
<1>1. n \in Nat /\ Shr8(n) < 256
  BY DEF Word
<1> QED BY <1>1, OneByte

LEMMA FourBytes ==
  ASSUME NEW n \in Nat, Shr8(Shr8(Shr8(n))) < 256
  PROVE  /\ Low8(n) \in Byte /\ Low8(Shr8(n)) \in Byte
         /\ Low8(Shr8(Shr8(n))) \in Byte /\ Low8(Shr8(Shr8(Shr8(n)))) \in Byte
         /\ Low8(n) + 256 * (Low8(Shr8(n))
              + 256 * (Low8(Shr8(Shr8(n))) + 256 * Low8(Shr8(Shr8(Shr8(n)))))) = n
<1>1. PICK a \in Nat : a = Shr8(n) /\ Low8(n) \in Byte /\ Low8(n) + 256 * a = n
  BY OneByte
<1>2. PICK b \in Nat : b = Shr8(a) /\ Low8(a) \in Byte /\ Low8(a) + 256 * b = a
  BY OneByte
<1>3. PICK c \in Nat : c = Shr8(b) /\ Low8(b) \in Byte /\ Low8(b) + 256 * c = b
  BY OneByte
<1>4. Low8(c) \in Byte /\ Low8(c) = c
  <2>1. c < 256
    BY <1>1, <1>2, <1>3
  <2> QED BY <2>1, OneByte
<1>5. Low8(n) + 256 * (Low8(a) + 256 * (Low8(b) + 256 * Low8(c))) = n
  BY <1>1, <1>2, <1>3, <1>4
<1> QED BY <1>1, <1>2, <1>3, <1>4, <1>5

Short(f) == f \in AnyFrame /\ 4 + Len(f.payload) <= MaxLength

LEMMA HeaderBytes ==
  ASSUME NEW f, Short(f), NEW h, h = Header(f)
  PROVE  /\ h \in Seq(Byte) /\ Len(h) = 8
         /\ LengthOf(h) = 4 + Len(f.payload)
         /\ h[5] = f.type /\ h[6] = f.flags
         /\ h[7] + 256 * h[8] = f.seq
<1>1. /\ f.type \in Byte /\ f.flags \in Byte /\ f.seq \in Word
      /\ f.payload \in Seq(Byte) /\ 4 + Len(f.payload) <= MaxLength
  BY DEF Short, AnyFrame
<1>2. PICK n \in Nat : n = 4 + Len(f.payload) /\ n <= MaxLength
  BY <1>1, LenProperties
<1>3. Shr8(Shr8(Shr8(n))) < 256
  <2>1. MaxLength \in Nat /\ Shr8(Shr8(Shr8(MaxLength))) < 256
    BY CodecAssumption
  <2>2. PICK x, y \in Nat : x = Shr8(n) /\ y = Shr8(MaxLength) /\ x <= y
    <3>1. Shr8(n) \in Nat /\ Shr8(MaxLength) \in Nat
      BY <2>1, OneByte
    <3> QED BY <1>2, <2>1, <3>1, FewerBits
  <2>3. PICK v, w \in Nat : v = Shr8(x) /\ w = Shr8(y) /\ v <= w
    <3>1. Shr8(x) \in Nat /\ Shr8(y) \in Nat
      BY OneByte
    <3> QED BY <2>2, <3>1, FewerBits
  <2>4. Shr8(v) \in Nat /\ Shr8(w) \in Nat
    BY OneByte
  <2>5. Shr8(v) <= Shr8(w)
    BY <2>3, FewerBits
  <2>6. Shr8(w) < 256
    BY <2>1, <2>2, <2>3
  <2> QED BY <2>2, <2>3, <2>4, <2>5, <2>6
<1>4. PICK a, b, c, d \in Byte :
        /\ Low8(n) = a /\ Low8(Shr8(n)) = b /\ Low8(Shr8(Shr8(n))) = c
        /\ Low8(Shr8(Shr8(Shr8(n)))) = d
        /\ a + 256 * (b + 256 * (c + 256 * d)) = n
  BY <1>3, FourBytes
<1>5. PICK u, v \in Byte : /\ Low8(f.seq) = u /\ Low8(Shr8(f.seq)) = v
                           /\ u + 256 * v = f.seq
  BY <1>1, TwoBytes
<1>6. h = <<a, b, c, d, f.type, f.flags, u, v>>
  BY <1>2, <1>4, <1>5 DEF Header
<1>7. /\ h \in Seq(Byte) /\ Len(h) = 8
      /\ h[1] = a /\ h[2] = b /\ h[3] = c /\ h[4] = d
      /\ h[5] = f.type /\ h[6] = f.flags /\ h[7] = u /\ h[8] = v
  BY <1>1, <1>6, Eight
<1>8. LengthOf(h) = 4 + Len(f.payload)
  BY <1>2, <1>4, <1>7 DEF LengthOf
<1> QED BY <1>5, <1>7, <1>8

\* The bytes of a frame, one by one.
Holds(e, f) ==
  /\ e \in Seq(Byte) /\ Len(e) = 8 + Len(f.payload)
  /\ LengthOf(e) = 4 + Len(f.payload)
  /\ e[5] = f.type /\ e[6] = f.flags
  /\ e[7] + 256 * e[8] = f.seq
  /\ \A i \in 1..Len(f.payload) : e[8 + i] = f.payload[i]

LEMMA FrameBytes ==
  ASSUME NEW f, Short(f), NEW e, e = Encode(f)
  PROVE  Holds(e, f)
<1>1. PICK h : h = Header(f)
  OBVIOUS
<1>2. /\ h \in Seq(Byte) /\ Len(h) = 8
      /\ LengthOf(h) = 4 + Len(f.payload)
      /\ h[5] = f.type /\ h[6] = f.flags
      /\ h[7] + 256 * h[8] = f.seq
  BY <1>1, HeaderBytes
<1>3. f.payload \in Seq(Byte) /\ Len(f.payload) \in Nat
  BY LenProperties DEF Short, AnyFrame
<1>4. e = h \o f.payload
  BY <1>1 DEF Encode
<1>5. /\ e \in Seq(Byte) /\ Len(e) = Len(h) + Len(f.payload)
      /\ \A i \in 1..Len(h) : e[i] = h[i]
      /\ \A i \in 1..Len(f.payload) : e[Len(h) + i] = f.payload[i]
  <2>1. PICK p \in Seq(Byte) : p = f.payload
    BY <1>3
  <2>2. e = h \o p /\ h \in Seq(Byte)
    BY <1>2, <1>4, <2>1
  <2>3. /\ e \in Seq(Byte) /\ Len(e) = Len(h) + Len(p)
        /\ \A i \in 1..Len(h) : e[i] = h[i]
        /\ \A i \in 1..Len(p) : e[Len(h) + i] = p[i]
    BY ONLY <2>2, p \in Seq(Byte), Joined
  <2> QED BY <2>1, <2>3
<1>6. /\ e[1] = h[1] /\ e[2] = h[2] /\ e[3] = h[3] /\ e[4] = h[4]
      /\ e[5] = h[5] /\ e[6] = h[6] /\ e[7] = h[7] /\ e[8] = h[8]
  BY <1>2, <1>5
<1> QED BY <1>2, <1>3, <1>5, <1>6 DEF LengthOf, Holds

LEMMA Cut ==
  ASSUME NEW s \in Seq(Byte), NEW m \in Nat, NEW n \in Nat, 1 <= m, n <= Len(s),
         m <= n + 1, NEW u, u = SubSeq(s, m, n)
  PROVE  /\ u \in Seq(Byte) /\ Len(u) = n - m + 1
         /\ \A i \in 1..n - m + 1 : u[i] = s[m + i - 1]
<1>1. ASSUME NEW i \in m..n PROVE s[i] \in Byte
  <2>1. i \in 1..Len(s)
    BY LenProperties
  <2> QED BY <2>1, ElementOfSeq
<1>2. /\ u \in Seq(Byte) /\ Len(u) = IF m <= n THEN n - m + 1 ELSE 0
      /\ \A i \in 1..n - m + 1 : u[i] = s[m + i - 1]
  BY <1>1, SubSeqProperties
<1> QED BY <1>2

\* A buffer that begins like the bytes of a frame, as far as it goes.
Begins(b, e) == \A i \in 1..Len(b) : i <= Len(e) => b[i] = e[i]

\* The decoder finds the frame the moment its last byte has arrived, and leaves
\* what is behind it.
LEMMA FirstIsFrame ==
  ASSUME NEW f, Short(f), NEW e, e = Encode(f),
         NEW b \in Seq(Byte), Len(b) >= 4, Begins(b, e)
  PROVE  /\ ~Corrupt(b)
         /\ Complete(b) <=> Len(b) >= Len(e)
         /\ Complete(b) =>
              /\ FirstFrame(b) = f
              /\ Behind(b) \in Seq(Byte) /\ Len(Behind(b)) = Len(b) - Len(e)
              /\ \A i \in 1..Len(b) - Len(e) : Behind(b)[i] = b[Len(e) + i]
<1>1. PICK n : n = Len(f.payload)
  OBVIOUS
<1>2. /\ e \in Seq(Byte) /\ Len(e) = 8 + n /\ LengthOf(e) = 4 + n
      /\ e[5] = f.type /\ e[6] = f.flags
      /\ e[7] + 256 * e[8] = f.seq
      /\ \A i \in 1..n : e[8 + i] = f.payload[i]
  <2>1. Holds(e, f)
    BY FrameBytes
  <2> QED BY ONLY <1>1, <2>1 DEF Holds
<1>3. /\ f \in [type : Byte, flags : Byte, seq : Word, payload : Seq(Byte)]
      /\ 4 + n <= MaxLength
  BY <1>1 DEF Short, AnyFrame
<1>4. PICK p \in Seq(Byte) : p = f.payload /\ n = Len(p)
  BY <1>1, <1>3
<1>5. n \in Nat /\ Len(b) \in Nat /\ MaxLength \in Nat
  BY <1>4, LenProperties, CodecAssumption
<1>6. \A i \in 1..Len(b) : i <= 8 + n => b[i] = e[i]
  BY <1>2 DEF Begins
<1>7. LengthOf(b) = 4 + n
  <2>1. b[1] = e[1] /\ b[2] = e[2] /\ b[3] = e[3] /\ b[4] = e[4]
    BY <1>5, <1>6
  <2> QED BY <2>1, <1>2 DEF LengthOf
<1>8. ~Corrupt(b)
  BY <1>3, <1>5, <1>7 DEF Corrupt
<1>9. Complete(b) <=> Len(b) >= Len(e)
  BY <1>2, <1>5, <1>7 DEF Complete
<1>10. ASSUME Complete(b)
       PROVE  /\ FirstFrame(b) = f
              /\ Behind(b) \in Seq(Byte) /\ Len(Behind(b)) = Len(b) - Len(e)
              /\ \A i \in 1..Len(b) - Len(e) : Behind(b)[i] = b[Len(e) + i]
  <2>1. Len(b) >= 8 + n
    BY <1>2, <1>9, <1>10
  <2>2. b[5] = f.type /\ b[6] = f.flags /\ b[7] + 256 * b[8] = f.seq
    <3>1. b[5] = e[5] /\ b[6] = e[6] /\ b[7] = e[7] /\ b[8] = e[8]
      BY <1>5, <1>6, <2>1
    <3> QED BY <3>1, <1>2
  <2>3. PICK q : q = SubSeq(b, 9, 8 + n)
    OBVIOUS
  <2>4. q \in Seq(Byte) /\ Len(q) = n /\ \A i \in 1..n : q[i] = b[9 + i - 1]
    <3>1. 9 \in Nat /\ 8 + n \in Nat /\ 1 <= 9 /\ 8 + n <= Len(b) /\ 9 <= (8 + n) + 1
      BY <1>5, <2>1
    <3>2. /\ q \in Seq(Byte) /\ Len(q) = (8 + n) - 9 + 1
          /\ \A i \in 1..(8 + n) - 9 + 1 : q[i] = b[9 + i - 1]
      BY ONLY <2>3, <3>1, b \in Seq(Byte), Cut
    <3> QED BY <3>2, <1>5
  <2>5. q = p
    <3>1. ASSUME NEW i \in 1..n PROVE q[i] = p[i]
      <4>1. /\ 9 + i - 1 = 8 + i /\ 8 + i \in 1..Len(b) /\ 8 + i <= 8 + n
        BY <1>5, <2>1
      <4>2. q[i] = b[8 + i] /\ b[8 + i] = e[8 + i] /\ e[8 + i] = p[i]
        BY <4>1, <2>4, <1>2, <1>4, <1>6
      <4> QED BY <4>2
    <3> QED BY <3>1, <1>4, <2>4, SeqEqual
  <2>6. FirstFrame(b) = f
    <3>1. FirstFrame(b) = [type |-> f.type, flags |-> f.flags, seq |-> f.seq,
                           payload |-> f.payload]
      <4>1. SubSeq(b, 9, 4 + LengthOf(b)) = p
        <5>1. 4 + LengthOf(b) = 8 + n
          BY <1>5, <1>7
        <5> QED BY <5>1, <2>3, <2>5
      <4> QED BY <4>1, <2>2, <1>4 DEF FirstFrame
    <3> QED BY <3>1, <1>3
  <2>7. PICK r : r = Behind(b)
    OBVIOUS
  <2>8. r = SubSeq(b, 9 + n, Len(b))
    <3>1. 5 + LengthOf(b) = 9 + n
      BY <1>5, <1>7
    <3> QED BY <3>1, <2>7 DEF Behind
  <2>9. /\ 9 + n \in Nat /\ Len(b) \in Nat /\ 1 <= 9 + n /\ Len(b) <= Len(b)
        /\ 9 + n <= Len(b) + 1
    BY <1>5, <2>1
  <2>10. /\ r \in Seq(Byte) /\ Len(r) = Len(b) - (9 + n) + 1
         /\ \A i \in 1..Len(b) - (9 + n) + 1 : r[i] = b[(9 + n) + i - 1]
    BY ONLY <2>8, <2>9, b \in Seq(Byte), Cut
  <2>11. ASSUME NEW i \in 1..Len(b) - Len(e) PROVE r[i] = b[Len(e) + i]
    <3>1. /\ i \in 1..Len(b) - (9 + n) + 1 /\ (9 + n) + i - 1 = Len(e) + i
      BY <1>2, <1>5, <2>1
    <3> QED BY <3>1, <2>10
  <2>12. Len(r) = Len(b) - Len(e)
    BY <1>2, <1>5, <2>10
  <2> QED BY <2>6, <2>7, <2>10, <2>11, <2>12
<1> QED BY <1>8, <1>9, <1>10

-----------------------------------------------------------------------------
(***************************************************************************)
(* The inductive invariant: the frames lie one behind the other in the     *)
(* stream, ends[k] bytes up to the end of the k-th, and the buffer is the  *)
(* part of the stream between the last frame yielded and what has arrived. *)
(* Only behind the last frame, when something else follows it, is the      *)
(* decoder lost.                                                           *)
(***************************************************************************)
TypeOK ==
  /\ sent \in Seq(Frames) /\ stream \in Seq(Byte) /\ arrived \in 0..Len(stream)
  /\ buf \in Seq(Byte) /\ received \in Seq(AnyFrame)
  /\ draining \in BOOLEAN /\ clean \in BOOLEAN

Laid(ends) ==
  /\ ends \in [0..Len(sent) -> Nat] /\ ends[0] = 0
  /\ \A k \in 1..Len(sent) :
       LET e == Encode(sent[k])
       IN  /\ ends[k] = ends[k - 1] + Len(e) /\ ends[k] <= Len(stream)
           /\ \A i \in 1..Len(e) : stream[ends[k - 1] + i] = e[i]
  /\ clean => ends[Len(sent)] = Len(stream)

InStep(ends) ==
  /\ Len(received) <= Len(sent)
  /\ ends[Len(received)] + Len(buf) = arrived
  /\ \A i \in 1..Len(buf) : buf[i] = stream[ends[Len(received)] + i]

Lost == ~clean /\ Len(received) >= Len(sent)

Placed == \E ends : Laid(ends) /\ (InStep(ends) \/ Lost)

Prefix == \A k \in 1..Len(sent) : k <= Len(received) => received[k] = sent[k]

Drained == ~draining /\ Len(buf) >= 4 => ~Corrupt(buf) /\ ~Complete(buf)

IInv == TypeOK /\ Prefix /\ Drained /\ CorruptionContained /\ Placed

-----------------------------------------------------------------------------
LEMMA FramesAreShort ==
  ASSUME NEW f \in Frames
  PROVE  Short(f)
BY CodecAssumption DEF Short

LEMMA FrameLength ==
  ASSUME NEW f \in Frames
  PROVE  Encode(f) \in Seq(Byte) /\ Len(Encode(f)) \in Nat /\ Len(Encode(f)) >= 8
<1>1. Short(f)
  BY FramesAreShort
<1>2. PICK e : e = Encode(f)
  OBVIOUS
<1>3. e \in Seq(Byte) /\ Len(e) = 8 + Len(f.payload)
  <2>1. Holds(e, f)
    BY <1>1, <1>2, FrameBytes
  <2> QED BY ONLY <2>1 DEF Holds
<1>4. Len(f.payload) \in Nat
  <2>1. f.payload \in Seq(Byte)
    BY <1>1 DEF Short, AnyFrame
  <2> QED BY <2>1, LenProperties
<1> QED BY <1>2, <1>3, <1>4

LEMMA Types ==
  ASSUME TypeOK
  PROVE  /\ Len(sent) \in Nat /\ Len(stream) \in Nat /\ Len(buf) \in Nat
         /\ Len(received) \in Nat /\ arrived \in Nat /\ arrived <= Len(stream)
         /\ MaxLength \in Nat /\ MaxChunk \in Nat
         /\ \A k \in 1..Len(sent) : sent[k] \in Frames
<1>1. /\ Len(sent) \in Nat /\ Len(stream) \in Nat /\ Len(buf) \in Nat
      /\ Len(received) \in Nat
  BY LenProperties DEF TypeOK
<1>2. \A k \in 1..Len(sent) : sent[k] \in Frames
  BY ElementOfSeq DEF TypeOK
<1> QED BY <1>1, <1>2, CodecAssumption DEF TypeOK

LEMMA AnyLength ==
  ASSUME NEW b \in Seq(Byte), Len(b) >= 4
  PROVE  LengthOf(b) \in Nat
<1>1. Len(b) \in Nat
  BY LenProperties
<1>2. b[1] \in Byte /\ b[2] \in Byte /\ b[3] \in Byte /\ b[4] \in Byte
  BY <1>1, ElementOfSeq
<1>3. PICK x, y, z, t \in Nat : b[1] = x /\ b[2] = y /\ b[3] = z /\ b[4] = t
  BY <1>2 DEF Byte
<1>4. LengthOf(b) = x + 256 * (y + 256 * (z + 256 * t))
  BY <1>3 DEF LengthOf
<1>5. x + 256 * (y + 256 * (z + 256 * t)) \in Nat
  OBVIOUS
<1> QED BY <1>4, <1>5

LEMMA AnyYield ==
  ASSUME NEW b \in Seq(Byte), Len(b) >= 4, ~Corrupt(b), Complete(b)
  PROVE  /\ FirstFrame(b) \in AnyFrame
         /\ Behind(b) \in Seq(Byte) /\ Len(Behind(b)) = Len(b) - 4 - LengthOf(b)
         /\ LengthOf(b) >= 4
<1>1. PICK n : n = LengthOf(b)
  OBVIOUS
<1>2. Len(b) \in Nat /\ n \in Nat /\ MaxLength \in Nat
  BY <1>1, AnyLength, LenProperties, CodecAssumption
<1>3. n >= 4 /\ Len(b) >= 4 + n
  BY <1>1, <1>2 DEF Corrupt, Complete
<1>4. b[5] \in Byte /\ b[6] \in Byte /\ b[7] \in Byte /\ b[8] \in Byte
  <2>1. 5 \in 1..Len(b) /\ 6 \in 1..Len(b) /\ 7 \in 1..Len(b) /\ 8 \in 1..Len(b)
    BY <1>2, <1>3
  <2> QED BY <2>1, ElementOfSeq
<1>5. PICK w : w = b[7] + 256 * b[8]
  OBVIOUS
<1>6. w \in Word
  <2> PICK x, y \in Nat : b[7] = x /\ b[8] = y /\ x < 256 /\ y < 256
    BY <1>4 DEF Byte
  <2>1. w \in Nat /\ w = x + 256 * y
    BY <1>5
  <2>2. Shr8(w) \in Nat /\ Low8(w) \in Nat /\ Low8(w) + 256 * Shr8(w) = w
    <3>1. w \in Nat
      BY <2>1
    <3>2. Low8(w) \in Byte /\ Shr8(w) \in Nat /\ Low8(w) + 256 * Shr8(w) = w
      BY ONLY <3>1, OneByte
    <3> QED BY <3>2 DEF Byte
  <2>3. Shr8(w) < 256
    BY <2>1, <2>2
  <2> QED BY <2>1, <2>3 DEF Word
<1>7. PICK q : q = SubSeq(b, 9, 4 + n)
  OBVIOUS
<1>8. q \in Seq(Byte)
  <2>1. 9 \in Nat /\ 4 + n \in Nat /\ 1 <= 9 /\ 4 + n <= Len(b)
    BY <1>2, <1>3
  <2>2. ASSUME NEW i \in 9..4 + n PROVE b[i] \in Byte
    <3>1. i \in 1..Len(b)
      BY <1>2, <2>1
    <3> QED BY <3>1, ElementOfSeq
  <2> QED BY <1>7, <2>1, <2>2, SubSeqProperties
<1>9. FirstFrame(b) \in AnyFrame
  <2>1. FirstFrame(b) = [type |-> b[5], flags |-> b[6], seq |-> w, payload |-> q]
    BY <1>1, <1>5, <1>7 DEF FirstFrame
  <2> QED BY <2>1, <1>4, <1>6, <1>8 DEF AnyFrame
<1>10. PICK r : r = Behind(b)
  OBVIOUS
<1>11. r \in Seq(Byte) /\ Len(r) = Len(b) - 4 - n
  <2>1. r = SubSeq(b, 5 + n, Len(b))
    BY <1>1, <1>10 DEF Behind
  <2>2. /\ 5 + n \in Nat /\ Len(b) \in Nat /\ 1 <= 5 + n /\ Len(b) <= Len(b)
        /\ 5 + n <= Len(b) + 1
    BY <1>2, <1>3
  <2>3. r \in Seq(Byte) /\ Len(r) = Len(b) - (5 + n) + 1
    BY ONLY <2>1, <2>2, b \in Seq(Byte), Cut
  <2> QED BY <2>3, <1>2
<1> QED BY <1>1, <1>3, <1>9, <1>10, <1>11

\* While a frame is on its way the buffer begins like it.
LEMMA NextFrame ==
  ASSUME TypeOK, NEW ends, Laid(ends), InStep(ends), Len(received) < Len(sent),
         NEW m, m = Len(received) + 1
  PROVE  /\ Short(sent[m]) /\ m \in 1..Len(sent)
         /\ Len(Encode(sent[m])) \in Nat /\ Len(Encode(sent[m])) >= 8
         /\ Begins(buf, Encode(sent[m]))
         /\ ends[m] = ends[Len(received)] + Len(Encode(sent[m]))
         /\ ends[m] \in Nat /\ ends[Len(received)] \in Nat /\ ends[m] <= Len(stream)
<1>1. m \in 1..Len(sent) /\ m - 1 = Len(received) /\ sent[m] \in Frames
  BY Types
<1>2. PICK e : e = Encode(sent[m])
  OBVIOUS
<1>3. /\ ends[m] = ends[Len(received)] + Len(e) /\ ends[m] <= Len(stream)
      /\ \A i \in 1..Len(e) : stream[ends[Len(received)] + i] = e[i]
  BY <1>1, <1>2 DEF Laid
<1>4. ends[m] \in Nat /\ ends[Len(received)] \in Nat
  <2>1. m \in 0..Len(sent) /\ Len(received) \in 0..Len(sent)
    BY <1>1, Types
  <2> QED BY <2>1 DEF Laid
<1>5. Begins(buf, e)
  <2>1. ASSUME NEW i \in 1..Len(buf), i <= Len(e) PROVE buf[i] = e[i]
    <3>1. i \in 1..Len(e)
      BY <2>1, <1>1, <1>2, FrameLength, Types
    <3> QED BY <3>1, <1>3 DEF InStep
  <2> QED BY <2>1 DEF Begins
<1> QED BY <1>1, <1>2, <1>3, <1>4, <1>5, FramesAreShort, FrameLength

-----------------------------------------------------------------------------
(* The actions *)

LEMMA InitInv == CodecInit => IInv
<1> SUFFICES ASSUME CodecInit PROVE IInv
  OBVIOUS
<1>1. Len(sent) = 0 /\ Len(stream) = 0 /\ Len(buf) = 0 /\ Len(received) = 0
  BY EmptySeq DEF CodecInit
<1>2. TypeOK
  <2>1. <<>> \in Seq(Frames) /\ <<>> \in Seq(Byte) /\ <<>> \in Seq(AnyFrame)
    BY EmptySeq
  <2>2. /\ sent \in Seq(Frames) /\ stream \in Seq(Byte) /\ buf \in Seq(Byte)
        /\ received \in Seq(AnyFrame)
    BY <2>1 DEF CodecInit
  <2>3. arrived \in 0..Len(stream)
    BY <1>1 DEF CodecInit
  <2>4. draining \in BOOLEAN /\ clean \in BOOLEAN
    BY DEF CodecInit
  <2> QED BY <2>2, <2>3, <2>4 DEF TypeOK
<1>3. Placed
  <2> DEFINE ends == [k \in 0..0 |-> 0]
  <2>1. ends \in [0..Len(sent) -> Nat] /\ ends[0] = 0
    BY <1>1
  <2> HIDE DEF ends
  <2>2. Laid(ends)
    BY <1>1, <2>1 DEF Laid
  <2>3. InStep(ends)
    BY <1>1, <2>1 DEF InStep, CodecInit
  <2> QED BY <2>2, <2>3 DEF Placed
<1>4. Prefix /\ Drained
  BY <1>1 DEF Prefix, Drained
<1>5. CorruptionContained
  BY <1>1, CodecAssumption DEF CorruptionContained, CodecInit
<1> QED BY <1>2, <1>3, <1>4, <1>5 DEF IInv

LEMMA SendInv ==
  ASSUME IInv, NEW f \in Frames, Send(f)
  PROVE  IInv'
<1>1. TypeOK /\ Prefix /\ Drained /\ CorruptionContained
  BY DEF IInv
<1>2. PICK ends : Laid(ends) /\ InStep(ends)
  BY DEF IInv, Placed, Lost, Send
<1>3. PICK e : e = Encode(f) /\ e \in Seq(Byte) /\ Len(e) \in Nat /\ Len(e) >= 8
  BY FrameLength
<1>4. PICK N, L \in Nat : N = Len(sent) /\ L = Len(stream)
  BY <1>1, Types
<1>5. /\ sent' = Append(sent, f) /\ stream' = stream \o e
      /\ arrived' = arrived /\ buf' = buf /\ received' = received
      /\ draining' = draining /\ clean' = clean /\ clean
  BY <1>3 DEF Send
<1>6. /\ sent' \in Seq(Frames) /\ Len(sent') = N + 1
      /\ \A k \in 1..N : sent'[k] = sent[k]
      /\ sent'[N + 1] = f
  BY <1>1, <1>4, <1>5, AppendProperties DEF TypeOK
<1>7. /\ stream' \in Seq(Byte) /\ Len(stream') = L + Len(e)
      /\ \A i \in 1..L : stream'[i] = stream[i]
      /\ \A i \in 1..Len(e) : stream'[L + i] = e[i]
  <2>1. stream \in Seq(Byte)
    BY <1>1 DEF TypeOK
  <2>2. /\ stream' \in Seq(Byte) /\ Len(stream') = Len(stream) + Len(e)
        /\ \A i \in 1..Len(stream) : stream'[i] = stream[i]
        /\ \A i \in 1..Len(e) : stream'[Len(stream) + i] = e[i]
    BY ONLY <1>3, <1>5, <2>1, Joined
  <2> QED BY <2>2, <1>4
<1>8. TypeOK'
  BY <1>1, <1>3, <1>4, <1>5, <1>6, <1>7 DEF TypeOK
<1>9. Len(received) \in 0..N
  BY <1>1, <1>2, <1>4, Types DEF InStep
<1>10. Placed'
  <2> DEFINE after == [k \in 0..N + 1 |-> IF k <= N THEN ends[k] ELSE L + Len(e)]
  <2>1. /\ ends \in [0..N -> Nat] /\ ends[0] = 0 /\ ends[N] = L
        /\ \A k \in 1..N :
             /\ ends[k] = ends[k - 1] + Len(Encode(sent[k])) /\ ends[k] <= L
             /\ \A i \in 1..Len(Encode(sent[k])) :
                  stream[ends[k - 1] + i] = Encode(sent[k])[i]
    BY <1>2, <1>4, <1>5 DEF Laid
  <2>2. /\ after \in [0..N + 1 -> Nat] /\ after[N + 1] = L + Len(e)
        /\ \A k \in 0..N : after[k] = ends[k]
    BY <1>3, <1>4, <2>1
  <2> HIDE DEF after
  <2>3. ASSUME NEW k \in 1..N + 1
        PROVE  /\ after[k] = after[k - 1] + Len(Encode(sent'[k]))
               /\ after[k] <= L + Len(e)
               /\ \A i \in 1..Len(Encode(sent'[k])) :
                    stream'[after[k - 1] + i] = Encode(sent'[k])[i]
    <3>1. CASE k = N + 1
      <4>1. after[k - 1] = L /\ Encode(sent'[k]) = e /\ after[k] = L + Len(e)
        BY <3>1, <1>3, <1>4, <1>6, <2>1, <2>2
      <4> QED BY <4>1, <1>3, <1>4, <1>7
    <3>2. CASE k \in 1..N
      <4>1. /\ sent'[k] = sent[k] /\ after[k] = ends[k] /\ after[k - 1] = ends[k - 1]
            /\ ends[k] \in Nat /\ ends[k - 1] \in Nat /\ sent[k] \in Frames
        <5>1. k \in 0..N /\ k - 1 \in 0..N
          BY <3>2, <1>4
        <5> QED BY <5>1, <3>2, <1>1, <1>4, <1>6, <2>1, <2>2, Types
      <4>2. PICK c : /\ c = Encode(sent[k]) /\ c \in Seq(Byte) /\ Len(c) \in Nat
        BY <4>1, FrameLength
      <4>3. /\ ends[k] = ends[k - 1] + Len(c) /\ ends[k] <= L
            /\ \A i \in 1..Len(c) : stream[ends[k - 1] + i] = c[i]
        BY <3>2, <2>1, <4>2
      <4>4. ASSUME NEW i \in 1..Len(c) PROVE stream'[ends[k - 1] + i] = c[i]
        <5>1. ends[k - 1] + i \in 1..L
          BY <4>1, <4>2, <4>3, <1>4
        <5> QED BY <5>1, <4>3, <1>7
      <4>5. ends[k] <= L + Len(e)
        BY <4>1, <4>3, <1>3, <1>4
      <4> QED BY <4>1, <4>2, <4>3, <4>4, <4>5
    <3> QED BY <3>1, <3>2, <1>4
  <2>4. Laid(after)'
    BY <1>4, <1>6, <1>7, <2>1, <2>2, <2>3 DEF Laid
  <2>5. InStep(after)'
    <3>1. /\ after[Len(received)] = ends[Len(received)] /\ ends[Len(received)] \in Nat
      BY <1>9, <2>1, <2>2
    <3>2. ASSUME NEW i \in 1..Len(buf)
          PROVE  buf[i] = stream'[ends[Len(received)] + i]
      <4>1. ends[Len(received)] + i \in 1..L
        BY <3>1, <1>1, <1>2, <1>4, Types DEF InStep
      <4> QED BY <4>1, <1>2, <1>7 DEF InStep
    <3>3. ends[Len(received)] + Len(buf) = arrived
      BY <1>2 DEF InStep
    <3>4. Len(received) <= N + 1
      BY <1>4, <1>9
    <3> QED BY <3>1, <3>2, <3>3, <3>4, <1>5, <1>6 DEF InStep
  <2> QED BY <2>4, <2>5 DEF Placed
<1>11. Prefix'
  <2> SUFFICES ASSUME NEW k \in 1..N + 1, k <= Len(received)
               PROVE  received[k] = sent'[k]
    BY <1>5, <1>6 DEF Prefix
  <2>1. k \in 1..N
    BY <1>4, <1>9
  <2> QED BY <2>1, <1>1, <1>4, <1>6 DEF Prefix
<1>12. Drained' /\ CorruptionContained'
  BY <1>1, <1>5 DEF Drained, CorruptionContained
<1> QED BY <1>8, <1>10, <1>11, <1>12 DEF IInv

\* More of the stream leaves the frames in it where they are.
LEMMA StaysLaid ==
  ASSUME TypeOK, NEW ends, Laid(ends), sent' = sent, stream' \in Seq(Byte),
         Len(stream') >= Len(stream),
         \A i \in 1..Len(stream) : stream'[i] = stream[i],
         clean' => clean /\ Len(stream') = Len(stream)
  PROVE  Laid(ends)'
<1>1. Len(sent) \in Nat /\ Len(stream) \in Nat /\ Len(stream') \in Nat
  BY Types, LenProperties
<1>2. /\ ends \in [0..Len(sent) -> Nat] /\ ends[0] = 0
      /\ clean => ends[Len(sent)] = Len(stream)
  BY DEF Laid
<1>3. ASSUME NEW k \in 1..Len(sent)
      PROVE  /\ ends[k] = ends[k - 1] + Len(Encode(sent[k])) /\ ends[k] <= Len(stream')
             /\ \A i \in 1..Len(Encode(sent[k])) :
                  stream'[ends[k - 1] + i] = Encode(sent[k])[i]
  <2>1. PICK c : c = Encode(sent[k]) /\ Len(c) \in Nat
    BY FrameLength, Types
  <2>2. /\ ends[k] = ends[k - 1] + Len(c) /\ ends[k] <= Len(stream)
        /\ \A i \in 1..Len(c) : stream[ends[k - 1] + i] = c[i]
    BY <2>1 DEF Laid
  <2>3. ends[k] \in Nat /\ ends[k - 1] \in Nat
    BY <1>1, <1>2
  <2>4. ASSUME NEW i \in 1..Len(c) PROVE stream'[ends[k - 1] + i] = c[i]
    <3>1. ends[k - 1] + i \in 1..Len(stream)
      BY <1>1, <2>1, <2>2, <2>3
    <3> QED BY <3>1, <2>2
  <2>5. ends[k] <= Len(stream')
    BY <1>1, <2>2, <2>3
  <2> QED BY <2>1, <2>2, <2>4, <2>5
<1> QED BY <1>1, <1>2, <1>3 DEF Laid

LEMMA DisturbInv ==
  ASSUME IInv, NEW g \in Garbage, Disturb(g)
  PROVE  IInv'
<1>1. TypeOK /\ Prefix /\ Drained /\ CorruptionContained
  BY DEF IInv
<1>2. PICK ends : Laid(ends) /\ (InStep(ends) \/ Lost)
  BY DEF IInv, Placed
<1>3. /\ stream' = stream \o g /\ clean' = FALSE
      /\ sent' = sent /\ arrived' = arrived /\ buf' = buf /\ received' = received
      /\ draining' = draining
  BY DEF Disturb
<1>4. /\ stream' \in Seq(Byte) /\ Len(stream') = Len(stream) + Len(g)
      /\ \A i \in 1..Len(stream) : stream'[i] = stream[i]
      /\ Len(stream) \in Nat /\ Len(g) \in Nat
  <2>1. stream \in Seq(Byte) /\ g \in Seq(Byte)
    BY <1>1, CodecAssumption DEF TypeOK
  <2>2. /\ stream' \in Seq(Byte) /\ Len(stream') = Len(stream) + Len(g)
        /\ \A i \in 1..Len(stream) : stream'[i] = stream[i]
    BY ONLY <1>3, <2>1, Joined
  <2> QED BY <2>1, <2>2, LenProperties
<1>5. TypeOK'
  <2>1. arrived \in 0..Len(stream')
    BY <1>1, <1>4, Types
  <2> QED BY <2>1, <1>1, <1>3, <1>4 DEF TypeOK
<1>6. Laid(ends)'
  BY <1>1, <1>2, <1>3, <1>4, StaysLaid
<1>7. InStep(ends)' \/ Lost'
  <2>1. CASE InStep(ends)
    <3>1. Len(received) \in 0..Len(sent) /\ ends[Len(received)] \in Nat
      BY <2>1, <1>1, <1>2, Types DEF InStep, Laid
    <3>2. ASSUME NEW i \in 1..Len(buf)
          PROVE  buf[i] = stream'[ends[Len(received)] + i]
      <4>1. ends[Len(received)] + i \in 1..Len(stream)
        BY <2>1, <3>1, <1>1, Types DEF InStep
      <4> QED BY <4>1, <2>1, <1>4 DEF InStep
    <3> QED BY <2>1, <3>2, <1>3 DEF InStep
  <2>2. CASE Lost
    BY <2>2, <1>3 DEF Lost
  <2> QED BY <2>1, <2>2, <1>2
<1>8. Prefix' /\ Drained' /\ CorruptionContained'
  BY <1>1, <1>3 DEF Prefix, Drained, CorruptionContained
<1> QED BY <1>5, <1>6, <1>7, <1>8 DEF IInv, Placed

LEMMA RecvInv ==
  ASSUME IInv, NEW n \in 1..MaxChunk, Recv(n)
  PROVE  IInv'
<1>1. TypeOK /\ Prefix /\ Drained /\ CorruptionContained
  BY DEF IInv
<1>2. PICK ends : Laid(ends) /\ (InStep(ends) \/ Lost)
  BY DEF IInv, Placed
<1>3. PICK part : part = SubSeq(stream, arrived + 1, arrived + n)
  OBVIOUS
<1>4. /\ ~draining /\ arrived + n <= Len(stream) /\ buf' = buf \o part
      /\ arrived' = arrived + n /\ draining' = TRUE
      /\ sent' = sent /\ stream' = stream /\ received' = received /\ clean' = clean
  BY <1>3 DEF Recv
<1>5. /\ n \in Nat /\ 1 <= n /\ n <= MaxChunk /\ arrived \in Nat /\ Len(stream) \in Nat
      /\ Len(buf) \in Nat /\ Len(sent) \in Nat /\ Len(received) \in Nat
      /\ MaxChunk \in Nat /\ MaxLength \in Nat
  BY <1>1, Types
<1>6. /\ part \in Seq(Byte) /\ Len(part) = n
      /\ \A i \in 1..n : part[i] = stream[arrived + i]
  <2>1. /\ arrived + 1 \in Nat /\ arrived + n \in Nat /\ 1 <= arrived + 1
        /\ arrived + n <= Len(stream) /\ arrived + 1 <= (arrived + n) + 1
    BY <1>4, <1>5
  <2>2. /\ part \in Seq(Byte) /\ Len(part) = (arrived + n) - (arrived + 1) + 1
        /\ \A i \in 1..(arrived + n) - (arrived + 1) + 1 :
             part[i] = stream[(arrived + 1) + i - 1]
    <3>1. stream \in Seq(Byte)
      BY <1>1 DEF TypeOK
    <3> QED BY ONLY <1>3, <2>1, <3>1, Cut
  <2>3. /\ (arrived + n) - (arrived + 1) + 1 = n
        /\ \A i \in 1..n : (arrived + 1) + i - 1 = arrived + i
    BY <1>5
  <2> QED BY <2>2, <2>3
<1>7. /\ buf' \in Seq(Byte) /\ Len(buf') = Len(buf) + n
      /\ \A i \in 1..Len(buf) : buf'[i] = buf[i]
      /\ \A i \in 1..n : buf'[Len(buf) + i] = stream[arrived + i]
  <2>1. /\ buf' \in Seq(Byte) /\ Len(buf') = Len(buf) + Len(part)
        /\ \A i \in 1..Len(buf) : buf'[i] = buf[i]
        /\ \A i \in 1..Len(part) : buf'[Len(buf) + i] = part[i]
    <3>1. buf \in Seq(Byte) /\ part \in Seq(Byte) /\ buf' = buf \o part
      BY <1>1, <1>4, <1>6 DEF TypeOK
    <3> QED BY ONLY <3>1, Joined
  <2> QED BY <2>1, <1>6
<1>8. TypeOK'
  BY <1>1, <1>4, <1>5, <1>7 DEF TypeOK
<1>9. Laid(ends)'
  <2>1. stream \in Seq(Byte)
    BY <1>1 DEF TypeOK
  <2> QED BY <2>1, <1>1, <1>2, <1>4, <1>5, StaysLaid
<1>10. InStep(ends)' \/ Lost'
  <2>1. CASE InStep(ends)
    <3>1. PICK at \in Nat : at = ends[Len(received)]
      <4>1. Len(received) \in 0..Len(sent)
        BY <2>1, <1>5 DEF InStep
      <4> QED BY <4>1, <1>2 DEF Laid
    <3>2. /\ Len(received) <= Len(sent) /\ at + Len(buf) = arrived
          /\ \A i \in 1..Len(buf) : buf[i] = stream[at + i]
      BY <2>1, <3>1 DEF InStep
    <3>3. at + Len(buf) = arrived
      BY <3>2
    <3>4. ASSUME NEW i \in 1..Len(buf) + n PROVE buf'[i] = stream[at + i]
      <4>1. CASE i <= Len(buf)
        BY <4>1, <3>2, <1>5, <1>7
      <4>2. CASE i > Len(buf)
        <5>1. PICK j \in 1..n : i = Len(buf) + j
          <6>1. i - Len(buf) \in 1..n /\ i = Len(buf) + (i - Len(buf))
            BY <4>2, <1>5
          <6> QED BY <6>1
        <5>2. at + i = arrived + j
          BY <5>1, <3>3, <1>5
        <5> QED BY <5>1, <5>2, <1>7
      <4> QED BY <4>1, <4>2, <1>5
    <3>5. at + Len(buf') = arrived'
      <4>1. Len(buf') = Len(buf) + n /\ arrived' = arrived + n
        BY <1>4, <1>7
      <4> QED BY <4>1, <3>3, <1>5
    <3> QED BY <3>1, <3>2, <3>4, <3>5, <1>4, <1>7 DEF InStep
  <2>2. CASE Lost
    BY <2>2, <1>4 DEF Lost
  <2> QED BY <2>1, <2>2, <1>2
<1>11. Prefix' /\ Drained'
  BY <1>1, <1>4 DEF Prefix, Drained
<1>12. CorruptionContained'
  <2>1. Len(buf) < 4 + MaxLength
    BY <1>1, <1>4, <1>5 DEF CorruptionContained
  <2>2. Len(buf') < 4 + MaxLength + MaxChunk
    BY <2>1, <1>5, <1>7
  <2> QED BY <2>2, <1>4 DEF CorruptionContained
<1> QED BY <1>8, <1>9, <1>10, <1>11, <1>12 DEF IInv, Placed

LEMMA YieldInv ==
  ASSUME IInv, Yield
  PROVE  IInv'
<1>1. TypeOK /\ Prefix /\ Drained /\ CorruptionContained
  BY DEF IInv
<1>2. PICK ends : Laid(ends) /\ (InStep(ends) \/ Lost)
  BY DEF IInv, Placed
<1>3. /\ draining /\ Len(buf) >= 4 /\ ~Corrupt(buf) /\ Complete(buf)
      /\ received' = Append(received, FirstFrame(buf)) /\ buf' = Behind(buf)
      /\ sent' = sent /\ stream' = stream /\ arrived' = arrived
      /\ draining' = draining /\ clean' = clean
  BY DEF Yield
<1>4. /\ Len(stream) \in Nat /\ Len(buf) \in Nat /\ Len(sent) \in Nat
      /\ Len(received) \in Nat /\ MaxLength \in Nat /\ MaxChunk \in Nat
      /\ arrived \in Nat /\ arrived <= Len(stream)
  BY <1>1, Types
<1>5. /\ FirstFrame(buf) \in AnyFrame /\ buf' \in Seq(Byte) /\ LengthOf(buf) \in Nat
      /\ Len(buf') = Len(buf) - 4 - LengthOf(buf)
  BY <1>1, <1>3, AnyYield, AnyLength DEF TypeOK
<1>6. /\ received' \in Seq(AnyFrame) /\ Len(received') = Len(received) + 1
      /\ \A k \in 1..Len(received) : received'[k] = received[k]
      /\ received'[Len(received) + 1] = FirstFrame(buf)
  BY <1>1, <1>3, <1>5, AppendProperties DEF TypeOK
<1>7. TypeOK'
  BY <1>1, <1>3, <1>5, <1>6 DEF TypeOK
<1>8. Laid(ends)'
  <2>1. stream \in Seq(Byte)
    BY <1>1 DEF TypeOK
  <2> QED BY <2>1, <1>1, <1>2, <1>3, <1>4, StaysLaid
<1>9. Drained' /\ CorruptionContained'
  <2>1. Len(buf') <= Len(buf)
    BY <1>4, <1>5
  <2>2. Len(buf') \in Nat
    BY <1>5, LenProperties
  <2> QED BY <2>1, <2>2, <1>1, <1>3, <1>4 DEF Drained, CorruptionContained
<1>10. Prefix' /\ (InStep(ends)' \/ Lost')
  <2>1. CASE Len(received) < Len(sent)
    <3>1. PICK m \in Nat : m = Len(received) + 1 /\ m <= Len(sent)
      BY <2>1, <1>4
    <3>2. InStep(ends)
      BY <2>1, <1>2, <1>4 DEF Lost
    <3>3. PICK e : e = Encode(sent[m])
      OBVIOUS
    <3>4. /\ Short(sent[m]) /\ Len(e) \in Nat /\ Len(e) >= 8 /\ Begins(buf, e)
          /\ ends[m] = ends[Len(received)] + Len(e)
          /\ ends[m] \in Nat /\ ends[Len(received)] \in Nat
      BY <1>1, <1>2, <2>1, <3>1, <3>2, <3>3, NextFrame
    <3>5. /\ FirstFrame(buf) = sent[m]
          /\ Len(buf') = Len(buf) - Len(e)
          /\ \A i \in 1..Len(buf) - Len(e) : buf'[i] = buf[Len(e) + i]
      <4>1. PICK f : f = sent[m]
        OBVIOUS
      <4>2. Short(f) /\ e = Encode(f) /\ buf \in Seq(Byte)
        BY <4>1, <1>1, <3>3, <3>4 DEF TypeOK
      <4>3. /\ FirstFrame(buf) = f
            /\ Behind(buf) \in Seq(Byte) /\ Len(Behind(buf)) = Len(buf) - Len(e)
            /\ \A i \in 1..Len(buf) - Len(e) : Behind(buf)[i] = buf[Len(e) + i]
        <5>1. Len(buf) >= 4 /\ Complete(buf) /\ Begins(buf, e)
          BY <1>3, <3>4
        <5> QED BY ONLY <5>1, <4>2, FirstIsFrame
      <4> QED BY <4>1, <4>3, <1>3
    <3>6. PICK at, to \in Nat : at = ends[Len(received)] /\ to = ends[m]
      BY <3>4
    <3>7. at + Len(buf) = arrived /\ \A i \in 1..Len(buf) : buf[i] = stream[at + i]
      BY <3>2, <3>6 DEF InStep
    <3>8. ASSUME NEW i \in 1..Len(buf') PROVE buf'[i] = stream[to + i]
      <4>1. i \in 1..Len(buf) - Len(e) /\ Len(buf') \in Nat
        BY <3>5, <1>5, LenProperties
      <4>2. Len(e) + i \in 1..Len(buf)
        BY <4>1, <3>4, <1>4
      <4>3. to = at + Len(e)
        BY <3>4, <3>6
      <4>4. at + (Len(e) + i) = to + i
        BY <4>1, <4>3, <3>4
      <4> QED BY <4>1, <4>2, <4>4, <3>5, <3>7
    <3>9. to + Len(buf') = arrived
      <4>1. to = at + Len(e) /\ at + Len(buf) = arrived /\ Len(buf') = Len(buf) - Len(e)
        BY <3>4, <3>5, <3>6, <3>7
      <4>2. Len(e) \in Nat /\ Len(buf) \in Nat
        BY <3>4, <1>4
      <4> QED BY ONLY <4>1, <4>2, at \in Nat
    <3>10. Len(received') = m
      BY <1>6, <3>1
    <3>11. InStep(ends)'
      BY <1>3, <3>1, <3>6, <3>8, <3>9, <3>10 DEF InStep
    <3>12. ASSUME NEW k \in 1..Len(sent), k <= m PROVE received'[k] = sent[k]
      <4>1. CASE k = m
        BY <4>1, <1>6, <3>1, <3>5
      <4>2. CASE k <= Len(received)
        BY <4>2, <1>1, <1>4, <1>6 DEF Prefix
      <4> QED BY <4>1, <4>2, <3>1, <3>12, <1>4
    <3> QED BY <1>3, <3>10, <3>11, <3>12 DEF Prefix
  <2>2. CASE Len(received) >= Len(sent)
    <3>1. ~clean
      <4>1. CASE InStep(ends) /\ clean
        <5>1. Len(received) = Len(sent) /\ ends[Len(sent)] = Len(stream)
          BY <4>1, <2>2, <1>2, <1>4 DEF InStep, Laid
        <5>2. Len(stream) + Len(buf) = arrived
          BY <5>1, <4>1 DEF InStep
        <5> QED BY <5>2, <1>3, <1>4
      <4> QED BY <4>1, <1>2 DEF Lost
    <3>2. Lost'
      BY <3>1, <2>2, <1>3, <1>4, <1>6 DEF Lost
    <3>3. ASSUME NEW k \in 1..Len(sent) PROVE received'[k] = sent[k]
      <4>1. k \in 1..Len(received)
        BY <2>2, <1>4
      <4> QED BY <4>1, <1>1, <1>6 DEF Prefix
    <3> QED BY <3>2, <3>3, <1>3 DEF Prefix
  <2> QED BY <2>1, <2>2, <1>4
<1> QED BY <1>7, <1>8, <1>9, <1>10 DEF IInv, Placed

LEMMA WaitInv ==
  ASSUME IInv, Wait
  PROVE  IInv'
<1>1. TypeOK /\ Prefix /\ Drained /\ CorruptionContained
  BY DEF IInv
<1>2. PICK ends : Laid(ends) /\ (InStep(ends) \/ Lost)
  BY DEF IInv, Placed
<1>3. /\ Len(buf) >= 4 => ~Corrupt(buf) /\ ~Complete(buf)
      /\ draining' = FALSE /\ buf' = buf
      /\ sent' = sent /\ stream' = stream /\ arrived' = arrived
      /\ received' = received /\ clean' = clean
  BY DEF Wait
<1>4. TypeOK' /\ Prefix' /\ Drained' /\ Laid(ends)' /\ (InStep(ends)' \/ Lost')
  BY <1>1, <1>2, <1>3 DEF TypeOK, Prefix, Drained, Laid, InStep, Lost
<1>5. CorruptionContained'
  <2>1. Len(buf) \in Nat /\ MaxLength \in Nat
    BY <1>1, Types
  <2>2. CASE Len(buf) < 4
    BY <2>1, <2>2, <1>3 DEF CorruptionContained
  <2>3. CASE Len(buf) >= 4
    <3>1. LengthOf(buf) \in Nat
      BY <2>3, <1>1, AnyLength DEF TypeOK
    <3>2. Len(buf) < 4 + MaxLength
      BY <2>1, <2>3, <3>1, <1>3 DEF Corrupt, Complete
    <3> QED BY <3>2, <1>3, <2>1 DEF CorruptionContained
  <2> QED BY <2>1, <2>2, <2>3
<1> QED BY <1>4, <1>5 DEF IInv, Placed

LEMMA ResetInv ==
  ASSUME IInv, Reset
  PROVE  IInv'
<1>1. TypeOK /\ Prefix /\ Drained /\ CorruptionContained
  BY DEF IInv
<1>2. PICK ends : Laid(ends) /\ (InStep(ends) \/ Lost)
  BY DEF IInv, Placed
<1>3. /\ draining /\ Len(buf) >= 4 /\ Corrupt(buf) /\ buf' = <<>> /\ draining' = FALSE
  BY DEF Reset
<1>4. /\ Len(stream) \in Nat /\ Len(buf) \in Nat /\ Len(sent) \in Nat
      /\ Len(received) \in Nat /\ MaxLength \in Nat
      /\ arrived \in Nat /\ arrived <= Len(stream)
  BY <1>1, Types
<1>5. <<>> \in Seq(Byte) /\ <<>> \in Seq(AnyFrame) /\ <<>> \in Seq(Frames) /\ Len(<<>>) = 0
  BY EmptySeq
<1>6. Drained' /\ CorruptionContained'
  BY <1>3, <1>4, <1>5 DEF Drained, CorruptionContained
<1>7. CASE arrived = Len(stream)
  <2>1. /\ sent' = <<>> /\ stream' = <<>> /\ arrived' = 0 /\ received' = <<>>
        /\ clean' = TRUE
    BY <1>7 DEF Reset
  <2>2. TypeOK' /\ Prefix'
    <3>1. /\ sent' \in Seq(Frames) /\ stream' \in Seq(Byte) /\ buf' \in Seq(Byte)
          /\ received' \in Seq(AnyFrame)
      BY <2>1, <1>3, <1>5
    <3>2. arrived' \in 0..Len(stream')
      BY <2>1, <1>5
    <3>3. draining' \in BOOLEAN /\ clean' \in BOOLEAN
      BY <2>1, <1>3
    <3>4. Prefix'
      BY <2>1, <1>5 DEF Prefix
    <3> QED BY <3>1, <3>2, <3>3, <3>4 DEF TypeOK
  <2>3. Placed'
    <3> DEFINE none == [k \in 0..0 |-> 0]
    <3>1. none \in [0..0 -> Nat] /\ none[0] = 0
      OBVIOUS
    <3> HIDE DEF none
    <3>2. Laid(none)'
      BY <2>1, <3>1, <1>5 DEF Laid
    <3>3. InStep(none)'
      BY <2>1, <3>1, <1>3, <1>5 DEF InStep
    <3> QED BY <3>2, <3>3 DEF Placed
  <2> QED BY <2>2, <2>3, <1>6 DEF IInv
<1>8. CASE arrived # Len(stream)
  <2>1. /\ sent' = sent /\ stream' = stream /\ arrived' = arrived
        /\ received' = received /\ clean' = clean
    BY <1>8 DEF Reset
  <2>2. TypeOK' /\ Prefix' /\ Laid(ends)'
    <3>1. TypeOK'
      BY <2>1, <1>1, <1>3, <1>5 DEF TypeOK
    <3>2. Prefix' /\ Laid(ends)'
      BY <2>1, <1>1, <1>2 DEF Prefix, Laid
    <3> QED BY <3>1, <3>2
  <2>3. Len(received) >= Len(sent)
    <3>1. CASE Len(received) < Len(sent)
      <4>1. InStep(ends)
        BY <3>1, <1>2, <1>4 DEF Lost
      <4>2. PICK m : m = Len(received) + 1
        OBVIOUS
      <4>3. Short(sent[m]) /\ Begins(buf, Encode(sent[m]))
        BY <1>1, <1>2, <3>1, <4>1, <4>2, NextFrame
      <4>4. ~Corrupt(buf)
        BY <4>3, <1>1, <1>3, FirstIsFrame DEF TypeOK
      <4> QED BY <4>4, <1>3
    <3> QED BY <3>1, <1>4
  <2>4. ~clean
    <3>1. CASE InStep(ends) /\ clean
      <4>1. Len(received) = Len(sent) /\ ends[Len(sent)] = Len(stream)
        BY <3>1, <2>3, <1>2, <1>4 DEF InStep, Laid
      <4>2. Len(stream) + Len(buf) = arrived
        BY <4>1, <3>1 DEF InStep
      <4> QED BY <4>2, <1>3, <1>4
    <3> QED BY <3>1, <1>2 DEF Lost
  <2>5. Lost'
    BY <2>1, <2>3, <2>4 DEF Lost
  <2> QED BY <2>2, <2>5, <1>6 DEF IInv, Placed
<1> QED BY <1>7, <1>8

-----------------------------------------------------------------------------
THEOREM CodecInv == CodecSpec => []IInv
<1>1. CodecInit => IInv
  BY InitInv
<1>2. IInv /\ [CodecNext]_codecVars => IInv'
  <2> SUFFICES ASSUME IInv, [CodecNext]_codecVars PROVE IInv'
    OBVIOUS
  <2>1. ASSUME NEW f \in Frames, Send(f) PROVE IInv'
    BY <2>1, SendInv
  <2>2. ASSUME NEW g \in Garbage, Disturb(g) PROVE IInv'
    BY <2>2, DisturbInv
  <2>3. ASSUME NEW n \in 1..MaxChunk, Recv(n) PROVE IInv'
    BY <2>3, RecvInv
  <2>4. CASE Yield
    BY <2>4, YieldInv
  <2>5. CASE Wait
    BY <2>5, WaitInv
  <2>6. CASE Reset
    BY <2>6, ResetInv
  <2>7. CASE UNCHANGED codecVars
    <3>1. /\ sent' = sent /\ stream' = stream /\ arrived' = arrived /\ buf' = buf
          /\ received' = received /\ draining' = draining /\ clean' = clean
      BY <2>7 DEF codecVars
    <3> QED BY <3>1 DEF IInv, TypeOK, Prefix, Drained, CorruptionContained, Placed,
                        Laid, InStep, Lost
  <2> QED BY <2>1, <2>2, <2>3, <2>4, <2>5, <2>6, <2>7 DEF CodecNext
<1> QED BY <1>1, <1>2, PTL DEF CodecSpec

LEMMA InvSurvives == IInv => FramesSurviveSplits
<1> SUFFICES ASSUME IInv PROVE FramesSurviveSplits
  OBVIOUS
<1>1. TypeOK /\ Prefix /\ Drained
  BY DEF IInv
<1>2. PICK ends : Laid(ends) /\ (InStep(ends) \/ Lost)
  BY DEF IInv, Placed
<1>3. /\ Len(stream) \in Nat /\ Len(buf) \in Nat /\ Len(sent) \in Nat
      /\ Len(received) \in Nat
  BY <1>1, Types
<1>4. ASSUME ~draining, arrived = Len(stream) PROVE Len(received) >= Len(sent)
  <2>1. CASE Len(received) < Len(sent)
    <3>1. InStep(ends)
      BY <2>1, <1>2, <1>3 DEF Lost
    <3>2. PICK m : m = Len(received) + 1
      OBVIOUS
    <3>3. PICK e : e = Encode(sent[m])
      OBVIOUS
    <3>4. /\ Short(sent[m]) /\ Begins(buf, e) /\ Len(e) \in Nat /\ Len(e) >= 8
          /\ ends[m] = ends[Len(received)] + Len(e) /\ ends[m] <= Len(stream)
          /\ ends[Len(received)] \in Nat
      BY <1>1, <1>2, <2>1, <3>1, <3>2, <3>3, NextFrame
    <3>5. Len(buf) >= Len(e)
      <4>1. ends[Len(received)] + Len(buf) = Len(stream)
        BY <3>1, <1>4 DEF InStep
      <4> QED BY <4>1, <3>4, <1>3
    <3>6. Complete(buf)
      BY <3>3, <3>4, <3>5, <1>1, <1>3, FirstIsFrame DEF TypeOK
    <3> QED BY <3>4, <3>5, <3>6, <1>1, <1>3, <1>4 DEF Drained
  <2> QED BY <2>1, <1>3
<1>5. ASSUME ~draining, arrived = Len(stream), clean
      PROVE  received = sent /\ buf = <<>>
  <2>1. InStep(ends) /\ Len(received) = Len(sent)
    BY <1>2, <1>3, <1>4, <1>5 DEF InStep, Lost
  <2>2. Len(stream) + Len(buf) = Len(stream)
    BY <2>1, <1>2, <1>5 DEF InStep, Laid
  <2>3. Len(buf) = 0
    BY <2>2, <1>3
  <2>4. buf = <<>>
    BY <2>3, <1>1, EmptySeq DEF TypeOK
  <2>5. received \in Seq(AnyFrame) /\ sent \in Seq(AnyFrame)
    BY <1>1, CodecAssumption, SeqMonotonic DEF TypeOK
  <2>6. \A k \in 1..Len(received) : received[k] = sent[k]
    BY <2>1, <1>1, <1>3 DEF Prefix
  <2> QED BY <2>1, <2>4, <2>5, <2>6, SeqEqual
<1> QED BY <1>1, <1>4, <1>5 DEF FramesSurviveSplits, Prefix

THEOREM FramesSurvive == CodecSpec => []FramesSurviveSplits
BY CodecInv, InvSurvives, PTL

THEOREM BufferBounded == CodecSpec => []CorruptionContained
<1>1. IInv => CorruptionContained
  BY DEF IInv
<1> QED BY <1>1, CodecInv, PTL


-----------------------------------------------------------------------------
(* Finding a value *)

LEMMA MinIs ==
  ASSUME NEW S, S \subseteq Int, NEW k \in S, \A j \in S : k <= j
  PROVE  Min(S) = k
<1>1. Min(S) \in S /\ \A y \in S : Min(S) <= y
  BY DEF Min
<1>2. Min(S) <= k /\ k <= Min(S) /\ Min(S) \in Int /\ k \in Int
  BY <1>1
<1> QED BY <1>2

\* The first match of the key is at k, the next colon at c.
Finds(text, key, k, c) ==
  /\ k \in Matches(text, key) /\ \A j \in Matches(text, key) : k <= j
  /\ c \in Colons(text) /\ c > k /\ \A j \in Colons(text) : j > k => c <= j

LEMMA ExtractFinds ==
  ASSUME NEW text, NEW key, NEW k \in Int, NEW c \in Int, Finds(text, key, k, c)
  PROVE  Extract(text, key) = TokenAt(text, c + 1)
<1> DEFINE found  == Matches(text, key)
           colons == {j \in Colons(text) : j > Min(found)}
<1>1. found \subseteq Int /\ k \in found /\ \A j \in found : k <= j
  BY DEF Finds, Matches
<1>2. Min(found) = k
  <2> HIDE DEF found
  <2> QED BY <1>1, MinIs
<1>3. colons \subseteq Int /\ c \in colons /\ \A j \in colons : c <= j
  BY <1>2 DEF Finds, Colons
<1>4. Min(colons) = c
  <2> HIDE DEF colons
  <2> QED BY <1>3, MinIs
<1>5. found # {} /\ colons # {}
  BY <1>1, <1>3
<1> QED BY <1>4, <1>5 DEF Extract

-----------------------------------------------------------------------------
(* Tokens *)

Quiet(token) == token # Sym(":") /\ \A key : ~Matching(token, key)

Named(token, name) == token # Sym(":") /\ \A key : Matching(token, key) <=> key = name

Colon(token) == token = Sym(":") /\ \A key : ~Matching(token, key)

LEMMA Syms == Colon(Sym(":")) /\ \A v : v # ":" => Quiet(Sym(v))
BY DEF Colon, Quiet, Matching, Sym, Str

LEMMA Nums == \A v : Quiet(Num(v))
BY DEF Quiet, Matching, Sym, Str, Num

LEMMA Lits == \A v : Quiet(Lit(v))
BY DEF Quiet, Matching, Sym, Str, Lit

LEMMA Strs == \A v : Named(Str(v), v)
BY DEF Named, Matching, Sym, Str

LEMMA Ids == \A id \in Strings : Named(id, id[2])
BY DEF Named, Strings, Matching, Str, Sym

GotoTokens(t, id) ==
  /\ Len(t) = 33
  /\ Quiet(t[1]) /\ Named(t[2], "seq") /\ Colon(t[3]) /\ Quiet(t[4]) /\ Quiet(t[5])
     /\ Named(t[6], "cmd") /\ Colon(t[7]) /\ Named(t[8], "CMD_TASK") /\ Quiet(t[9])
     /\ Named(t[10], "payload") /\ Colon(t[11]) /\ Quiet(t[12])
     /\ Named(t[13], "task_id") /\ Colon(t[14]) /\ Named(t[15], id[2])
     /\ Quiet(t[16]) /\ Named(t[17], "timeout_s") /\ Colon(t[18]) /\ Quiet(t[19])
     /\ Quiet(t[20]) /\ Named(t[21], "type") /\ Colon(t[22]) /\ Named(t[23], "goto")
     /\ Quiet(t[24]) /\ Named(t[25], "x") /\ Colon(t[26]) /\ Quiet(t[27])
     /\ Quiet(t[28]) /\ Named(t[29], "y") /\ Colon(t[30]) /\ Quiet(t[31])
     /\ Quiet(t[32]) /\ Quiet(t[33])

LEMMA GotoTokensOf ==
  ASSUME NEW id \in Strings
  PROVE  GotoTokens(GotoText(id), id)
<1> DEFINE t == GotoText(id)
<1>1. Len(t) = 33 /\ t[1] = Sym("{") /\ t[2] = Str("seq") /\ t[3] = Sym(":") /\ t[4] = Num("7")
      /\ t[5] = Sym(",") /\ t[6] = Str("cmd") /\ t[7] = Sym(":")
      /\ t[8] = Str("CMD_TASK") /\ t[9] = Sym(",") /\ t[10] = Str("payload")
      /\ t[11] = Sym(":") /\ t[12] = Sym("{") /\ t[13] = Str("task_id")
      /\ t[14] = Sym(":") /\ t[15] = id /\ t[16] = Sym(",")
      /\ t[17] = Str("timeout_s") /\ t[18] = Sym(":") /\ t[19] = Num("timeout")
      /\ t[20] = Sym(",") /\ t[21] = Str("type") /\ t[22] = Sym(":")
      /\ t[23] = Str("goto") /\ t[24] = Sym(",") /\ t[25] = Str("x")
      /\ t[26] = Sym(":") /\ t[27] = Num("3") /\ t[28] = Sym(",")
      /\ t[29] = Str("y") /\ t[30] = Sym(":") /\ t[31] = Num("4")
      /\ t[32] = Sym("}") /\ t[33] = Sym("}")
  BY DEF GotoText
<1> HIDE DEF t
<1>2. Quiet(Sym("{")) /\ Colon(Sym(":")) /\ Quiet(Num("7")) /\ Quiet(Sym(","))
      /\ Quiet(Num("timeout")) /\ Quiet(Num("3")) /\ Quiet(Num("4"))
      /\ Quiet(Sym("}"))
  BY Syms, Nums, Lits
<1>3. Named(Str("seq"), "seq") /\ Named(Str("cmd"), "cmd")
      /\ Named(Str("CMD_TASK"), "CMD_TASK") /\ Named(Str("payload"), "payload")
      /\ Named(Str("task_id"), "task_id") /\ Named(id, id[2])
      /\ Named(Str("timeout_s"), "timeout_s") /\ Named(Str("type"), "type")
      /\ Named(Str("goto"), "goto") /\ Named(Str("x"), "x") /\ Named(Str("y"), "y")
  BY Strs, Ids
<1>4. GotoTokens(t, id)
  BY ONLY <1>1, <1>2, <1>3 DEF GotoTokens
<1> QED BY <1>4 DEF t

LEMMA GotoTokensKeys ==
  ASSUME NEW id \in Strings, NEW t, GotoTokens(t, id), NEW key, NEW j \in 1..33
  PROVE  /\ t[j] = Sym(":") <=> j \in {3, 7, 11, 14, 18, 22, 26, 30}
         /\ Matching(t[j], key) <=>
              \/ (j = 2 /\ key = "seq") \/ (j = 6 /\ key = "cmd")
              \/ (j = 8 /\ key = "CMD_TASK") \/ (j = 10 /\ key = "payload")
              \/ (j = 13 /\ key = "task_id") \/ (j = 15 /\ key = id[2])
              \/ (j = 17 /\ key = "timeout_s") \/ (j = 21 /\ key = "type")
              \/ (j = 23 /\ key = "goto") \/ (j = 25 /\ key = "x")
              \/ (j = 29 /\ key = "y")
<1>1. j = 1 \/ j = 2 \/ j = 3 \/ j = 4 \/ j = 5 \/ j = 6 \/ j = 7 \/ j = 8 \/ j = 9
      \/ j = 10 \/ j = 11 \/ j = 12 \/ j = 13 \/ j = 14 \/ j = 15 \/ j = 16
      \/ j = 17 \/ j = 18 \/ j = 19 \/ j = 20 \/ j = 21 \/ j = 22 \/ j = 23
      \/ j = 24 \/ j = 25 \/ j = 26 \/ j = 27 \/ j = 28 \/ j = 29 \/ j = 30
      \/ j = 31 \/ j = 32 \/ j = 33
  OBVIOUS
<1>2. t[3] = Sym(":") /\ t[7] = Sym(":") /\ t[11] = Sym(":") /\ t[14] = Sym(":")
      /\ t[18] = Sym(":") /\ t[22] = Sym(":") /\ t[26] = Sym(":")
      /\ t[30] = Sym(":")
  BY DEF GotoTokens, Colon
<1>3. t[1] # Sym(":") /\ t[2] # Sym(":") /\ t[4] # Sym(":") /\ t[5] # Sym(":")
      /\ t[6] # Sym(":") /\ t[8] # Sym(":") /\ t[9] # Sym(":") /\ t[10] # Sym(":")
      /\ t[12] # Sym(":") /\ t[13] # Sym(":") /\ t[15] # Sym(":")
      /\ t[16] # Sym(":") /\ t[17] # Sym(":") /\ t[19] # Sym(":")
      /\ t[20] # Sym(":") /\ t[21] # Sym(":") /\ t[23] # Sym(":")
      /\ t[24] # Sym(":") /\ t[25] # Sym(":") /\ t[27] # Sym(":")
      /\ t[28] # Sym(":") /\ t[29] # Sym(":") /\ t[31] # Sym(":")
      /\ t[32] # Sym(":") /\ t[33] # Sym(":")
  BY DEF GotoTokens, Quiet, Named
<1>4. ~Matching(t[1], key) /\ ~Matching(t[3], key) /\ ~Matching(t[4], key)
      /\ ~Matching(t[5], key) /\ ~Matching(t[7], key) /\ ~Matching(t[9], key)
      /\ ~Matching(t[11], key) /\ ~Matching(t[12], key) /\ ~Matching(t[14], key)
      /\ ~Matching(t[16], key) /\ ~Matching(t[18], key) /\ ~Matching(t[19], key)
      /\ ~Matching(t[20], key) /\ ~Matching(t[22], key) /\ ~Matching(t[24], key)
      /\ ~Matching(t[26], key) /\ ~Matching(t[27], key) /\ ~Matching(t[28], key)
      /\ ~Matching(t[30], key) /\ ~Matching(t[31], key) /\ ~Matching(t[32], key)
      /\ ~Matching(t[33], key)
  BY DEF GotoTokens, Quiet, Colon
<1>5. (Matching(t[2], key) <=> key = "seq") /\ (Matching(t[6], key) <=> key = "cmd")
      /\ (Matching(t[8], key) <=> key = "CMD_TASK")
      /\ (Matching(t[10], key) <=> key = "payload")
      /\ (Matching(t[13], key) <=> key = "task_id")
      /\ (Matching(t[15], key) <=> key = id[2])
      /\ (Matching(t[17], key) <=> key = "timeout_s")
      /\ (Matching(t[21], key) <=> key = "type")
      /\ (Matching(t[23], key) <=> key = "goto")
      /\ (Matching(t[25], key) <=> key = "x")
      /\ (Matching(t[29], key) <=> key = "y")
  BY DEF GotoTokens, Named
<1>6. t[j] = Sym(":") <=> j \in {3, 7, 11, 14, 18, 22, 26, 30}
  BY <1>1, <1>2, <1>3
<1> QED BY <1>1, <1>4, <1>5, <1>6

TaskTokens(t, id, type) ==
  /\ Len(t) = 21
  /\ Quiet(t[1]) /\ Named(t[2], "seq") /\ Colon(t[3]) /\ Quiet(t[4]) /\ Quiet(t[5])
     /\ Named(t[6], "cmd") /\ Colon(t[7]) /\ Named(t[8], "CMD_TASK") /\ Quiet(t[9])
     /\ Named(t[10], "payload") /\ Colon(t[11]) /\ Quiet(t[12])
     /\ Named(t[13], "task_id") /\ Colon(t[14]) /\ Named(t[15], id[2])
     /\ Quiet(t[16]) /\ Named(t[17], "type") /\ Colon(t[18]) /\ Named(t[19], type)
     /\ Quiet(t[20]) /\ Quiet(t[21])

LEMMA TaskTokensOf ==
  ASSUME NEW id \in Strings, NEW type
  PROVE  TaskTokens(TaskText(id, type), id, type)
<1> DEFINE t == TaskText(id, type)
<1>1. Len(t) = 21 /\ t[1] = Sym("{") /\ t[2] = Str("seq") /\ t[3] = Sym(":") /\ t[4] = Num("7")
      /\ t[5] = Sym(",") /\ t[6] = Str("cmd") /\ t[7] = Sym(":")
      /\ t[8] = Str("CMD_TASK") /\ t[9] = Sym(",") /\ t[10] = Str("payload")
      /\ t[11] = Sym(":") /\ t[12] = Sym("{") /\ t[13] = Str("task_id")
      /\ t[14] = Sym(":") /\ t[15] = id /\ t[16] = Sym(",") /\ t[17] = Str("type")
      /\ t[18] = Sym(":") /\ t[19] = Str(type) /\ t[20] = Sym("}")
      /\ t[21] = Sym("}")
  BY DEF TaskText
<1> HIDE DEF t
<1>2. Quiet(Sym("{")) /\ Colon(Sym(":")) /\ Quiet(Num("7")) /\ Quiet(Sym(","))
      /\ Quiet(Sym("}"))
  BY Syms, Nums, Lits
<1>3. Named(Str("seq"), "seq") /\ Named(Str("cmd"), "cmd")
      /\ Named(Str("CMD_TASK"), "CMD_TASK") /\ Named(Str("payload"), "payload")
      /\ Named(Str("task_id"), "task_id") /\ Named(id, id[2])
      /\ Named(Str("type"), "type") /\ Named(Str(type), type)
  BY Strs, Ids
<1>4. TaskTokens(t, id, type)
  BY ONLY <1>1, <1>2, <1>3 DEF TaskTokens
<1> QED BY <1>4 DEF t

LEMMA TaskTokensKeys ==
  ASSUME NEW id \in Strings, NEW type, NEW t, TaskTokens(t, id, type), NEW key, NEW j \in 1..21
  PROVE  /\ t[j] = Sym(":") <=> j \in {3, 7, 11, 14, 18}
         /\ Matching(t[j], key) <=>
              \/ (j = 2 /\ key = "seq") \/ (j = 6 /\ key = "cmd")
              \/ (j = 8 /\ key = "CMD_TASK") \/ (j = 10 /\ key = "payload")
              \/ (j = 13 /\ key = "task_id") \/ (j = 15 /\ key = id[2])
              \/ (j = 17 /\ key = "type") \/ (j = 19 /\ key = type)
<1>1. j = 1 \/ j = 2 \/ j = 3 \/ j = 4 \/ j = 5 \/ j = 6 \/ j = 7 \/ j = 8 \/ j = 9
      \/ j = 10 \/ j = 11 \/ j = 12 \/ j = 13 \/ j = 14 \/ j = 15 \/ j = 16
      \/ j = 17 \/ j = 18 \/ j = 19 \/ j = 20 \/ j = 21
  OBVIOUS
<1>2. t[3] = Sym(":") /\ t[7] = Sym(":") /\ t[11] = Sym(":") /\ t[14] = Sym(":")
      /\ t[18] = Sym(":")
  BY DEF TaskTokens, Colon
<1>3. t[1] # Sym(":") /\ t[2] # Sym(":") /\ t[4] # Sym(":") /\ t[5] # Sym(":")
      /\ t[6] # Sym(":") /\ t[8] # Sym(":") /\ t[9] # Sym(":") /\ t[10] # Sym(":")
      /\ t[12] # Sym(":") /\ t[13] # Sym(":") /\ t[15] # Sym(":")
      /\ t[16] # Sym(":") /\ t[17] # Sym(":") /\ t[19] # Sym(":")
      /\ t[20] # Sym(":") /\ t[21] # Sym(":")
  BY DEF TaskTokens, Quiet, Named
<1>4. ~Matching(t[1], key) /\ ~Matching(t[3], key) /\ ~Matching(t[4], key)
      /\ ~Matching(t[5], key) /\ ~Matching(t[7], key) /\ ~Matching(t[9], key)
      /\ ~Matching(t[11], key) /\ ~Matching(t[12], key) /\ ~Matching(t[14], key)
      /\ ~Matching(t[16], key) /\ ~Matching(t[18], key) /\ ~Matching(t[20], key)
      /\ ~Matching(t[21], key)
  BY DEF TaskTokens, Quiet, Colon
<1>5. (Matching(t[2], key) <=> key = "seq") /\ (Matching(t[6], key) <=> key = "cmd")
      /\ (Matching(t[8], key) <=> key = "CMD_TASK")
      /\ (Matching(t[10], key) <=> key = "payload")
      /\ (Matching(t[13], key) <=> key = "task_id")
      /\ (Matching(t[15], key) <=> key = id[2])
      /\ (Matching(t[17], key) <=> key = "type")
      /\ (Matching(t[19], key) <=> key = type)
  BY DEF TaskTokens, Named
<1>6. t[j] = Sym(":") <=> j \in {3, 7, 11, 14, 18}
  BY <1>1, <1>2, <1>3
<1> QED BY <1>1, <1>4, <1>5, <1>6

ResultTokens(t, id) ==
  /\ Len(t) = 17
  /\ Quiet(t[1]) /\ Named(t[2], "seq") /\ Colon(t[3]) /\ Quiet(t[4]) /\ Quiet(t[5])
     /\ Named(t[6], "ok") /\ Colon(t[7]) /\ Quiet(t[8]) /\ Quiet(t[9])
     /\ Named(t[10], "cmd") /\ Colon(t[11]) /\ Named(t[12], "CMD_TASK")
     /\ Quiet(t[13]) /\ Named(t[14], "task_id") /\ Colon(t[15])
     /\ Named(t[16], id[2]) /\ Quiet(t[17])

LEMMA ResultTokensOf ==
  ASSUME NEW id \in Strings
  PROVE  ResultTokens(CmdResult(id), id)
<1> DEFINE t == CmdResult(id)
<1>1. Len(t) = 17 /\ t[1] = Sym("{") /\ t[2] = Str("seq") /\ t[3] = Sym(":") /\ t[4] = Num("7")
      /\ t[5] = Sym(",") /\ t[6] = Str("ok") /\ t[7] = Sym(":")
      /\ t[8] = Lit("true") /\ t[9] = Sym(",") /\ t[10] = Str("cmd")
      /\ t[11] = Sym(":") /\ t[12] = Str("CMD_TASK") /\ t[13] = Sym(",")
      /\ t[14] = Str("task_id") /\ t[15] = Sym(":") /\ t[16] = id
      /\ t[17] = Sym("}")
  BY DEF CmdResult
<1> HIDE DEF t
<1>2. Quiet(Sym("{")) /\ Colon(Sym(":")) /\ Quiet(Num("7")) /\ Quiet(Sym(","))
      /\ Quiet(Lit("true")) /\ Quiet(Sym("}"))
  BY Syms, Nums, Lits
<1>3. Named(Str("seq"), "seq") /\ Named(Str("ok"), "ok") /\ Named(Str("cmd"), "cmd")
      /\ Named(Str("CMD_TASK"), "CMD_TASK") /\ Named(Str("task_id"), "task_id")
      /\ Named(id, id[2])
  BY Strs, Ids
<1>4. ResultTokens(t, id)
  BY ONLY <1>1, <1>2, <1>3 DEF ResultTokens
<1> QED BY <1>4 DEF t

LEMMA ResultTokensKeys ==
  ASSUME NEW id \in Strings, NEW t, ResultTokens(t, id), NEW key, NEW j \in 1..17
  PROVE  /\ t[j] = Sym(":") <=> j \in {3, 7, 11, 15}
         /\ Matching(t[j], key) <=>
              \/ (j = 2 /\ key = "seq") \/ (j = 6 /\ key = "ok")
              \/ (j = 10 /\ key = "cmd") \/ (j = 12 /\ key = "CMD_TASK")
              \/ (j = 14 /\ key = "task_id") \/ (j = 16 /\ key = id[2])
<1>1. j = 1 \/ j = 2 \/ j = 3 \/ j = 4 \/ j = 5 \/ j = 6 \/ j = 7 \/ j = 8 \/ j = 9
      \/ j = 10 \/ j = 11 \/ j = 12 \/ j = 13 \/ j = 14 \/ j = 15 \/ j = 16
      \/ j = 17
  OBVIOUS
<1>2. t[3] = Sym(":") /\ t[7] = Sym(":") /\ t[11] = Sym(":") /\ t[15] = Sym(":")
  BY DEF ResultTokens, Colon
<1>3. t[1] # Sym(":") /\ t[2] # Sym(":") /\ t[4] # Sym(":") /\ t[5] # Sym(":")
      /\ t[6] # Sym(":") /\ t[8] # Sym(":") /\ t[9] # Sym(":") /\ t[10] # Sym(":")
      /\ t[12] # Sym(":") /\ t[13] # Sym(":") /\ t[14] # Sym(":")
      /\ t[16] # Sym(":") /\ t[17] # Sym(":")
  BY DEF ResultTokens, Quiet, Named
<1>4. ~Matching(t[1], key) /\ ~Matching(t[3], key) /\ ~Matching(t[4], key)
      /\ ~Matching(t[5], key) /\ ~Matching(t[7], key) /\ ~Matching(t[8], key)
      /\ ~Matching(t[9], key) /\ ~Matching(t[11], key) /\ ~Matching(t[13], key)
      /\ ~Matching(t[15], key) /\ ~Matching(t[17], key)
  BY DEF ResultTokens, Quiet, Colon
<1>5. (Matching(t[2], key) <=> key = "seq") /\ (Matching(t[6], key) <=> key = "ok")
      /\ (Matching(t[10], key) <=> key = "cmd")
      /\ (Matching(t[12], key) <=> key = "CMD_TASK")
      /\ (Matching(t[14], key) <=> key = "task_id")
      /\ (Matching(t[16], key) <=> key = id[2])
  BY DEF ResultTokens, Named
<1>6. t[j] = Sym(":") <=> j \in {3, 7, 11, 15}
  BY <1>1, <1>2, <1>3
<1> QED BY <1>1, <1>4, <1>5, <1>6

StateTokens(t, id, detail, estop) ==
  /\ Len(t) = 23
  /\ Quiet(t[1]) /\ Named(t[2], "task") /\ Colon(t[3]) /\ Quiet(t[4])
     /\ Named(t[5], "id") /\ Colon(t[6]) /\ Named(t[7], id[2]) /\ Quiet(t[8])
     /\ Quiet(t[9]) /\ Named(t[10], "faults") /\ Colon(t[11]) /\ Quiet(t[12])
     /\ Quiet(t[13]) /\ Named(t[14], "detail") /\ Colon(t[15])
     /\ Named(t[16], detail[2]) /\ Quiet(t[17]) /\ Quiet(t[18]) /\ Quiet(t[19])
     /\ Named(t[20], "estop") /\ Colon(t[21]) /\ Quiet(t[22]) /\ Quiet(t[23])

LEMMA StateTokensOf ==
  ASSUME NEW id \in Strings, NEW detail \in Strings, NEW estop
  PROVE  StateTokens(StateText(id, detail, estop), id, detail, estop)
<1> DEFINE t == StateText(id, detail, estop)
<1>1. Len(t) = 23 /\ t[1] = Sym("{") /\ t[2] = Str("task") /\ t[3] = Sym(":") /\ t[4] = Sym("{")
      /\ t[5] = Str("id") /\ t[6] = Sym(":") /\ t[7] = id /\ t[8] = Sym("}")
      /\ t[9] = Sym(",") /\ t[10] = Str("faults") /\ t[11] = Sym(":")
      /\ t[12] = Sym("[") /\ t[13] = Sym("{") /\ t[14] = Str("detail")
      /\ t[15] = Sym(":") /\ t[16] = detail /\ t[17] = Sym("}") /\ t[18] = Sym("]")
      /\ t[19] = Sym(",") /\ t[20] = Str("estop") /\ t[21] = Sym(":")
      /\ t[22] = Lit(estop) /\ t[23] = Sym("}")
  BY DEF StateText
<1> HIDE DEF t
<1>2. Quiet(Sym("{")) /\ Colon(Sym(":")) /\ Quiet(Sym("}")) /\ Quiet(Sym(","))
      /\ Quiet(Sym("[")) /\ Quiet(Sym("]")) /\ Quiet(Lit(estop))
  BY Syms, Nums, Lits
<1>3. Named(Str("task"), "task") /\ Named(Str("id"), "id") /\ Named(id, id[2])
      /\ Named(Str("faults"), "faults") /\ Named(Str("detail"), "detail")
      /\ Named(detail, detail[2]) /\ Named(Str("estop"), "estop")
  BY Strs, Ids
<1>4. StateTokens(t, id, detail, estop)
  BY ONLY <1>1, <1>2, <1>3 DEF StateTokens
<1> QED BY <1>4 DEF t

LEMMA StateTokensKeys ==
  ASSUME NEW id \in Strings, NEW detail \in Strings, NEW estop, NEW t, StateTokens(t, id, detail, estop), NEW key, NEW j \in 1..23
  PROVE  /\ t[j] = Sym(":") <=> j \in {3, 6, 11, 15, 21}
         /\ Matching(t[j], key) <=>
              \/ (j = 2 /\ key = "task") \/ (j = 5 /\ key = "id")
              \/ (j = 7 /\ key = id[2]) \/ (j = 10 /\ key = "faults")
              \/ (j = 14 /\ key = "detail") \/ (j = 16 /\ key = detail[2])
              \/ (j = 20 /\ key = "estop")
<1>1. j = 1 \/ j = 2 \/ j = 3 \/ j = 4 \/ j = 5 \/ j = 6 \/ j = 7 \/ j = 8 \/ j = 9
      \/ j = 10 \/ j = 11 \/ j = 12 \/ j = 13 \/ j = 14 \/ j = 15 \/ j = 16
      \/ j = 17 \/ j = 18 \/ j = 19 \/ j = 20 \/ j = 21 \/ j = 22 \/ j = 23
  OBVIOUS
<1>2. t[3] = Sym(":") /\ t[6] = Sym(":") /\ t[11] = Sym(":") /\ t[15] = Sym(":")
      /\ t[21] = Sym(":")
  BY DEF StateTokens, Colon
<1>3. t[1] # Sym(":") /\ t[2] # Sym(":") /\ t[4] # Sym(":") /\ t[5] # Sym(":")
      /\ t[7] # Sym(":") /\ t[8] # Sym(":") /\ t[9] # Sym(":") /\ t[10] # Sym(":")
      /\ t[12] # Sym(":") /\ t[13] # Sym(":") /\ t[14] # Sym(":")
      /\ t[16] # Sym(":") /\ t[17] # Sym(":") /\ t[18] # Sym(":")
      /\ t[19] # Sym(":") /\ t[20] # Sym(":") /\ t[22] # Sym(":")
      /\ t[23] # Sym(":")
  BY DEF StateTokens, Quiet, Named
<1>4. ~Matching(t[1], key) /\ ~Matching(t[3], key) /\ ~Matching(t[4], key)
      /\ ~Matching(t[6], key) /\ ~Matching(t[8], key) /\ ~Matching(t[9], key)
      /\ ~Matching(t[11], key) /\ ~Matching(t[12], key) /\ ~Matching(t[13], key)
      /\ ~Matching(t[15], key) /\ ~Matching(t[17], key) /\ ~Matching(t[18], key)
      /\ ~Matching(t[19], key) /\ ~Matching(t[21], key) /\ ~Matching(t[22], key)
      /\ ~Matching(t[23], key)
  BY DEF StateTokens, Quiet, Colon
<1>5. (Matching(t[2], key) <=> key = "task") /\ (Matching(t[5], key) <=> key = "id")
      /\ (Matching(t[7], key) <=> key = id[2])
      /\ (Matching(t[10], key) <=> key = "faults")
      /\ (Matching(t[14], key) <=> key = "detail")
      /\ (Matching(t[16], key) <=> key = detail[2])
      /\ (Matching(t[20], key) <=> key = "estop")
  BY DEF StateTokens, Named
<1>6. t[j] = Sym(":") <=> j \in {3, 6, 11, 15, 21}
  BY <1>1, <1>2, <1>3
<1> QED BY <1>1, <1>4, <1>5, <1>6

-----------------------------------------------------------------------------
(* What is read *)

\* The key is first found at k, and the next colon at c.
First(t, key, k) ==
  /\ k \in 1..Len(t) /\ Matching(t[k], key)
  /\ \A j \in 1..Len(t) : Matching(t[j], key) => k <= j

NextColon(t, k, c) ==
  /\ c \in 1..Len(t) /\ c + 1 \in 1..Len(t) /\ t[c] = Sym(":") /\ c > k
  /\ \A j \in 1..Len(t) : t[j] = Sym(":") => j <= k \/ c <= j

LEMMA Reads ==
  ASSUME NEW t, NEW key, NEW k \in Int, NEW c \in Int, Len(t) \in Nat,
         First(t, key, k), NextColon(t, k, c)
  PROVE  Extract(t, key) = t[c + 1]
<1>1. Finds(t, key, k, c)
  BY DEF Finds, Matches, Colons, First, NextColon
<1>2. Extract(t, key) = TokenAt(t, c + 1)
  BY <1>1, ExtractFinds
<1> QED BY <1>2 DEF TokenAt, NextColon

LEMMA GotoReads ==
  ASSUME NEW id \in Strings, NEW t, GotoTokens(t, id)
  PROVE  /\ Extract(t, "seq") = t[4]
         /\ Extract(t, "cmd") = t[8]
         /\ Extract(t, "task_id") = t[15]
         /\ Extract(t, "type") = t[IF id[2] = "type" THEN 19 ELSE 23]
         /\ Extract(t, "x") = t[IF id[2] = "x" THEN 19 ELSE 27]
         /\ Extract(t, "y") = t[IF id[2] = "y" THEN 19 ELSE 31]
<1> Len(t) = 33
  BY DEF GotoTokens
<1>k. ASSUME NEW key, NEW j \in 1..33
      PROVE  Matching(t[j], key) <=>
              \/ (j = 2 /\ key = "seq") \/ (j = 6 /\ key = "cmd")
              \/ (j = 8 /\ key = "CMD_TASK") \/ (j = 10 /\ key = "payload")
              \/ (j = 13 /\ key = "task_id") \/ (j = 15 /\ key = id[2])
              \/ (j = 17 /\ key = "timeout_s") \/ (j = 21 /\ key = "type")
              \/ (j = 23 /\ key = "goto") \/ (j = 25 /\ key = "x")
              \/ (j = 29 /\ key = "y")
  BY GotoTokensKeys
<1>c. \A j \in 1..33 : t[j] = Sym(":") <=> j \in {3, 7, 11, 14, 18, 22, 26, 30}
  BY GotoTokensKeys
<1>1. Extract(t, "seq") = t[3 + 1]
  <2>1. First(t, "seq", 2)
    BY <1>k DEF First
  <2>2. NextColon(t, 2, 3)
    BY <1>c DEF NextColon
  <2> QED BY <2>1, <2>2, Reads
<1>2. Extract(t, "cmd") = t[7 + 1]
  <2>1. First(t, "cmd", 6)
    BY <1>k DEF First
  <2>2. NextColon(t, 6, 7)
    BY <1>c DEF NextColon
  <2> QED BY <2>1, <2>2, Reads
<1>3. Extract(t, "task_id") = t[14 + 1]
  <2>1. First(t, "task_id", 13)
    BY <1>k DEF First
  <2>2. NextColon(t, 13, 14)
    BY <1>c DEF NextColon
  <2> QED BY <2>1, <2>2, Reads
<1>4. ASSUME id[2] \in {"type", "x", "y"}
      PROVE  Extract(t, id[2]) = t[18 + 1]
  <2>1. First(t, id[2], 15)
    BY <1>k, <1>4 DEF First
  <2>2. NextColon(t, 15, 18)
    BY <1>c DEF NextColon
  <2> QED BY <2>1, <2>2, Reads
<1>5. ASSUME id[2] # "type" PROVE Extract(t, "type") = t[22 + 1]
  <2>1. First(t, "type", 21)
    BY <1>k, <1>5 DEF First
  <2>2. NextColon(t, 21, 22)
    BY <1>c DEF NextColon
  <2> QED BY <2>1, <2>2, Reads
<1>6. ASSUME id[2] # "x" PROVE Extract(t, "x") = t[26 + 1]
  <2>1. First(t, "x", 25)
    BY <1>k, <1>6 DEF First
  <2>2. NextColon(t, 25, 26)
    BY <1>c DEF NextColon
  <2> QED BY <2>1, <2>2, Reads
<1>7. ASSUME id[2] # "y" PROVE Extract(t, "y") = t[30 + 1]
  <2>1. First(t, "y", 29)
    BY <1>k, <1>7 DEF First
  <2>2. NextColon(t, 29, 30)
    BY <1>c DEF NextColon
  <2> QED BY <2>1, <2>2, Reads
<1> QED BY <1>1, <1>2, <1>3, <1>4, <1>5, <1>6, <1>7

LEMMA TaskReads ==
  ASSUME NEW id \in Strings, NEW type \in TaskTypes, NEW t, TaskTokens(t, id, type)
  PROVE  /\ Extract(t, "seq") = t[4]
         /\ Extract(t, "cmd") = t[8]
         /\ Extract(t, "task_id") = t[15]
         /\ Extract(t, "type") = t[19]
<1> Len(t) = 21 /\ type # "type" /\ type # "seq" /\ type # "cmd" /\ type # "task_id"
  BY DEF TaskTokens, TaskTypes
<1>k. ASSUME NEW key, NEW j \in 1..21
      PROVE  Matching(t[j], key) <=>
              \/ (j = 2 /\ key = "seq") \/ (j = 6 /\ key = "cmd")
              \/ (j = 8 /\ key = "CMD_TASK") \/ (j = 10 /\ key = "payload")
              \/ (j = 13 /\ key = "task_id") \/ (j = 15 /\ key = id[2])
              \/ (j = 17 /\ key = "type") \/ (j = 19 /\ key = type)
  BY TaskTokensKeys
<1>c. \A j \in 1..21 : t[j] = Sym(":") <=> j \in {3, 7, 11, 14, 18}
  BY TaskTokensKeys
<1>1. Extract(t, "seq") = t[3 + 1]
  <2>1. First(t, "seq", 2)
    BY <1>k DEF First
  <2>2. NextColon(t, 2, 3)
    BY <1>c DEF NextColon
  <2> QED BY <2>1, <2>2, Reads
<1>2. Extract(t, "cmd") = t[7 + 1]
  <2>1. First(t, "cmd", 6)
    BY <1>k DEF First
  <2>2. NextColon(t, 6, 7)
    BY <1>c DEF NextColon
  <2> QED BY <2>1, <2>2, Reads
<1>3. Extract(t, "task_id") = t[14 + 1]
  <2>1. First(t, "task_id", 13)
    BY <1>k DEF First
  <2>2. NextColon(t, 13, 14)
    BY <1>c DEF NextColon
  <2> QED BY <2>1, <2>2, Reads
<1>4. Extract(t, "type") = t[18 + 1]
  <2>1. CASE id[2] = "type"
    <3>1. First(t, "type", 15)
      BY <1>k, <2>1 DEF First
    <3>2. NextColon(t, 15, 18)
      BY <1>c DEF NextColon
    <3> QED BY <3>1, <3>2, Reads
  <2>2. CASE id[2] # "type"
    <3>1. First(t, "type", 17)
      BY <1>k, <2>2 DEF First
    <3>2. NextColon(t, 17, 18)
      BY <1>c DEF NextColon
    <3> QED BY <3>1, <3>2, Reads
  <2> QED BY <2>1, <2>2
<1> QED BY <1>1, <1>2, <1>3, <1>4

LEMMA Words ==
  /\ \A v : Str(v)[1] = "str" /\ Num(v)[1] = "num" /\ Lit(v)[1] = "lit"
  /\ \A v : Str(v)[1] \in {"str", "quoted"} /\ Num(v)[1] \notin {"str", "quoted"}
  /\ \A v, w : Str(v) # Num(w)
  /\ None[1] = "none" /\ (\A v : None # Str(v) /\ None # Num(v) /\ None # Lit(v))
  /\ \A id \in Strings : id[1] \in {"str", "quoted"}
BY DEF Str, Num, Lit, None, Strings

LEMMA GotoRight ==
  ASSUME NEW id \in Strings
  PROVE  ReadRight(id, "goto") <=> id[2] \notin {"type", "x", "y"}
<1> DEFINE t == GotoText(id)
<1>1. GotoTokens(t, id)
  BY GotoTokensOf
<1>2. /\ t[4] = Num("7") /\ t[8] = Str("CMD_TASK") /\ t[15] = id /\ t[19] = Num("timeout")
      /\ t[23] = Str("goto") /\ t[27] = Num("3") /\ t[31] = Num("4")
  BY DEF GotoText
<1> HIDE DEF t
<1>3. /\ Extract(t, "seq") = Num("7")
      /\ Extract(t, "cmd") = Str("CMD_TASK")
      /\ Extract(t, "task_id") = id
      /\ Extract(t, "type") = IF id[2] = "type" THEN Num("timeout") ELSE Str("goto")
      /\ Extract(t, "x") = IF id[2] = "x" THEN Num("timeout") ELSE Num("3")
      /\ Extract(t, "y") = IF id[2] = "y" THEN Num("timeout") ELSE Num("4")
  BY <1>1, <1>2, GotoReads
<1>4. /\ ExtractNumber(t, "seq") = Num("7")
      /\ ExtractString(t, "cmd") = Str("CMD_TASK")
      /\ ExtractString(t, "task_id") = id
      /\ ExtractString(t, "type") = IF id[2] = "type" THEN None ELSE Str("goto")
      /\ ExtractNumber(t, "x") = IF id[2] = "x" THEN Num("timeout") ELSE Num("3")
      /\ ExtractNumber(t, "y") = IF id[2] = "y" THEN Num("timeout") ELSE Num("4")
  BY <1>3, Words DEF ExtractString, ExtractNumber
<1>5. Num("timeout") # Num("3") /\ Num("timeout") # Num("4") /\ None # Str("goto")
  BY DEF Num, None, Str
<1>6. CommandText(id, "goto") = t
  BY DEF CommandText, t
<1> QED BY <1>4, <1>5, <1>6 DEF ReadRight

LEMMA TaskRight ==
  ASSUME NEW id \in Strings, NEW type \in TaskTypes, type # "goto"
  PROVE  ReadRight(id, type)
<1> DEFINE t == TaskText(id, type)
<1>1. TaskTokens(t, id, type)
  BY TaskTokensOf
<1>2. t[4] = Num("7") /\ t[8] = Str("CMD_TASK") /\ t[15] = id /\ t[19] = Str(type)
  BY DEF TaskText
<1> HIDE DEF t
<1>3. /\ Extract(t, "seq") = Num("7") /\ Extract(t, "cmd") = Str("CMD_TASK")
      /\ Extract(t, "task_id") = id /\ Extract(t, "type") = Str(type)
  BY <1>1, <1>2, TaskReads
<1>4. /\ ExtractNumber(t, "seq") = Num("7") /\ ExtractString(t, "cmd") = Str("CMD_TASK")
      /\ ExtractString(t, "task_id") = id /\ ExtractString(t, "type") = Str(type)
  BY <1>3, Words DEF ExtractString, ExtractNumber
<1>5. CommandText(id, type) = t
  BY DEF CommandText, t
<1> QED BY <1>4, <1>5 DEF ReadRight

\* The first match with a colon behind it is at k.
FirstKey(t, key, k) ==
  /\ k \in 1..Len(t) /\ k + 2 \in 1..Len(t)
  /\ Matching(t[k], key) /\ t[k + 1] = Sym(":")
  /\ \A j \in 1..Len(t) : Matching(t[j], key) => k <= j \/ t[j + 1] # Sym(":")

LEMMA LookupFinds ==
  ASSUME NEW t, NEW key, NEW k \in Int, Len(t) \in Nat, FirstKey(t, key, k)
  PROVE  FindKeyValue(t, key) = t[k + 2]
<1> DEFINE keys == {i \in Matches(t, key) : i + 1 \in Colons(t)}
<1>1. keys \subseteq Int /\ k \in keys /\ \A j \in keys : k <= j
  BY DEF Matches, Colons, FirstKey
<1>2. Min(keys) = k
  <2> HIDE DEF keys
  <2> QED BY <1>1, MinIs
<1>3. keys # {}
  BY <1>1
<1> QED BY <1>2, <1>3 DEF FindKeyValue, TokenAt, FirstKey

LEMMA ResultFound ==
  ASSUME NEW id \in Strings
  PROVE  GetInt(CmdResult(id), "seq") = Num("7")
<1> DEFINE t == CmdResult(id)
<1>1. ResultTokens(t, id) /\ t[4] = Num("7")
  BY ResultTokensOf DEF CmdResult
<1> HIDE DEF t
<1> Len(t) = 17
  BY <1>1 DEF ResultTokens
<1>2. FirstKey(t, "seq", 2)
  BY <1>1, ResultTokensKeys DEF FirstKey
<1>3. FindKeyValue(t, "seq") = t[2 + 2]
  BY <1>2, LookupFinds
<1>4. GetInt(t, "seq") = Num("7")
  BY <1>1, <1>3, Words DEF GetInt
<1> QED BY <1>4 DEF t

LEMMA StateFound ==
  ASSUME NEW id \in Strings, NEW detail \in Strings, NEW estop \in {"true", "false"}
  PROVE  GetBool(StateText(id, detail, estop), "estop") = Lit(estop)
<1> DEFINE t == StateText(id, detail, estop)
<1>1. StateTokens(t, id, detail, estop) /\ t[22] = Lit(estop)
  BY StateTokensOf DEF StateText
<1> HIDE DEF t
<1> Len(t) = 23
  BY <1>1 DEF StateTokens
<1>2. \A j \in 1..23 : t[j] = Sym(":") <=> j \in {3, 6, 11, 15, 21}
  BY <1>1, StateTokensKeys
<1>3. Matching(t[20], "estop")
      /\ \A j \in 1..23 : Matching(t[j], "estop") => j \in {7, 16, 20}
  BY <1>1, StateTokensKeys
<1>4. FirstKey(t, "estop", 20)
  BY <1>2, <1>3 DEF FirstKey
<1>5. FindKeyValue(t, "estop") = t[20 + 2]
  BY <1>4, LookupFinds
<1>6. GetBool(t, "estop") = Lit(estop)
  BY <1>1, <1>5 DEF GetBool
<1> QED BY <1>6 DEF t

\* The robot reads of a command what the operator sent, whatever he typed as its id,
\* but for a goto whose id is the name of a field behind it (extract_string and
\* extract_number take the first match).
THEOREM CommandsRead == JsonSpec => []CommandsReadRight
<1>1. message \in Messages => CommandsReadRight
  <2> SUFFICES ASSUME message \in Messages, message.kind = "command"
               PROVE  ReadRight(message.id, message.type)
                        <=> ~(message.type = "goto" /\ message.id[2] \in {"type", "x", "y"})
    BY DEF CommandsReadRight
  <2>1. message.id \in Strings /\ message.type \in TaskTypes
    BY DEF Messages
  <2> QED BY <2>1, GotoRight, TaskRight
<1>2. JsonInit => message \in Messages
  BY DEF JsonInit
<1>3. message \in Messages /\ [Publish]_message => (message \in Messages)'
  BY DEF Publish
<1> QED BY <1>1, <1>2, <1>3, PTL DEF JsonSpec

\* The bridge finds the estop flag of a state and the number of a result, whatever
\* strings the robot put before them (find_key_value skips a match without a colon).
THEOREM LookupsFind == JsonSpec => []LookupFindsKeys
<1>1. message \in Messages => LookupFindsKeys
  <2> SUFFICES ASSUME message \in Messages PROVE LookupFindsKeys
    OBVIOUS
  <2>1. CASE message.kind = "state"
    <3>1. message.id \in Strings /\ message.detail \in Strings
          /\ message.estop \in {"true", "false"}
      BY <2>1 DEF Messages
    <3> QED BY <2>1, <3>1, StateFound DEF LookupFindsKeys
  <2>2. CASE message.kind = "result"
    <3>1. message.id \in Strings
      BY <2>2 DEF Messages
    <3> QED BY <2>2, <3>1, ResultFound DEF LookupFindsKeys
  <2> QED BY <2>1, <2>2 DEF LookupFindsKeys
<1>2. JsonInit => message \in Messages
  BY DEF JsonInit
<1>3. message \in Messages /\ [Publish]_message => (message \in Messages)'
  BY DEF Publish
<1> QED BY <1>1, <1>2, <1>3, PTL DEF JsonSpec
=============================================================================
