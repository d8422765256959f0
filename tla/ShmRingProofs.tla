--------------------------- MODULE ShmRingProofs ---------------------------
(***************************************************************************)
(* Proofs about ShmRing, about ShmRestart, which extends it, for every     *)
(* capacity, set of bodies and number of writes and deaths, and about the  *)
(* unpackers on any buffer (FrameBuffer).                                  *)
(***************************************************************************)
EXTENDS ShmRestart, FrameBuffer, TLAPS, SequenceTheorems, WellFoundedInduction

(***************************************************************************)
(* Arithmetic of ring positions.                                           *)
(***************************************************************************)

\* A position is inside the data region.
LEMMA PositionInRing ==
    ASSUME NEW C \in Nat \ {0}, NEW a \in Nat
    PROVE  a % C \in 0 .. C - 1
  OBVIOUS

\* Two offsets less than a ring apart have different positions: this is what
\* keeps the frame being written off the bytes still to be read.
LEMMA DistinctPositions ==
    ASSUME NEW C \in Nat \ {0}, NEW a \in Nat, NEW b \in Nat,
           a < b, b < a + C
    PROVE  a % C # b % C
  <1> DEFINE qa == a \div C
             qb == b \div C
  <1>1. /\ qa \in Int /\ qb \in Int
        /\ a = C * qa + (a % C)
        /\ b = C * qb + (b % C)
    OBVIOUS
  <1>2. SUFFICES ASSUME a % C = b % C PROVE FALSE
    OBVIOUS
  <1>3. b - a = C * (qb - qa)
    BY <1>1, <1>2
  <1> DEFINE d == qb - qa
  <1>4. d \in Int /\ 0 < C * d /\ C * d < C
    BY <1>1, <1>3
  <1> HIDE DEF d
  <1>5. CASE d <= 0
    <2>1. C * d <= 0
      BY <1>4, <1>5
    <2> QED BY <2>1, <1>4
  <1>6. CASE d >= 1
    <2>1. C * d >= C
      BY <1>4, <1>6
    <2> QED BY <2>1, <1>4
  <1>7. QED
    BY <1>4, <1>5, <1>6

-----------------------------------------------------------------------------
(***************************************************************************)
(* Frames are byte sequences.                                              *)
(***************************************************************************)

\* A body's length fits the prefix, so the prefix is made of bytes.
LEMMA PrefixTyped ==
    ASSUME NEW n \in Nat, n < ByteBase * ByteBase
    PROVE  Prefix(n) \in Seq(Byte) /\ Len(Prefix(n)) = 2
  <1> DEFINE q == n \div ByteBase
  <1>1. /\ ByteBase \in Nat \ {0}
        /\ q \in Nat /\ n % ByteBase \in 0 .. ByteBase - 1
        /\ ByteBase * q <= n
    BY ProtocolAssumption
  <1>2. q <= ByteBase - 1
    <2>1. SUFFICES ASSUME q >= ByteBase PROVE FALSE
      BY <1>1
    <2> HIDE DEF q
    <2>2. ByteBase * q >= ByteBase * ByteBase
      BY <1>1, <2>1
    <2>3. QED
      BY <1>1, <2>2
  <1> HIDE DEF q
  <1>3. q \in Byte /\ n % ByteBase \in Byte
    BY <1>1, <1>2 DEF Byte
  <1>4. Prefix(n) = << q, n % ByteBase >>
    BY DEF Prefix, q
  <1>5. QED
    BY <1>3, <1>4

\* Packing a body yields a non-empty byte sequence.
LEMMA FrameTyped ==
    ASSUME NEW body \in Bodies
    PROVE  pack_frame(body) \in Seq(Byte) /\ Len(pack_frame(body)) > 0
  <1>1. body \in Seq(Byte) /\ Len(body) \in Nat /\ Len(body) < ByteBase * ByteBase
    BY RingAssumption
  <1>2. Prefix(Len(body)) \in Seq(Byte) /\ Len(Prefix(Len(body))) = 2
    BY <1>1, PrefixTyped
  <1>3. QED
    BY <1>1, <1>2 DEF pack_frame

\* What a concatenation holds, position by position.
LEMMA ConcatBytes ==
    ASSUME NEW s \in Seq(Byte), NEW t \in Seq(Byte), NEW u, u = s \o t
    PROVE  /\ u \in Seq(Byte) /\ Len(u) = Len(s) + Len(t)
           /\ \A i \in 1 .. Len(s) : u[i] = s[i]
           /\ \A i \in 1 .. Len(t) : u[Len(s) + i] = t[i]
  <1>1. /\ Len(s) \in Nat /\ Len(t) \in Nat
        /\ u \in Seq(Byte) /\ Len(u) = Len(s) + Len(t)
        /\ \A i \in 1 .. Len(s) + Len(t) :
             u[i] = IF i <= Len(s) THEN s[i] ELSE t[i - Len(s)]
    BY ConcatProperties
  <1>2. ASSUME NEW i \in 1 .. Len(s) PROVE u[i] = s[i]
    BY <1>1
  <1>3. ASSUME NEW i \in 1 .. Len(t) PROVE u[Len(s) + i] = t[i]
    <2>1. /\ Len(s) + i \in 1 .. Len(s) + Len(t)
          /\ ~(Len(s) + i <= Len(s)) /\ (Len(s) + i) - Len(s) = i
      BY <1>1
    <2>2. QED
      BY <1>1, <2>1
  <1>4. QED
    BY <1>1, <1>2, <1>3

-----------------------------------------------------------------------------
(***************************************************************************)
(* The inductive invariant.                                                *)
(***************************************************************************)

LEMMA RingInvInit == Init => RingInv
  <1> SUFFICES ASSUME Init PROVE RingInv
    OBVIOUS
  <1> USE ProtocolAssumption, RingAssumption DEF Init
  <1>1. 0 \in Byte
    BY DEF Byte
  <1>2. TypeOK
    BY <1>1 DEF TypeOK
  <1>3. OffsetsOK /\ UnreadOK /\ WritingOK /\ ReadingOK
    BY DEF OffsetsOK, UnreadOK, WritingOK, ReadingOK
  <1>4. QED
    BY <1>2, <1>3 DEF RingInv

\* The steps that touch neither the offsets, the data region, nor the copies
\* in progress.
LEMMA RingInvQuiet ==
    ASSUME RingInv, TypeOK',
           UNCHANGED << w, r, mem, pw, frame, copied, cr, avail, chunk, log, got >>,
           pc' = pc \/ pc' = "idle",
           cpc' = cpc \/ cpc' \in {"poll", "drain", "wait"}
    PROVE  RingInv'
  BY DEF RingInv, OffsetsOK, UnreadOK, WritingOK, ReadingOK

\* Finding room for a frame: its bytes fit in front of the unread ones.
LEMMA RingInvStartWrite ==
    ASSUME RingInv, NEW body \in Bodies, StartWrite(body)
    PROVE  RingInv'
  <1> DEFINE f == pack_frame(body)
  <1>1. f \in Seq(Byte) /\ Len(f) > 0 /\ Len(f) \in Nat
    BY FrameTyped
  <1> HIDE DEF f
  <1>2. /\ pc' = "copy" /\ pw' = w /\ frame' = f /\ copied' = 0 /\ Len(f) <= Free
        /\ UNCHANGED << w, r, mem, fifo, frames_dropped, cpc, cr, avail, chunk, log, got >>
    BY DEF StartWrite, ringVars, consumerVars, history, f
  <1>3. TypeOK'
    BY <1>1, <1>2 DEF RingInv, TypeOK
  <1>4. OffsetsOK' /\ UnreadOK' /\ ReadingOK'
    BY <1>2 DEF RingInv, OffsetsOK, UnreadOK, ReadingOK
  <1>5. WritingOK'
    <2>1. w \in Nat /\ r \in Nat /\ Capacity \in Nat
      BY RingAssumption DEF RingInv, TypeOK
    <2>2. w + Len(f) - r <= Capacity
      BY ONLY <1>1, <1>2, <2>1 DEF Free
    <2>3. \A i \in 0 .. 0 - 1 : FALSE
      OBVIOUS
    <2>4. w' = w /\ r' = r /\ pc' = "copy" /\ pw' = w /\ frame' = f /\ copied' = 0
      BY <1>2
    <2>5. 0 <= Len(f) /\ 0 < Len(f)
      BY ONLY <1>1
    <2>6. "copy" # "publish"
      OBVIOUS
    <2>7. QED
      BY ONLY <2>2, <2>3, <2>4, <2>5, <2>6 DEF WritingOK
  <1>6. QED
    BY <1>3, <1>4, <1>5 DEF RingInv

\* Copying a byte in: its position is none of the unread bytes' nor of the
\* frame's bytes already copied, all of them less than a ring away.
LEMMA RingInvCopyIn ==
    ASSUME RingInv, CopyIn
    PROVE  RingInv'
  <1> DEFINE o == w + copied
  <1>1. /\ Capacity \in Nat \ {0} /\ w \in Nat /\ r \in Nat /\ copied \in Nat
        /\ frame \in Seq(Byte) /\ Len(frame) \in Nat
        /\ mem \in [0 .. Capacity - 1 -> Byte]
    BY RingAssumption DEF RingInv, TypeOK
  <1>2. /\ pc = "copy" /\ pw = w /\ copied < Len(frame)
        /\ w + Len(frame) - r <= Capacity /\ r <= w
    BY DEF CopyIn, RingInv, WritingOK, OffsetsOK
  <1>3. o \in Nat /\ o % Capacity \in 0 .. Capacity - 1
    BY <1>1, PositionInRing
  <1>4. /\ mem' = [mem EXCEPT ![o % Capacity] = frame[copied + 1]]
        /\ copied' = copied + 1
        /\ pc' = IF copied + 1 = Len(frame) THEN "publish" ELSE "copy"
        /\ UNCHANGED << w, r, fifo, pw, frame, frames_dropped, cpc, cr, avail, chunk, log, got >>
    BY <1>2 DEF CopyIn, consumerVars, history
  <1>5. frame[copied + 1] \in Byte
    BY <1>1, <1>2
  <1>6. TypeOK'
    BY <1>1, <1>3, <1>4, <1>5 DEF RingInv, TypeOK
  <1>7. OffsetsOK' /\ ReadingOK'
    BY <1>4 DEF RingInv, OffsetsOK, ReadingOK
  <1>8. ASSUME NEW a \in Nat, r <= a, a < o
        PROVE  mem'[a % Capacity] = mem[a % Capacity]
    <2>1. o < a + Capacity
      BY <1>1, <1>2, <1>8
    <2>2. a % Capacity # o % Capacity
      BY <1>1, <1>3, <1>8, <2>1, DistinctPositions
    <2>3. a % Capacity \in 0 .. Capacity - 1
      BY <1>1, PositionInRing
    <2>4. QED
      BY <1>1, <1>4, <2>2, <2>3
  <1>9. UnreadOK'
    <2> SUFFICES ASSUME NEW a \in r .. w - 1
                 PROVE  mem'[a % Capacity] = log[a + 1]
      BY <1>4 DEF UnreadOK
    <2>1. a \in Nat /\ r <= a /\ a < o
      BY <1>1
    <2>2. mem[a % Capacity] = log[a + 1]
      BY DEF RingInv, UnreadOK
    <2>3. QED
      BY <1>8, <2>1, <2>2
  <1>10. WritingOK'
    <2>1. ASSUME NEW i \in 0 .. copied
          PROVE  mem'[(w + i) % Capacity] = frame[i + 1]
      <3>1. CASE i = copied
        BY <1>1, <1>3, <1>4, <3>1
      <3>2. CASE i # copied
        <4>1. w + i \in Nat /\ r <= w + i /\ w + i < o /\ i \in 0 .. copied - 1
          BY <1>1, <1>2, <3>2
        <4>2. mem[(w + i) % Capacity] = frame[i + 1]
          BY <1>2, <4>1 DEF RingInv, WritingOK
        <4>3. QED
          BY <1>8, <4>1, <4>2
      <3>3. QED
        BY <3>1, <3>2
    <2>2. /\ pw' = w' /\ w' + Len(frame') - r' <= Capacity /\ copied' <= Len(frame')
          /\ pc' = "copy" => copied' < Len(frame')
          /\ pc' = "publish" => copied' = Len(frame')
      BY <1>1, <1>2, <1>4
    <2>3. 0 .. copied' - 1 = 0 .. copied
      BY <1>1, <1>4
    <2>4. QED
      BY <1>4, <2>1, <2>2, <2>3 DEF WritingOK
  <1>11. QED
    BY <1>6, <1>7, <1>9, <1>10 DEF RingInv

\* Publishing the frame: its bytes become the unread bytes of the new range.
LEMMA RingInvPublish ==
    ASSUME RingInv, Publish
    PROVE  RingInv'
  <1>1. /\ Capacity \in Nat \ {0} /\ w \in Nat /\ r \in Nat /\ copied \in Nat
        /\ frame \in Seq(Byte) /\ Len(frame) \in Nat
        /\ log \in Seq(Byte) /\ got \in Seq(Byte)
    BY RingAssumption DEF RingInv, TypeOK
  <1>2. /\ pw = w /\ copied = Len(frame) /\ r <= w
        /\ w + Len(frame) - r <= Capacity
        /\ Len(log) = w /\ Len(got) = r
        /\ \A i \in 0 .. copied - 1 : mem[(w + i) % Capacity] = frame[i + 1]
    BY DEF Publish, RingInv, WritingOK, OffsetsOK
  <1>3. /\ w' = w + Len(frame) /\ log' = log \o frame /\ pc' = "notify"
        /\ UNCHANGED << r, mem, fifo, pw, frame, copied, frames_dropped,
                        cpc, cr, avail, chunk, got >>
    BY <1>2 DEF Publish, consumerVars
  <1>4. /\ log' \in Seq(Byte) /\ Len(log') = w'
        /\ \A i \in 1 .. w : log'[i] = log[i]
        /\ \A i \in 1 .. Len(frame) : log'[w + i] = frame[i]
    <2>1. /\ log' \in Seq(Byte) /\ Len(log') = Len(log) + Len(frame)
          /\ \A i \in 1 .. Len(log) : log'[i] = log[i]
          /\ \A i \in 1 .. Len(frame) : log'[Len(log) + i] = frame[i]
      <3>1. log' = log \o frame
        BY <1>3
      <3>2. QED
        BY <1>1, <3>1, ConcatBytes
    <2>2. Len(log) = w /\ w' = w + Len(frame)
      BY <1>2, <1>3
    <2>3. QED
      BY <2>1, <2>2
  <1>5. TypeOK'
    BY <1>1, <1>3, <1>4 DEF RingInv, TypeOK
  <1>6. OffsetsOK'
    BY <1>1, <1>2, <1>3, <1>4, SMTT(30) DEF RingInv, OffsetsOK
  <1>7. UnreadOK'
    <2> SUFFICES ASSUME NEW a \in r' .. w' - 1
                 PROVE  mem'[a % Capacity] = log'[a + 1]
      BY DEF UnreadOK
    <2>0. mem' = mem /\ a \in r .. w + Len(frame) - 1
      <3>1. mem' = mem /\ r' = r /\ w' = w + Len(frame)
        BY <1>3
      <3>2. r' .. w' - 1 = r .. w + Len(frame) - 1
        BY <1>1, <3>1
      <3>3. QED
        BY <3>1, <3>2
    <2>1. CASE a < w
      <3>1. a \in r .. w - 1 /\ a + 1 \in 1 .. w
        BY <1>1, <2>0, <2>1
      <3>2. QED
        BY <1>4, <2>0, <3>1 DEF RingInv, UnreadOK
    <2>2. CASE a >= w
      <3> DEFINE i == a - w
      <3>1. i \in 0 .. copied - 1 /\ w + i = a /\ i + 1 \in 1 .. Len(frame) /\ w + (i + 1) = a + 1
        BY <1>1, <1>2, <2>0, <2>2
      <3> HIDE DEF i
      <3>2. mem[a % Capacity] = frame[i + 1]
        BY <1>2, <3>1
      <3>3. log'[a + 1] = frame[i + 1]
        BY <1>4, <3>1
      <3>4. QED
        BY <2>0, <3>2, <3>3
    <2>3. QED
      BY <1>1, <2>0, <2>1, <2>2
  <1>8. WritingOK'
    BY <1>3 DEF WritingOK
  <1>9. ReadingOK'
    <2> SUFFICES ASSUME cpc \in {"copy", "store"}
                 PROVE  ReadingOK'
      BY <1>3 DEF ReadingOK
    <2>1. /\ cr = r /\ r + avail <= w /\ Len(chunk) <= avail
          /\ cpc = "copy" => Len(chunk) < avail
          /\ cpc = "store" => Len(chunk) = avail
          /\ \A i \in 1 .. Len(chunk) : chunk[i] = log[r + i]
      BY DEF RingInv, ReadingOK
    <2>2. avail \in Nat /\ Len(chunk) \in Nat
      BY DEF RingInv, TypeOK
    <2>3. \A i \in 1 .. Len(chunk) : r + i \in 1 .. w
      BY <1>1, <2>1, <2>2
    <2>4. QED
      BY <1>1, <1>3, <1>4, <2>1, <2>2, <2>3 DEF ReadingOK
  <1>10. QED
    BY <1>5, <1>6, <1>7, <1>8, <1>9 DEF RingInv

\* A read takes the published bytes that are unread.
LEMMA RingInvStartRead ==
    ASSUME RingInv, StartRead
    PROVE  RingInv'
  <1>1. /\ w \in Nat /\ r \in Nat /\ r <= w
    BY DEF RingInv, TypeOK, OffsetsOK
  <1>2. /\ cpc' = "copy" /\ cr' = r /\ avail' = w - r /\ avail' > 0 /\ chunk' = << >>
        /\ UNCHANGED << w, r, mem, fifo, pc, pw, frame, copied, frames_dropped, log, got >>
    BY <1>1 DEF StartRead, Available, ringVars, producerVars, history
  <1>3. TypeOK'
    BY <1>1, <1>2 DEF RingInv, TypeOK
  <1>4. OffsetsOK' /\ UnreadOK' /\ WritingOK'
    BY <1>2 DEF RingInv, OffsetsOK, UnreadOK, WritingOK
  <1>5. ReadingOK'
    BY <1>1, <1>2 DEF ReadingOK
  <1>6. QED
    BY <1>3, <1>4, <1>5 DEF RingInv

\* Copying a byte out: the byte is unread, so it is the published one.
LEMMA RingInvCopyOut ==
    ASSUME RingInv, CopyOut
    PROVE  RingInv'
  <1>1. /\ Capacity \in Nat \ {0} /\ w \in Nat /\ r \in Nat /\ avail \in Nat
        /\ chunk \in Seq(Byte) /\ Len(chunk) \in Nat
        /\ mem \in [0 .. Capacity - 1 -> Byte]
    BY RingAssumption DEF RingInv, TypeOK
  <1>2. /\ cpc = "copy" /\ cr = r /\ r + avail <= w /\ Len(chunk) < avail
        /\ \A i \in 1 .. Len(chunk) : chunk[i] = log[r + i]
    BY DEF CopyOut, RingInv, ReadingOK
  <1> DEFINE o == r + Len(chunk)
             b == mem[o % Capacity]
  <1>3. o \in r .. w - 1 /\ o \in Nat
    BY <1>1, <1>2
  <1>4. o % Capacity \in 0 .. Capacity - 1
    BY <1>1, <1>3, PositionInRing
  <1>5. b = log[r + (Len(chunk) + 1)] /\ b \in Byte
    <2>1. mem[o % Capacity] = log[o + 1]
      BY <1>3 DEF RingInv, UnreadOK
    <2>2. o + 1 = r + (Len(chunk) + 1)
      BY <1>1
    <2>3. QED
      BY <1>1, <1>4, <2>1, <2>2
  <1>6. /\ chunk' = Append(chunk, b)
        /\ cpc' = IF Len(chunk) + 1 = avail THEN "store" ELSE "copy"
        /\ UNCHANGED << w, r, mem, fifo, pc, pw, frame, copied, frames_dropped,
                        cr, avail, log, got >>
    BY <1>2 DEF CopyOut, ringVars, producerVars, history
  <1> HIDE DEF b
  <1>7. /\ chunk' \in Seq(Byte) /\ Len(chunk') = Len(chunk) + 1
        /\ \A i \in 1 .. Len(chunk) : chunk'[i] = chunk[i]
        /\ chunk'[Len(chunk) + 1] = b
    BY <1>1, <1>5, <1>6
  <1>8. TypeOK'
    BY <1>6, <1>7 DEF RingInv, TypeOK
  <1>9. OffsetsOK' /\ UnreadOK' /\ WritingOK'
    BY <1>6 DEF RingInv, OffsetsOK, UnreadOK, WritingOK
  <1>10. ReadingOK'
    <2>1. ASSUME NEW i \in 1 .. Len(chunk')
          PROVE  chunk'[i] = log[r + i]
      <3>1. CASE i = Len(chunk) + 1
        BY <1>5, <1>7, <3>1
      <3>2. CASE i # Len(chunk) + 1
        <4>1. i \in 1 .. Len(chunk)
          BY <1>1, <1>7, <3>2
        <4>2. QED
          BY <1>2, <1>7, <4>1
      <3>3. QED
        BY <3>1, <3>2
    <2>2. QED
      BY <1>1, <1>2, <1>6, <1>7, <2>1 DEF ReadingOK
  <1>11. QED
    BY <1>8, <1>9, <1>10 DEF RingInv

\* Releasing the bytes read: the stream read grows by exactly those.
LEMMA RingInvStoreRead ==
    ASSUME RingInv, StoreRead
    PROVE  RingInv'
  <1>1. /\ Capacity \in Nat \ {0} /\ w \in Nat /\ r \in Nat /\ avail \in Nat
        /\ chunk \in Seq(Byte) /\ got \in Seq(Byte) /\ log \in Seq(Byte)
        /\ Len(chunk) \in Nat /\ Len(frame) \in Nat /\ copied \in Nat
    BY RingAssumption DEF RingInv, TypeOK
  <1>2. /\ cr = r /\ r + avail <= w /\ Len(chunk) = avail
        /\ \A i \in 1 .. Len(chunk) : chunk[i] = log[r + i]
        /\ r <= w /\ w - r <= Capacity /\ Len(log) = w /\ Len(got) = r
        /\ \A i \in 1 .. r : got[i] = log[i]
    BY DEF StoreRead, RingInv, ReadingOK, OffsetsOK
  <1>3. /\ r' = r + avail /\ got' = got \o chunk /\ cpc' = "unpack"
        /\ UNCHANGED << w, mem, fifo, pc, pw, frame, copied, frames_dropped,
                        cr, avail, chunk, log >>
    BY <1>2 DEF StoreRead, producerVars
  <1>4. /\ got' \in Seq(Byte) /\ Len(got') = r'
        /\ \A i \in 1 .. r : got'[i] = got[i]
        /\ \A i \in 1 .. avail : got'[r + i] = chunk[i]
    <2>1. /\ got' \in Seq(Byte) /\ Len(got') = Len(got) + Len(chunk)
          /\ \A i \in 1 .. Len(got) : got'[i] = got[i]
          /\ \A i \in 1 .. Len(chunk) : got'[Len(got) + i] = chunk[i]
      <3>1. got' = got \o chunk
        BY <1>3
      <3>2. QED
        BY <1>1, <3>1, ConcatBytes
    <2>2. Len(got) = r /\ Len(chunk) = avail /\ r' = r + avail
      BY <1>2, <1>3
    <2>3. QED
      BY <2>1, <2>2
  <1>5. TypeOK'
    BY <1>1, <1>3, <1>4 DEF RingInv, TypeOK
  <1>6. OffsetsOK'
    <2>1. ASSUME NEW i \in 1 .. r'
          PROVE  got'[i] = log[i]
      <3>1. CASE i <= r
        <4>1. i \in 1 .. r
          BY <1>1, <1>3, <3>1
        <4>2. QED
          BY <1>2, <1>4, <4>1
      <3>2. CASE i > r
        <4> DEFINE j == i - r
        <4>1. j \in 1 .. avail /\ r + j = i
          BY <1>1, <1>3, <3>2
        <4> HIDE DEF j
        <4>2. QED
          BY <1>2, <1>4, <4>1
      <3>3. i \in Nat
        BY <1>1, <1>3
      <3>4. QED
        BY <1>1, <3>1, <3>2, <3>3
    <2>2. QED
      BY <1>1, <1>2, <1>3, <1>4, <2>1, SMTT(30) DEF OffsetsOK
  <1>7. UnreadOK'
    <2>1. mem' = mem /\ log' = log /\ w' = w /\ r' \in Nat /\ r <= r'
      BY <1>1, <1>3
    <2>2. r' .. w - 1 \subseteq r .. w - 1
      BY <1>1, <2>1
    <2>3. QED
      BY <2>1, <2>2 DEF RingInv, UnreadOK
  <1>8. WritingOK'
    BY <1>1, <1>3 DEF RingInv, WritingOK
  <1>9. ReadingOK'
    BY <1>3 DEF ReadingOK
  <1>10. QED
    BY <1>5, <1>6, <1>7, <1>8, <1>9 DEF RingInv

(***************************************************************************)
(* The theorems.                                                           *)
(***************************************************************************)

LEMMA RingInvStep == RingInv /\ [Next]_vars => RingInv'
  <1> SUFFICES ASSUME RingInv, [Next]_vars PROVE RingInv'
    OBVIOUS
  <1> USE DEF ringVars, producerVars, consumerVars, history
  <1>1. ASSUME NEW body \in Bodies, DropFrame(body) PROVE RingInv'
    <2>1. TypeOK'
      BY <1>1 DEF DropFrame, RingInv, TypeOK
    <2>2. QED
      BY <1>1, <2>1, RingInvQuiet DEF DropFrame
  <1>2. ASSUME NEW body \in Bodies, StartWrite(body) PROVE RingInv'
    BY <1>2, RingInvStartWrite
  <1>3. CASE CopyIn
    BY <1>3, RingInvCopyIn
  <1>4. CASE Publish
    BY <1>4, RingInvPublish
  <1>5. CASE Notify
    <2>1. TypeOK'
      BY <1>5, RingAssumption DEF Notify, RingInv, TypeOK
    <2>2. QED
      BY <1>5, <2>1, RingInvQuiet DEF Notify
  <1>6. CASE StartRead
    BY <1>6, RingInvStartRead
  <1>7. CASE CopyOut
    BY <1>7, RingInvCopyOut
  <1>8. CASE StoreRead
    BY <1>8, RingInvStoreRead
  <1>9. CASE Unpack
    <2>1. TypeOK'
      BY <1>9 DEF Unpack, RingInv, TypeOK
    <2>2. QED
      BY <1>9, <2>1, RingInvQuiet DEF Unpack
  <1>10. CASE FindEmpty \/ DrainNotify \/ Wake \/ WaitTimeout
    <2>1. TypeOK'
      <3>1. CASE DrainNotify
        BY <3>1, RingAssumption DEF DrainNotify, RingInv, TypeOK
      <3>2. CASE FindEmpty \/ Wake \/ WaitTimeout
        BY <3>2 DEF FindEmpty, Wake, WaitTimeout, RingInv, TypeOK
      <3>3. QED
        BY <1>10, <3>1, <3>2
    <2>2. QED
      BY <1>10, <2>1, RingInvQuiet DEF FindEmpty, DrainNotify, Wake, WaitTimeout
  <1>11. CASE UNCHANGED vars
    <2>1. TypeOK'
      BY <1>11 DEF vars, RingInv, TypeOK
    <2>2. QED
      BY <1>11, <2>1, RingInvQuiet DEF vars
  <1>12. QED
    BY <1>1, <1>2, <1>3, <1>4, <1>5, <1>6, <1>7, <1>8, <1>9, <1>10, <1>11
       DEF Next, Producer, Consumer

\* The inductive invariant holds of every ring: offsets, data region and both
\* memcpys of ring.rs stay consistent whatever the capacity and the frames.
THEOREM RingInvariant == Spec => []RingInv
  BY RingInvInit, RingInvStep, PTL DEF Spec

\* Two byte sequences of which one begins the other, said with SubSeq.
LEMMA PrefixAsSubSeq ==
    ASSUME NEW s \in Seq(Byte), NEW t \in Seq(Byte), NEW n \in Nat,
           n + Len(s) <= Len(t), \A i \in 1 .. Len(s) : s[i] = t[n + i]
    PROVE  s = SubSeq(t, n + 1, n + Len(s))
  <1>1. Len(s) \in Nat /\ Len(t) \in Nat
    OBVIOUS
  <1> DEFINE u == SubSeq(t, n + 1, n + Len(s))
  <1>2. /\ u \in Seq(Byte) /\ Len(u) = Len(s)
        /\ \A i \in 1 .. Len(s) : u[i] = t[n + i]
    BY <1>1
  <1> HIDE DEF u
  <1>3. s = u
    BY <1>2, SeqEqual
  <1>4. QED
    BY <1>3 DEF u

\* The consumer's stream is the producer's: for every capacity and every set
\* of message bodies, what read_available_into has copied out is, byte for
\* byte and in order, what write_body published.
THEOREM StreamIntactHolds == Spec => []StreamIntact
  <1>1. RingInv => StreamIntact
    <2> SUFFICES ASSUME RingInv PROVE StreamIntact
      OBVIOUS
    <2>1. /\ got \in Seq(Byte) /\ log \in Seq(Byte) /\ chunk \in Seq(Byte)
          /\ r \in Nat /\ w \in Nat /\ avail \in Nat
          /\ Len(got) = r /\ Len(log) = w /\ r <= w
          /\ \A i \in 1 .. r : got[i] = log[i]
      BY DEF RingInv, TypeOK, OffsetsOK
    <2>2. Len(got) <= Len(log) /\ got = SubSeq(log, 1, Len(got))
      <3>1. /\ 0 + Len(got) <= Len(log)
            /\ \A i \in 1 .. Len(got) : got[i] = log[0 + i]
        BY <2>1
      <3>2. got = SubSeq(log, 0 + 1, 0 + Len(got))
        BY <2>1, <3>1, PrefixAsSubSeq
      <3>3. QED
        BY <2>1, <3>2
    <2>3. ASSUME cpc \in {"copy", "store"}
          PROVE  /\ cr + Len(chunk) <= Len(log)
                 /\ chunk = SubSeq(log, cr + 1, cr + Len(chunk))
      <3>1. /\ cr = r /\ r + avail <= w /\ Len(chunk) <= avail
            /\ \A i \in 1 .. Len(chunk) : chunk[i] = log[r + i]
        BY <2>3 DEF RingInv, ReadingOK
      <3>2. r + Len(chunk) <= Len(log)
        BY <2>1, <3>1
      <3>3. chunk = SubSeq(log, r + 1, r + Len(chunk))
        BY <2>1, <3>1, <3>2, PrefixAsSubSeq
      <3>4. QED
        BY <3>1, <3>2, <3>3
    <2>4. QED
      BY <2>2, <2>3 DEF StreamIntact
  <1>2. QED
    BY <1>1, RingInvariant, PTL

-----------------------------------------------------------------------------
(***************************************************************************)
(* What unpack_all_frames makes of whole frames.  CursorWalk is recursive: *)
(* that its definition has a solution, and what the solution is on a       *)
(* buffer of whole frames, are inductions, which the proofs below do by    *)
(* looking at a least counterexample.                                      *)
(***************************************************************************)

\* Every set of naturals that is not empty has a least element.
LEMMA LeastNatural ==
    ASSUME NEW T, T \subseteq Nat, T # {}
    PROVE  \E x \in T : \A y \in T : x <= y
  <1> DEFINE R == {ss \in Nat \X Nat : ss[1] < ss[2]}
  <1>1. IsWellFoundedOn(R, Nat)
    BY NatLessThanWellFounded DEF OpToRel
  <1> HIDE DEF R
  <1>2. PICK x \in T : \A y \in T : ~(<< y, x >> \in R)
    BY <1>1, WFMin
  <1>3. ASSUME NEW y \in T PROVE x <= y
    <2>1. x \in Nat /\ y \in Nat /\ ~(<< y, x >> \in R)
      BY <1>2
    <2>2. y < x => << y, x >> \in R
      BY <2>1 DEF R
    <2>3. QED
      BY <2>1, <2>2
  <1>4. QED
    BY <1>2, <1>3

\* One turn of the while loop of unpack_all_frames at cursor c, given what the
\* later turns come to.
WalkTurn(b, f, c) ==
    IF c + PrefixLen > Len(b)
    THEN [ok |-> TRUE, frames |-> << >>, cursor |-> c]
    ELSE LET size == SizeAt(b, c)
             next == c + PrefixLen + size
         IN  IF size > MaxFrameBytes
             THEN [ok |-> FALSE, frames |-> << >>, cursor |-> c]
             ELSE IF next > Len(b)
             THEN [ok |-> TRUE, frames |-> << >>, cursor |-> c]
             ELSE [f[next] EXCEPT !.frames =
                     << SubSeq(b, c + PrefixLen + 1, next) >> \o @]

\* A turn looks at later cursors only: every frame has its prefix.
LEMMA WalkTurnLocal ==
    ASSUME NEW b \in Seq(Byte), NEW f, NEW g, NEW c \in 0 .. Len(b),
           \A d \in c + 1 .. Len(b) : f[d] = g[d]
    PROVE  WalkTurn(b, f, c) = WalkTurn(b, g, c)
  <1>1. Len(b) \in Nat
    OBVIOUS
  <1>2. CASE c + PrefixLen > Len(b)
    BY <1>2 DEF WalkTurn
  <1>3. CASE ~(c + PrefixLen > Len(b))
    <2>1. SizeAt(b, c) \in Nat
      <3>1. c + 1 \in 1 .. Len(b) /\ c + 2 \in 1 .. Len(b)
        BY <1>1, <1>3 DEF PrefixLen
      <3>2. b[c + 1] \in Byte /\ b[c + 2] \in Byte
        BY <3>1, ElementOfSeq
      <3>3. ByteBase \in Nat /\ b[c + 1] \in Nat /\ b[c + 2] \in Nat
        BY <3>2, ProtocolAssumption DEF Byte
      <3>4. b[c + 1] * ByteBase \in Nat
        BY <3>3
      <3>5. QED
        BY <3>3, <3>4 DEF SizeAt
    <2> DEFINE next == c + PrefixLen + SizeAt(b, c)
    <2>2. next <= Len(b) => next \in c + 1 .. Len(b)
      BY <1>1, <2>1 DEF PrefixLen
    <2>3. next \in Nat
      BY <2>1 DEF PrefixLen
    <2>4. ~(next > Len(b)) => f[next] = g[next]
      BY <1>1, <2>2, <2>3
    <2>5. QED
      BY <1>3, <2>4 DEF WalkTurn
  <1>4. QED
    BY <1>2, <1>3

\* The recursion has a solution, built from the end of the buffer backwards.
LEMMA WalkExists ==
    ASSUME NEW b \in Seq(Byte)
    PROVE  \E f : f = [c \in 0 .. Len(b) |-> WalkTurn(b, f, c)]
  <1> DEFINE n == Len(b)
             Solved(a) == \E f : f = [c \in a .. n |-> WalkTurn(b, f, c)]
             T == {k \in 0 .. n + 1 : ~Solved(n + 1 - k)}
  <1>0. n \in Nat
    OBVIOUS
  <1>1. Solved(n + 1)
    <2> DEFINE f == [c \in n + 1 .. n |-> 0]
    <2>1. n + 1 .. n = {}
      BY <1>0
    <2>2. f = [c \in n + 1 .. n |-> WalkTurn(b, f, c)]
      BY <2>1
    <2>3. QED
      BY <2>2
  <1>2. ASSUME NEW a \in 0 .. n, Solved(a + 1) PROVE Solved(a)
    <2>1. PICK f : f = [c \in a + 1 .. n |-> WalkTurn(b, f, c)]
      BY <1>2
    <2> DEFINE g == [c \in a .. n |-> IF c = a THEN WalkTurn(b, f, a) ELSE f[c]]
    <2>2. \A d \in a + 1 .. n : g[d] = f[d]
      BY <1>0
    <2>3. ASSUME NEW c \in a .. n PROVE g[c] = WalkTurn(b, g, c)
      <3>1. c \in 0 .. Len(b) /\ \A d \in c + 1 .. Len(b) : f[d] = g[d]
        BY <1>0, <2>2
      <3> HIDE DEF g
      <3>2. WalkTurn(b, f, c) = WalkTurn(b, g, c)
        BY <3>1, WalkTurnLocal, SMTT(30)
      <3>3. CASE c = a
        BY <3>2, <3>3 DEF g
      <3>4. CASE c # a
        <4>1. c \in a + 1 .. n
          BY <1>0, <3>4
        <4>2. f[c] = WalkTurn(b, f, c)
          BY <2>1, <4>1
        <4>3. QED
          BY <2>2, <3>2, <4>1, <4>2
      <3>5. QED
        BY <3>3, <3>4
    <2>4. g = [c \in a .. n |-> g[c]]
      OBVIOUS
    <2> HIDE DEF g
    <2>5. g = [c \in a .. n |-> WalkTurn(b, g, c)]
      BY <2>3, <2>4
    <2>6. QED
      BY <2>5
  <1> HIDE DEF n, Solved
  <1>3. T = {}
    <2>1. SUFFICES ASSUME T # {} PROVE FALSE
      OBVIOUS
    <2>2. T \subseteq Nat
      BY <1>0
    <2>3. PICK k \in T : \A y \in T : k <= y
      BY <2>1, <2>2, LeastNatural
    <2>4. k # 0
      BY <1>0, <1>1, <2>3
    <2>5. k - 1 \in 0 .. n + 1 /\ k - 1 \notin T
      <3>1. k \in 0 .. n + 1
        BY <2>3
      <3>2. k - 1 \in 0 .. n + 1 /\ ~(k <= k - 1)
        BY <1>0, <2>4, <3>1
      <3> HIDE DEF T
      <3>3. QED
        BY <2>3, <3>2
    <2>6. Solved(n + 1 - (k - 1)) /\ n + 1 - (k - 1) = (n + 1 - k) + 1 /\ n + 1 - k \in 0 .. n
      BY <1>0, <2>3, <2>4, <2>5
    <2>7. Solved(n + 1 - k)
      BY <1>2, <2>6
    <2>8. QED
      BY <2>3, <2>7
  <1>4. Solved(0)
    <2>1. n + 1 \in 0 .. n + 1 /\ n + 1 - (n + 1) = 0
      BY <1>0
    <2>2. QED
      BY <1>3, <2>1
  <1>5. QED
    BY <1>4 DEF Solved, n

LEMMA CursorWalkIs ==
    ASSUME NEW b \in Seq(Byte)
    PROVE  \E f : f = [c \in 0 .. Len(b) |-> WalkTurn(b, f, c)] /\ CursorWalk(b) = f[0]
  <1>1. PICK f : f = [c \in 0 .. Len(b) |-> WalkTurn(b, f, c)]
    BY WalkExists
  <1> DEFINE P(g) == g = [c \in 0 .. Len(b) |-> WalkTurn(b, g, c)]
  <1>2. CursorWalk(b) = (CHOOSE g : P(g))[0]
    BY DEF CursorWalk, WalkTurn
  <1>3. P(f)
    BY <1>1
  <1> HIDE DEF P
  <1>4. P(CHOOSE g : P(g))
    BY <1>3
  <1>5. QED
    BY <1>2, <1>4 DEF P

-----------------------------------------------------------------------------
(* Whole frames: a byte sequence cut at the ends of the frames of bodies.  *)

Packable == {body \in Seq(Byte) : Len(body) <= MaxFrameBytes}

FrameAt(s, o, body) ==
    /\ o + PrefixLen + Len(body) <= Len(s)
    /\ \A i \in 1 .. PrefixLen + Len(body) : s[o + i] = pack_frame(body)[i]

\* f says where s is cut: frame k of bodies ends at f[k].
Cut(s, bodies, f) ==
    /\ f \in [0 .. Len(bodies) -> Nat] /\ f[0] = 0 /\ f[Len(bodies)] = Len(s)
    /\ \A k \in 1 .. Len(bodies) : /\ f[k] = f[k - 1] + PrefixLen + Len(bodies[k])
                                   /\ FrameAt(s, f[k - 1], bodies[k])

\* What a concatenation holds, for any elements.
LEMMA ConcatElems ==
    ASSUME NEW S, NEW s \in Seq(S), NEW t \in Seq(S), NEW u, u = s \o t
    PROVE  /\ u \in Seq(S) /\ Len(u) = Len(s) + Len(t)
           /\ \A i \in 1 .. Len(s) : u[i] = s[i]
           /\ \A i \in 1 .. Len(t) : u[Len(s) + i] = t[i]
  <1>1. /\ Len(s) \in Nat /\ Len(t) \in Nat
        /\ u \in Seq(S) /\ Len(u) = Len(s) + Len(t)
        /\ \A i \in 1 .. Len(s) + Len(t) :
             u[i] = IF i <= Len(s) THEN s[i] ELSE t[i - Len(s)]
    BY ConcatProperties
  <1>2. ASSUME NEW i \in 1 .. Len(s) PROVE u[i] = s[i]
    BY <1>1
  <1>3. ASSUME NEW i \in 1 .. Len(t) PROVE u[Len(s) + i] = t[i]
    <2>1. /\ Len(s) + i \in 1 .. Len(s) + Len(t)
          /\ ~(Len(s) + i <= Len(s)) /\ (Len(s) + i) - Len(s) = i
      BY <1>1
    <2>2. QED
      BY <1>1, <2>1
  <1>4. QED
    BY <1>1, <1>2, <1>3

\* A length is what its two digits say.
LEMMA DigitSum ==
    ASSUME NEW B \in Nat \ {0}, NEW q \in Int, NEW m \in Nat, NEW a \in Nat, a = B * q + m
    PROVE  q * B + m = a
  OBVIOUS

LEMMA TwoDigits ==
    ASSUME NEW B \in Nat \ {0}, NEW a \in Nat
    PROVE  (a \div B) * B + (a % B) = a
  <1> DEFINE q == a \div B
             m == a % B
  <1>1. q \in Int /\ m \in Nat /\ a = B * q + m
    OBVIOUS
  <1> HIDE DEF q, m
  <1>2. q * B + m = a
    BY <1>1, DigitSum
  <1>3. QED
    BY <1>2 DEF q, m

LEMMA SizeIs ==
    ASSUME NEW s, NEW o, NEW x, NEW y, s[o + 1] = x, s[o + 2] = y
    PROVE  SizeAt(s, o) = x * ByteBase + y
  BY DEF SizeAt

\* The bytes of a frame.
LEMMA FrameBytes ==
    ASSUME NEW body \in Seq(Byte)
    PROVE  /\ Len(pack_frame(body)) = PrefixLen + Len(body)
           /\ pack_frame(body)[1] = Len(body) \div ByteBase
           /\ pack_frame(body)[2] = Len(body) % ByteBase
           /\ \A i \in 1 .. Len(body) : pack_frame(body)[PrefixLen + i] = body[i]
  <1> DEFINE p == Prefix(Len(body))
  <1>1. p \in Seq(Nat) /\ Len(p) = 2 /\ p[1] = Len(body) \div ByteBase /\ p[2] = Len(body) % ByteBase
    <2>1. Len(body) \div ByteBase \in Nat /\ Len(body) % ByteBase \in Nat
      BY ProtocolAssumption
    <2>2. QED
      BY <2>1 DEF Prefix
  <1>2. body \in Seq(Nat) /\ Len(body) \in Nat
    BY ProtocolAssumption DEF Byte
  <1> DEFINE u == pack_frame(body)
  <1>3. u = p \o body /\ p \in Seq(Nat)
    BY <1>1 DEF pack_frame
  <1> HIDE DEF p, u
  <1>4. /\ Len(u) = Len(p) + Len(body)
        /\ \A i \in 1 .. Len(p) : u[i] = p[i]
        /\ \A i \in 1 .. Len(body) : u[Len(p) + i] = body[i]
    BY <1>2, <1>3, ConcatElems
  <1>5. QED
    BY <1>1, <1>4 DEF PrefixLen, u

\* The turn of the walk at the start of a frame takes that frame.
LEMMA TurnAtFrame ==
    ASSUME NEW s \in Seq(Byte), NEW body \in Packable, NEW o \in Nat, NEW g,
           FrameAt(s, o, body)
    PROVE  WalkTurn(s, g, o) =
             [g[o + PrefixLen + Len(body)] EXCEPT !.frames = << body >> \o @]
  <1>1. /\ body \in Seq(Byte) /\ Len(body) \in Nat /\ Len(body) <= MaxFrameBytes
        /\ Len(s) \in Nat /\ o + PrefixLen + Len(body) <= Len(s)
        /\ MaxFrameBytes \in Nat
    BY ProtocolAssumption DEF Packable, FrameAt
  <1> DEFINE n == Len(body)
             next == o + PrefixLen + n
  <1>2. SizeAt(s, o) = n
    <2>1. 1 \in 1 .. PrefixLen + Len(body) /\ 2 \in 1 .. PrefixLen + Len(body)
      BY <1>1 DEF PrefixLen
    <2>2. s[o + 1] = n \div ByteBase /\ s[o + 2] = n % ByteBase
      BY <1>1, <2>1, FrameBytes DEF FrameAt
    <2>3. (n \div ByteBase) * ByteBase + (n % ByteBase) = n
      BY <1>1, ProtocolAssumption, TwoDigits
    <2> HIDE DEF n
    <2>4. SizeAt(s, o) = (n \div ByteBase) * ByteBase + (n % ByteBase)
      BY <2>2, SizeIs
    <2>5. QED
      BY <2>3, <2>4
  <1>3. SubSeq(s, o + PrefixLen + 1, next) = body
    <2> DEFINE u == SubSeq(s, o + PrefixLen + 1, next)
    <2>1. ASSUME NEW i \in 1 .. n PROVE body[i] = s[(o + PrefixLen) + i]
      <3>1. PrefixLen + i \in 1 .. PrefixLen + Len(body) /\ o + (PrefixLen + i) = (o + PrefixLen) + i
        BY <1>1 DEF PrefixLen
      <3>2. s[o + (PrefixLen + i)] = pack_frame(body)[PrefixLen + i]
        BY <3>1 DEF FrameAt
      <3>3. QED
        BY <1>1, <3>1, <3>2, FrameBytes
    <2>2. o + PrefixLen \in Nat /\ (o + PrefixLen) + Len(body) <= Len(s)
      BY <1>1 DEF PrefixLen
    <2>3. body = SubSeq(s, (o + PrefixLen) + 1, (o + PrefixLen) + Len(body))
      BY <1>1, <2>1, <2>2, PrefixAsSubSeq
    <2>4. QED
      BY <2>3
  <1>4. ~(o + PrefixLen > Len(s)) /\ ~(n > MaxFrameBytes) /\ ~(next > Len(s))
    BY <1>1 DEF PrefixLen
  <1> HIDE DEF n
  <1>5. WalkTurn(s, g, o) = [g[next] EXCEPT !.frames = << SubSeq(s, o + PrefixLen + 1, next) >> \o @]
    BY <1>2, <1>4 DEF WalkTurn
  <1>6. QED
    BY <1>3, <1>5 DEF n

WalkFields == {"ok", "frames", "cursor"}

\* The first body before the ones that follow it.
LEMMA ConsSubSeq ==
    ASSUME NEW S, NEW s \in Seq(S), NEW k \in 1 .. Len(s)
    PROVE  << s[k] >> \o SubSeq(s, k + 1, Len(s)) = SubSeq(s, k, Len(s))
  <1> DEFINE h == << s[k] >>
             t == SubSeq(s, k + 1, Len(s))
             u == SubSeq(s, k, Len(s))
             n == Len(s)
  <1>0. n \in Nat /\ s[k] \in S /\ k \in 1 .. n
    BY ElementOfSeq
  <1>1. h \in Seq(S) /\ Len(h) = 1 /\ h[1] = s[k]
    BY <1>0
  <1>2. t \in Seq(S) /\ Len(t) = n - k /\ \A i \in 1 .. n - k : t[i] = s[k + i]
    BY <1>0
  <1>3. u \in Seq(S) /\ Len(u) = n - k + 1 /\ \A i \in 1 .. n - k + 1 : u[i] = s[k + i - 1]
    BY <1>0
  <1> DEFINE v == h \o t
  <1>4. v = h \o t /\ h \in Seq(S) /\ t \in Seq(S)
    BY <1>1, <1>2
  <1> HIDE DEF h, t, u, n, v
  <1>5. /\ v \in Seq(S) /\ Len(v) = 1 + Len(t)
        /\ v[1] = h[1]
        /\ \A i \in 1 .. Len(t) : v[1 + i] = t[i]
    <2>1. /\ v \in Seq(S) /\ Len(v) = Len(h) + Len(t)
          /\ \A i \in 1 .. Len(h) : v[i] = h[i]
          /\ \A i \in 1 .. Len(t) : v[Len(h) + i] = t[i]
      BY <1>4, ConcatElems
    <2>2. QED
      BY <1>1, <2>1
  <1>6. ASSUME NEW i \in 1 .. n - k + 1 PROVE v[i] = u[i]
    <2>1. CASE i = 1
      <3>1. v[1] = h[1]
        BY <1>5
      <3>2. u[1] = s[k + 1 - 1] /\ k + 1 - 1 = k
        BY <1>0, <1>3, <2>1
      <3>3. QED
        BY <1>1, <2>1, <3>1, <3>2
    <2>2. CASE i # 1
      <3>1. i - 1 \in 1 .. n - k /\ 1 + (i - 1) = i
        BY <1>0, <2>2
      <3>2. v[i] = t[i - 1]
        BY <1>2, <1>5, <3>1
      <3>3. u[i] = s[k + i - 1]
        BY <1>3
      <3>4. t[i - 1] = s[k + (i - 1)] /\ k + (i - 1) = k + i - 1
        BY <1>0, <1>2, <3>1
      <3>5. QED
        BY <3>2, <3>3, <3>4
    <2>3. QED
      BY <2>1, <2>2
  <1>7. Len(v) = Len(u) /\ Len(u) = n - k + 1
    BY <1>0, <1>2, <1>3, <1>5
  <1>8. v = u
    BY <1>3, <1>5, <1>6, <1>7, SeqEqual
  <1>9. QED
    BY <1>8 DEF h, t, u, n, v

\* On whole frames the walk ends at the end, with every body.
LEMMA WalkFramed ==
    ASSUME NEW s \in Seq(Byte), NEW bodies \in Seq(Packable), NEW f, Cut(s, bodies, f),
           NEW g, g = [c \in 0 .. Len(s) |-> WalkTurn(s, g, c)]
    PROVE  g[0].ok = TRUE /\ g[0].frames = bodies /\ g[0].cursor = Len(s)
  <1> DEFINE n == Len(bodies)
             Right(k) == /\ f[k] \in 0 .. Len(s)
                         /\ DOMAIN g[f[k]] = WalkFields /\ g[f[k]].ok = TRUE
                         /\ g[f[k]].frames = SubSeq(bodies, k + 1, n)
                         /\ g[f[k]].cursor = Len(s)
             T == {j \in 0 .. n : ~Right(n - j)}
  <1>0. /\ n \in Nat /\ Len(s) \in Nat
        /\ f \in [0 .. n -> Nat] /\ f[0] = 0 /\ f[n] = Len(s)
    BY DEF Cut
  <1>1. Right(n)
    <2>1. f[n] \in 0 .. Len(s) /\ Len(s) + PrefixLen > Len(s)
      BY <1>0 DEF PrefixLen
    <2>2. g[f[n]] = [ok |-> TRUE, frames |-> << >>, cursor |-> Len(s)]
      BY <1>0, <2>1 DEF WalkTurn
    <2>3. SubSeq(bodies, n + 1, n) = << >>
      BY <1>0
    <2>4. QED
      BY <2>1, <2>2, <2>3 DEF WalkFields
  <1>2. ASSUME NEW k \in 1 .. n, Right(k) PROVE Right(k - 1)
    <2>1. k - 1 \in 0 .. n /\ f[k - 1] \in Nat /\ bodies[k] \in Packable
      BY <1>0, ElementOfSeq
    <2>2. f[k] = f[k - 1] + PrefixLen + Len(bodies[k]) /\ FrameAt(s, f[k - 1], bodies[k])
      BY DEF Cut
    <2>3. f[k - 1] \in 0 .. Len(s)
      BY <1>0, <1>2, <2>1, <2>2 DEF PrefixLen, Packable
    <2>4. g[f[k - 1]] = WalkTurn(s, g, f[k - 1])
      BY <2>3
    <2> DEFINE o == f[k - 1]
               h == g[f[k]]
               t == WalkTurn(s, g, o)
    <2>5. o \in Nat /\ h = g[o + PrefixLen + Len(bodies[k])] /\ DOMAIN h = WalkFields
          /\ FrameAt(s, o, bodies[k])
      BY <1>2, <2>1, <2>2
    <2>6. /\ DOMAIN t = WalkFields /\ t.ok = h.ok /\ t.cursor = h.cursor
          /\ t.frames = << bodies[k] >> \o h.frames
      <3> DEFINE body == bodies[k]
      <3>1. body \in Packable /\ o \in Nat /\ FrameAt(s, o, body) /\ t = WalkTurn(s, g, o)
            /\ h = g[o + PrefixLen + Len(body)] /\ DOMAIN h = WalkFields /\ s \in Seq(Byte)
        BY <2>1, <2>5
      <3> HIDE DEF o, h, t, body
      <3>2. /\ DOMAIN t = WalkFields /\ t.ok = h.ok /\ t.cursor = h.cursor
            /\ t.frames = << body >> \o h.frames
        <4>1. WalkTurn(s, g, o) = [g[o + PrefixLen + Len(body)] EXCEPT !.frames = << body >> \o @]
          BY ONLY <3>1, TurnAtFrame
        <4>2. t = [h EXCEPT !.frames = << body >> \o @] /\ DOMAIN h = WalkFields
          BY ONLY <3>1, <4>1
        <4>3. QED
          BY ONLY <4>2 DEF WalkFields
      <3>3. QED
        BY <3>2 DEF body
    <2>7. << bodies[k] >> \o SubSeq(bodies, k + 1, n) = SubSeq(bodies, k, n)
      BY ConsSubSeq
    <2>8. (k - 1) + 1 = k
      BY <1>0
    <2>9. h.ok = TRUE /\ h.cursor = Len(s) /\ h.frames = SubSeq(bodies, k + 1, n)
      BY <1>2
    <2> HIDE DEF t, h
    <2>10. t.frames = SubSeq(bodies, k, n) /\ t.ok = TRUE /\ t.cursor = Len(s)
      BY <2>6, <2>7, <2>9
    <2>11. g[f[k - 1]] = t
      BY <2>4 DEF t
    <2>12. QED
      BY <2>3, <2>6, <2>8, <2>10, <2>11
  <1> HIDE DEF Right, n
  <1>3. T = {}
    <2>1. SUFFICES ASSUME T # {} PROVE FALSE
      OBVIOUS
    <2>2. T \subseteq Nat
      BY <1>0
    <2>3. PICK j \in T : \A y \in T : j <= y
      BY <2>1, <2>2, LeastNatural
    <2>4. j \in 0 .. n /\ ~Right(n - j)
      BY <2>3
    <2>5. j # 0
      BY <1>0, <1>1, <2>4
    <2>6. j - 1 \in 0 .. n /\ ~(j <= j - 1)
      BY <1>0, <2>4, <2>5
    <2>7. j - 1 \notin T
      <3> HIDE DEF T
      <3>1. QED
        BY <2>3, <2>6
    <2>8. Right(n - (j - 1)) /\ n - (j - 1) \in 1 .. n /\ (n - (j - 1)) - 1 = n - j
      BY <1>0, <2>4, <2>5, <2>6, <2>7
    <2>9. Right(n - j)
      BY <1>2, <2>8
    <2>10. QED
      BY <2>4, <2>9
  <1>4. Right(0)
    <2>1. n \in 0 .. n /\ n - n = 0
      BY <1>0
    <2>2. QED
      BY <1>3, <2>1
  <1>5. SubSeq(bodies, 0 + 1, n) = bodies
    BY <1>0 DEF n
  <1>6. QED
    BY <1>0, <1>4, <1>5 DEF Right

\* Whole frames are unpacked whole: the bodies, each once and in order, and
\* nothing left over.
LEMMA UnpackFramed ==
    ASSUME NEW s \in Seq(Byte), NEW bodies \in Seq(Packable), NEW f, Cut(s, bodies, f)
    PROVE  unpack_all_frames(s) = [ok |-> TRUE, frames |-> bodies, rest |-> << >>]
  <1>1. PICK g : g = [c \in 0 .. Len(s) |-> WalkTurn(s, g, c)] /\ CursorWalk(s) = g[0]
    BY CursorWalkIs
  <1>2. g[0].ok = TRUE /\ g[0].frames = bodies /\ g[0].cursor = Len(s)
    BY <1>1, WalkFramed
  <1>3. SubSeq(s, Len(s) + 1, Len(s)) = << >>
    OBVIOUS
  <1>4. CursorWalk(s).ok /\ CursorWalk(s).frames = bodies /\ CursorWalk(s).cursor = Len(s)
    BY <1>1, <1>2
  <1>5. QED
    BY <1>3, <1>4 DEF unpack_all_frames

-----------------------------------------------------------------------------
(* Cuts under the operations of the ring.                                  *)

\* A slice, by its elements.
LEMMA SliceIs ==
    ASSUME NEW S, NEW u \in Seq(S), NEW t \in Seq(S), NEW n \in Nat, NEW m \in Nat,
           n <= m, m <= Len(t), Len(u) = m - n, \A i \in 1 .. m - n : u[i] = t[n + i]
    PROVE  u = SubSeq(t, n + 1, m)
  <1> DEFINE v == SubSeq(t, n + 1, m)
  <1>1. v \in Seq(S) /\ Len(v) = m - n /\ \A i \in 1 .. m - n : v[i] = t[n + i]
    OBVIOUS
  <1> HIDE DEF v
  <1>2. u = v
    BY <1>1, SeqEqual
  <1>3. QED
    BY <1>2 DEF v

LEMMA SliceAt ==
    ASSUME NEW S, NEW t \in Seq(S), NEW n \in Nat, NEW m \in Nat, n <= m, m <= Len(t)
    PROVE  /\ SubSeq(t, n + 1, m) \in Seq(S) /\ Len(SubSeq(t, n + 1, m)) = m - n
           /\ \A i \in 1 .. m - n : SubSeq(t, n + 1, m)[i] = t[n + i]
  OBVIOUS

\* What is appended does not show in a slice of what was there.
LEMMA SliceKept ==
    ASSUME NEW S, NEW t \in Seq(S), NEW x \in Seq(S), NEW n \in Nat, NEW m \in Nat,
           n <= m, m <= Len(t)
    PROVE  SubSeq(t \o x, n + 1, m) = SubSeq(t, n + 1, m)
  <1> DEFINE tx == t \o x
             u == SubSeq(t, n + 1, m)
  <1>1. tx = t \o x
    OBVIOUS
  <1>2. u \in Seq(S) /\ Len(u) = m - n /\ \A i \in 1 .. m - n : u[i] = t[n + i]
    BY SliceAt
  <1> HIDE DEF tx, u
  <1>3. /\ tx \in Seq(S) /\ Len(tx) = Len(t) + Len(x)
        /\ \A i \in 1 .. Len(t) : tx[i] = t[i]
    BY <1>1, ConcatElems
  <1>4. Len(t) \in Nat /\ Len(x) \in Nat
    OBVIOUS
  <1>5. ASSUME NEW i \in 1 .. m - n PROVE u[i] = tx[n + i]
    <2>1. n + i \in 1 .. Len(t)
      BY <1>4
    <2>2. QED
      BY <1>2, <1>3, <2>1
  <1>6. m <= Len(tx)
    BY <1>3, <1>4
  <1>7. u = SubSeq(tx, n + 1, m)
    BY <1>2, <1>3, <1>5, <1>6, SliceIs
  <1>8. QED
    BY <1>7 DEF tx, u

\* Two adjacent slices from the start are one.
LEMMA SlicesJoin ==
    ASSUME NEW S, NEW t \in Seq(S), NEW n \in Nat, NEW m \in Nat, n <= m, m <= Len(t)
    PROVE  SubSeq(t, 1, n) \o SubSeq(t, n + 1, m) = SubSeq(t, 1, m)
  <1> DEFINE a == SubSeq(t, 0 + 1, n)
             b == SubSeq(t, n + 1, m)
             u == a \o b
  <1>0. Len(t) \in Nat /\ 0 \in Nat /\ 0 <= n /\ n <= Len(t) /\ 0 + 1 = 1
    OBVIOUS
  <1>1. a \in Seq(S) /\ Len(a) = n - 0 /\ \A i \in 1 .. n - 0 : a[i] = t[0 + i]
    BY <1>0, SliceAt
  <1>2. b \in Seq(S) /\ Len(b) = m - n /\ \A i \in 1 .. m - n : b[i] = t[n + i]
    BY <1>0, SliceAt
  <1>3. u = a \o b /\ a \in Seq(S) /\ b \in Seq(S)
    BY <1>1, <1>2
  <1> HIDE DEF a, b, u
  <1>4. /\ u \in Seq(S) /\ Len(u) = Len(a) + Len(b)
        /\ \A i \in 1 .. Len(a) : u[i] = a[i]
        /\ \A i \in 1 .. Len(b) : u[Len(a) + i] = b[i]
    BY <1>3, ConcatElems
  <1>5. Len(u) = m - 0
    BY <1>0, <1>1, <1>2, <1>4
  <1>6. ASSUME NEW i \in 1 .. m - 0 PROVE u[i] = t[0 + i]
    <2>1. CASE i <= n
      <3>1. i \in 1 .. n - 0 /\ i \in 1 .. Len(a)
        BY <1>0, <1>1, <2>1
      <3>2. QED
        BY <1>1, <1>4, <3>1
    <2>2. CASE ~(i <= n)
      <3> DEFINE j == i - n
      <3>1. j \in 1 .. m - n /\ j \in 1 .. Len(b) /\ Len(a) + j = i /\ n + j = 0 + i
        BY <1>0, <1>1, <1>2, <2>2
      <3> HIDE DEF j
      <3>2. u[Len(a) + j] = b[j] /\ b[j] = t[n + j]
        BY <1>2, <1>4, <3>1
      <3>3. QED
        BY <3>1, <3>2
    <2>3. QED
      BY <2>1, <2>2
  <1>7. u = SubSeq(t, 0 + 1, m)
    BY <1>0, <1>4, <1>5, <1>6, SliceIs
  <1>8. QED
    BY <1>0, <1>7 DEF u, a, b

\* The cuts go up.
LEMMA CutMonotone ==
    ASSUME NEW s \in Seq(Byte), NEW bodies \in Seq(Packable), NEW f, Cut(s, bodies, f),
           NEW k \in 0 .. Len(bodies), NEW m \in k .. Len(bodies)
    PROVE  f[k] <= f[m] /\ f[m] <= Len(s)
  <1> DEFINE n == Len(bodies)
             T == {j \in 0 .. n - k : ~(f[k] <= f[k + j])}
  <1>0. n \in Nat /\ f \in [0 .. n -> Nat] /\ f[n] = Len(s) /\ Len(s) \in Nat
    BY DEF Cut
  <1>1. ASSUME NEW j \in 1 .. n
        PROVE f[j - 1] \in Nat /\ f[j] \in Nat /\ f[j - 1] <= f[j] /\ f[j] <= Len(s)
    <2>1. bodies[j] \in Packable /\ j - 1 \in 0 .. n /\ j \in 0 .. n
      BY <1>0, ElementOfSeq
    <2>2. Len(bodies[j]) \in Nat /\ f[j - 1] \in Nat /\ f[j] \in Nat
      <3>1. bodies[j] \in Seq(Byte)
        BY <2>1 DEF Packable
      <3>2. Len(bodies[j]) \in Nat
        BY <3>1, LenProperties
      <3>3. f[j - 1] \in Nat /\ f[j] \in Nat
        BY <1>0, <2>1
      <3>4. QED
        BY <3>2, <3>3
    <2>3. /\ f[j] = f[j - 1] + PrefixLen + Len(bodies[j])
          /\ FrameAt(s, f[j - 1], bodies[j])
      BY DEF Cut
    <2>4. f[j - 1] + PrefixLen + Len(bodies[j]) <= Len(s)
      BY <2>3 DEF FrameAt
    <2>5. QED
      BY <1>0, <2>2, <2>3, <2>4 DEF PrefixLen
  <1>2. T = {}
    <2>1. SUFFICES ASSUME T # {} PROVE FALSE
      OBVIOUS
    <2>2. T \subseteq Nat
      BY <1>0
    <2>3. PICK j \in T : \A y \in T : j <= y
      BY <2>1, <2>2, LeastNatural
    <2>4. j \in 0 .. n - k /\ ~(f[k] <= f[k + j])
      BY <2>3
    <2>5. j # 0
      <3>1. f[k] \in Nat /\ k + 0 = k
        BY <1>0
      <3>2. QED
        BY <2>4, <3>1
    <2>6. j - 1 \in 0 .. n - k /\ ~(j <= j - 1)
      BY <1>0, <2>4, <2>5
    <2>7. j - 1 \notin T
      <3> HIDE DEF T
      <3>1. QED
        BY <2>3, <2>6
    <2>8. f[k] <= f[k + (j - 1)] /\ k + (j - 1) = (k + j) - 1 /\ k + j \in 1 .. n /\ f[k] \in Nat
      BY <1>0, <2>4, <2>5, <2>6, <2>7
    <2>9. f[(k + j) - 1] <= f[k + j] /\ f[(k + j) - 1] \in Nat /\ f[k + j] \in Nat
      BY <1>1, <2>8
    <2>10. QED
      BY <2>4, <2>8, <2>9
  <1>3. f[k] <= f[m]
    <2>1. m - k \in 0 .. n - k /\ k + (m - k) = m
      BY <1>0
    <2>2. QED
      BY <1>2, <2>1
  <1>4. f[m] <= Len(s)
    <2>1. CASE m = 0
      BY <1>0, <2>1 DEF Cut
    <2>2. CASE m # 0
      BY <1>0, <1>1, <2>2
    <2>3. QED
      BY <2>1, <2>2
  <1>5. QED
    BY <1>3, <1>4

\* A frame without its prefix is the body.
LEMMA FrameBody ==
    ASSUME NEW body \in Seq(Byte), NEW x \in Seq(Byte), x = pack_frame(body)
    PROVE  Len(x) = PrefixLen + Len(body) /\ SubSeq(x, PrefixLen + 1, Len(x)) = body
  <1>1. Len(x) = PrefixLen + Len(body) /\ \A i \in 1 .. Len(body) : x[PrefixLen + i] = body[i]
    BY FrameBytes
  <1>2. PrefixLen \in Nat
    BY DEF PrefixLen
  <1>3. PrefixLen <= Len(x) /\ Len(x) <= Len(x) /\ Len(x) \in Nat /\ Len(body) = Len(x) - PrefixLen
    BY <1>1, <1>2
  <1>4. \A i \in 1 .. Len(x) - PrefixLen : body[i] = x[PrefixLen + i]
    BY <1>1, <1>3
  <1>5. body = SubSeq(x, PrefixLen + 1, Len(x))
    BY <1>2, <1>3, <1>4, SliceIs
  <1>6. QED
    BY <1>1, <1>5

\* A published frame is one cut more.
LEMMA CutExtend ==
    ASSUME NEW s \in Seq(Byte), NEW bodies \in Seq(Packable), NEW f, Cut(s, bodies, f),
           NEW body \in Packable, pack_frame(body) \in Seq(Byte)
    PROVE  \E g : /\ Cut(s \o pack_frame(body), Append(bodies, body), g)
                  /\ \A k \in 0 .. Len(bodies) : g[k] = f[k]
  <1> DEFINE n == Len(bodies)
             x == pack_frame(body)
             u == s \o x
             bs == Append(bodies, body)
             g == [k \in 0 .. n + 1 |-> IF k <= n THEN f[k] ELSE Len(s) + PrefixLen + Len(body)]
  <1>0. /\ n \in Nat /\ Len(s) \in Nat /\ Len(body) \in Nat /\ body \in Seq(Byte)
        /\ f \in [0 .. n -> Nat] /\ f[0] = 0 /\ f[n] = Len(s)
    <2>1. body \in Seq(Byte)
      BY DEF Packable
    <2>2. QED
      BY <2>1 DEF Cut
  <1>1. x \in Seq(Byte) /\ Len(x) = PrefixLen + Len(body) /\ u = s \o x
    BY <1>0, FrameBytes
  <1>2. /\ Len(bs) = n + 1 /\ bs[n + 1] = body
        /\ \A k \in 1 .. n : bs[k] = bodies[k]
    BY AppendProperties
  <1>3. g \in [0 .. n + 1 -> Nat] /\ g[0] = 0 /\ g[n + 1] = Len(s) + PrefixLen + Len(body)
        /\ \A k \in 0 .. n : g[k] = f[k]
    BY <1>0 DEF PrefixLen
  <1> HIDE DEF n, x, u, bs, g
  <1>4. /\ u \in Seq(Byte) /\ Len(u) = Len(s) + Len(x)
        /\ \A i \in 1 .. Len(s) : u[i] = s[i]
        /\ \A i \in 1 .. Len(x) : u[Len(s) + i] = x[i]
    <2>1. s \in Seq(Byte) /\ x \in Seq(Byte) /\ u = s \o x
      BY <1>1
    <2>2. QED
      BY ONLY <2>1, ConcatBytes
  <1>5. Len(u) = Len(s) + PrefixLen + Len(body)
    BY <1>0, <1>1, <1>4 DEF PrefixLen
  <1>6. ASSUME NEW k \in 1 .. n + 1
        PROVE  g[k] = g[k - 1] + PrefixLen + Len(bs[k]) /\ FrameAt(u, g[k - 1], bs[k])
    <2>1. CASE k <= n
      <3>1. k \in 1 .. n /\ k - 1 \in 0 .. n /\ k \in 0 .. n
        BY <1>0, <2>1
      <3>2. g[k] = f[k] /\ g[k - 1] = f[k - 1] /\ bs[k] = bodies[k] /\ f[k - 1] \in Nat
        BY <1>0, <1>2, <1>3, <3>1
      <3>3. f[k] = f[k - 1] + PrefixLen + Len(bodies[k]) /\ FrameAt(s, f[k - 1], bodies[k])
        BY <3>1 DEF Cut, n
      <3>4. Len(bodies[k]) \in Nat
        <4>1. bodies[k] \in Packable
          BY <3>1, ElementOfSeq DEF n
        <4>2. bodies[k] \in Seq(Byte)
          BY <4>1 DEF Packable
        <4>3. QED
          BY <4>2, LenProperties
      <3> DEFINE o == f[k - 1]
                 bk == bodies[k]
      <3>5. FrameAt(s, o, bk) /\ o \in Nat /\ Len(bk) \in Nat
        BY <3>2, <3>3, <3>4
      <3> HIDE DEF o, bk
      <3>6. o + PrefixLen + Len(bk) <= Len(s)
        BY <3>5 DEF FrameAt
      <3>7. o + PrefixLen + Len(bk) <= Len(u)
        BY <1>0, <1>5, <3>5, <3>6 DEF PrefixLen
      <3>8. ASSUME NEW i \in 1 .. PrefixLen + Len(bk) PROVE u[o + i] = pack_frame(bk)[i]
        <4>1. o + i \in 1 .. Len(s)
          BY <1>0, <3>5, <3>6 DEF PrefixLen
        <4>2. s[o + i] = pack_frame(bk)[i]
          BY <3>5 DEF FrameAt
        <4>3. QED
          BY <1>4, <4>1, <4>2
      <3>9. FrameAt(u, o, bk)
        BY <3>7, <3>8 DEF FrameAt
      <3>10. QED
        BY <3>2, <3>3, <3>9 DEF o, bk
    <2>2. CASE ~(k <= n)
      <3>1. k = n + 1 /\ k - 1 = n /\ n \in 0 .. n
        BY <1>0, <2>2
      <3>2. g[k - 1] = Len(s) /\ bs[k] = body /\ g[k] = Len(s) + PrefixLen + Len(body)
        BY <1>0, <1>2, <1>3, <3>1
      <3>3. FrameAt(u, Len(s), body)
        <4>1. Len(s) + PrefixLen + Len(body) <= Len(u)
          BY <1>0, <1>5 DEF PrefixLen
        <4>2. ASSUME NEW i \in 1 .. PrefixLen + Len(body) PROVE u[Len(s) + i] = pack_frame(body)[i]
          BY <1>1, <1>4 DEF x
        <4>3. QED
          BY <4>1, <4>2 DEF FrameAt
      <3>4. QED
        BY <3>2, <3>3
    <2>3. QED
      BY <2>1, <2>2
  <1>7. Cut(u, bs, g)
    BY <1>2, <1>3, <1>5, <1>6 DEF Cut
  <1>8. QED
    BY <1>3, <1>7 DEF u, x, bs, n

\* The bytes between two cuts are the whole frames between them.
LEMMA CutSlice ==
    ASSUME NEW s \in Seq(Byte), NEW bodies \in Seq(Packable), NEW f, Cut(s, bodies, f),
           NEW k \in 0 .. Len(bodies), NEW m \in k .. Len(bodies)
    PROVE  \E g : Cut(SubSeq(s, f[k] + 1, f[m]), SubSeq(bodies, k + 1, m), g)
  <1> DEFINE n == Len(bodies)
             a == f[k]
             b == f[m]
             u == SubSeq(s, a + 1, b)
             bs == SubSeq(bodies, k + 1, m)
             g == [j \in 0 .. m - k |-> f[k + j] - a]
  <1>0. /\ n \in Nat /\ Len(s) \in Nat /\ k \in Nat /\ m \in Nat /\ k <= m /\ m <= n
        /\ f \in [0 .. n -> Nat]
    BY DEF Cut
  <1>1. a \in Nat /\ b \in Nat /\ a <= b /\ b <= Len(s)
    BY <1>0, CutMonotone
  <1>2. ASSUME NEW j \in 0 .. m - k PROVE f[k + j] \in Nat /\ a <= f[k + j] /\ f[k + j] <= b
    <2>1. k + j \in k .. Len(bodies) /\ k + j \in 0 .. Len(bodies) /\ m \in k + j .. Len(bodies)
      BY <1>0
    <2>2. a <= f[k + j]
      BY <2>1, CutMonotone
    <2>3. f[k + j] <= b
      BY <2>1, CutMonotone
    <2>4. QED
      BY <1>0, <2>1, <2>2, <2>3
  <1>3. u \in Seq(Byte) /\ Len(u) = b - a /\ \A i \in 1 .. b - a : u[i] = s[a + i]
    <2> HIDE DEF a, b
    <2>1. QED
      BY <1>1, SliceAt
  <1>4. Len(bs) = m - k /\ \A i \in 1 .. m - k : bs[i] = bodies[k + i]
    BY <1>0, SliceAt
  <1>5. \A j \in 0 .. m - k : g[j] = f[k + j] - a
    OBVIOUS
  <1>6. g \in [0 .. m - k -> Nat] /\ g[0] = 0 /\ g[m - k] = b - a
    <2>1. ASSUME NEW j \in 0 .. m - k PROVE f[k + j] - a \in Nat
      <3> HIDE DEF a, b
      <3>1. f[k + j] \in Nat /\ a <= f[k + j]
        BY <1>2
      <3>2. QED
        BY <1>1, <3>1
    <2>2. 0 \in 0 .. m - k /\ m - k \in 0 .. m - k /\ k + 0 = k /\ k + (m - k) = m
      BY <1>0
    <2>3. g \in [0 .. m - k -> Nat]
      BY <2>1
    <2>4. g[0] = 0 /\ g[m - k] = b - a
      BY <1>1, <2>2
    <2>5. QED
      BY <2>3, <2>4
  <1> HIDE DEF n, a, b, u, bs, g
  <1>7. ASSUME NEW j \in 1 .. m - k
        PROVE  g[j] = g[j - 1] + PrefixLen + Len(bs[j]) /\ FrameAt(u, g[j - 1], bs[j])
    <2>1. /\ j \in 0 .. m - k /\ j - 1 \in 0 .. m - k /\ k + j \in 1 .. n
          /\ k + (j - 1) = (k + j) - 1
      BY <1>0
    <2> DEFINE o == f[(k + j) - 1]
               bj == bodies[k + j]
    <2>2. g[j] = f[k + j] - a /\ g[j - 1] = o - a /\ bs[j] = bj
      BY <1>4, <1>5, <2>1
    <2>3. o \in Nat /\ a <= o /\ f[k + j] \in Nat /\ f[k + j] <= b
      BY <1>2, <2>1
    <2>4. f[k + j] = o + PrefixLen + Len(bj) /\ FrameAt(s, o, bj)
      BY <2>1 DEF Cut, n
    <2>5. Len(bj) \in Nat
      <3>1. bj \in Packable
        BY <2>1, ElementOfSeq DEF n
      <3>2. QED
        BY <3>1, LenProperties DEF Packable
    <2> HIDE DEF o, bj
    <2>6. g[j] = g[j - 1] + PrefixLen + Len(bj)
      BY <1>1, <2>2, <2>3, <2>4, <2>5 DEF PrefixLen
    <2>7. (o - a) + PrefixLen + Len(bj) <= Len(u)
      BY <1>1, <1>3, <2>3, <2>4, <2>5 DEF PrefixLen
    <2>8. ASSUME NEW i \in 1 .. PrefixLen + Len(bj) PROVE u[(o - a) + i] = pack_frame(bj)[i]
      <3>1. (o - a) + i \in 1 .. b - a /\ a + ((o - a) + i) = o + i
        BY <1>1, <2>3, <2>4, <2>5 DEF PrefixLen
      <3>2. u[(o - a) + i] = s[o + i]
        BY <1>3, <3>1
      <3>3. s[o + i] = pack_frame(bj)[i]
        BY <2>4 DEF FrameAt
      <3>4. QED
        BY <3>2, <3>3
    <2>9. FrameAt(u, o - a, bj)
      BY <2>7, <2>8 DEF FrameAt
    <2>10. QED
      BY <2>2, <2>6, <2>9
  <1>8. Cut(u, bs, g)
    BY <1>3, <1>4, <1>6, <1>7 DEF Cut
  <1>9. QED
    BY <1>8 DEF u, bs, a, b

-----------------------------------------------------------------------------
(***************************************************************************)
(* Messages: the stream is cut into frames, the read offset is always at a *)
(* cut, and what is handed over is what lies before it.                    *)
(***************************************************************************)

\* Between two ring operations the consumer stands at cut k; a read takes the
\* bytes up to cut m.
ReaderAt(f, k, m) ==
    /\ cpc \in {"poll", "drain", "wait"} => r = f[k] /\ buf = << >>
    /\ cpc \in {"copy", "store"} => r = f[k] /\ r + avail = f[m] /\ buf = << >>
    /\ cpc = "unpack" => r = f[m] /\ buf = SubSeq(log, f[k] + 1, f[m])

\* inOrder asks for every message once and in order; without it the consumer
\* may have lost some, but what it handled was sent.
Handled(inOrder, k) ==
    /\ delivered \in Seq(Packable)
    /\ \A i \in 1 .. Len(delivered) : \E j \in 1 .. Len(sent) : delivered[i] = sent[j]
    /\ inOrder => delivered = SubSeq(sent, 1, k)

\* What is being written is a frame of at most half the ring.
WritingFrame ==
    pc \in {"copy", "publish"} =>
        /\ Len(frame) <= Capacity \div 2
        /\ \E body \in Packable : body \in Bodies /\ frame = pack_frame(body)

MsgInv(inOrder) ==
    /\ sent \in Seq(Packable)
    /\ WritingFrame
    /\ \E f : /\ Cut(log, sent, f)
              /\ \E k \in 0 .. Len(sent) : \E m \in k .. Len(sent) :
                    ReaderAt(f, k, m) /\ Handled(inOrder, k)

LEMMA MsgInvInit == ASSUME NEW inOrder \in BOOLEAN PROVE Init => MsgInv(inOrder)
  <1> SUFFICES ASSUME Init PROVE MsgInv(inOrder)
    OBVIOUS
  <1> DEFINE g == [k \in 0 .. 0 |-> 0]
  <1>1. g[0] = 0 /\ g \in [0 .. 0 -> Nat]
    OBVIOUS
  <1>2. sent = << >> /\ Len(sent) = 0 /\ log = << >> /\ Len(log) = 0 /\ sent \in Seq(Packable)
    BY DEF Init
  <1> HIDE DEF g
  <1>3. Cut(log, sent, g)
    BY <1>1, <1>2 DEF Cut
  <1>4. ReaderAt(g, 0, 0) /\ Handled(inOrder, 0)
    BY <1>1, <1>2 DEF Init, ReaderAt, Handled
  <1>5. 0 \in 0 .. Len(sent)
    BY <1>2
  <1>6. WritingFrame
    BY DEF Init, WritingFrame
  <1>7. QED
    BY <1>2, <1>3, <1>4, <1>5, <1>6 DEF MsgInv

\* The steps that leave the streams and the place of the reader alone.
LEMMA MsgInvQuiet ==
    ASSUME NEW inOrder \in BOOLEAN, MsgInv(inOrder), WritingFrame',
           UNCHANGED << r, avail, buf, log, sent, delivered >>,
           \/ cpc' = cpc
           \/ cpc \in {"poll", "drain", "wait"} /\ cpc' \in {"poll", "drain", "wait"}
           \/ cpc \in {"copy", "store"} /\ cpc' \in {"copy", "store"}
    PROVE  MsgInv(inOrder)'
  <1>1. PICK f : /\ Cut(log, sent, f)
                 /\ \E k \in 0 .. Len(sent) : \E m \in k .. Len(sent) :
                       ReaderAt(f, k, m) /\ Handled(inOrder, k)
    BY DEF MsgInv
  <1>2. PICK k \in 0 .. Len(sent) : \E m \in k .. Len(sent) :
                       ReaderAt(f, k, m) /\ Handled(inOrder, k)
    BY <1>1
  <1>3. PICK m \in k .. Len(sent) : ReaderAt(f, k, m) /\ Handled(inOrder, k)
    BY <1>2
  <1>4. ReaderAt(f, k, m)'
    BY <1>3 DEF ReaderAt
  <1>5. Handled(inOrder, k)'
    BY <1>3 DEF Handled
  <1>6. Cut(log', sent', f) /\ sent' \in Seq(Packable)
    BY <1>1 DEF MsgInv
  <1>7. k \in 0 .. Len(sent') /\ m \in k .. Len(sent')
    OBVIOUS
  <1>8. QED
    BY <1>4, <1>5, <1>6, <1>7 DEF MsgInv

\* A body with room in the ring is short enough to be unpacked again.
LEMMA MsgInvStartWrite ==
    ASSUME NEW inOrder \in BOOLEAN, MsgInv(inOrder), NEW body \in Bodies, StartWrite(body)
    PROVE  MsgInv(inOrder)'
  <1>1. body \in Seq(Byte) /\ Len(body) \in Nat
    BY RingAssumption
  <1>2. Len(pack_frame(body)) = PrefixLen + Len(body)
    BY <1>1, FrameBytes
  <1>3. Len(pack_frame(body)) <= Capacity \div 2
    BY DEF StartWrite
  <1>4. Capacity \div 2 \in Int /\ MaxFrameBytes \in Nat
    BY RingAssumption, ProtocolAssumption
  <1>5. Len(body) <= MaxFrameBytes
    BY <1>1, <1>2, <1>3, <1>4, FrameLimitAssumption DEF PrefixLen
  <1>6. body \in Packable
    BY <1>1, <1>5 DEF Packable
  <1>7. WritingFrame'
    BY <1>3, <1>6 DEF WritingFrame, StartWrite
  <1>8. QED
    BY <1>7, MsgInvQuiet DEF StartWrite, ringVars, consumerVars, history

\* A message published lies behind every cut there was.
LEMMA MsgInvPublish ==
    ASSUME NEW inOrder \in BOOLEAN, RingInv, MsgInv(inOrder), Publish
    PROVE  MsgInv(inOrder)'
  <1>1. PICK f : /\ Cut(log, sent, f)
                 /\ \E k \in 0 .. Len(sent) : \E m \in k .. Len(sent) :
                       ReaderAt(f, k, m) /\ Handled(inOrder, k)
    BY DEF MsgInv
  <1>2. PICK k \in 0 .. Len(sent) : \E m \in k .. Len(sent) :
                       ReaderAt(f, k, m) /\ Handled(inOrder, k)
    BY <1>1
  <1>3. PICK m \in k .. Len(sent) : ReaderAt(f, k, m) /\ Handled(inOrder, k)
    BY <1>2
  <1>4. PICK body \in Packable : frame = pack_frame(body)
    BY DEF MsgInv, WritingFrame, Publish
  <1>5. /\ sent \in Seq(Packable) /\ Len(sent) \in Nat /\ log \in Seq(Byte) /\ Len(log) \in Nat
        /\ frame \in Seq(Byte) /\ Len(frame) \in Nat /\ body \in Seq(Byte) /\ Len(body) \in Nat
    BY DEF MsgInv, RingInv, TypeOK, Packable
  <1>6. SubSeq(frame, PrefixLen + 1, Len(frame)) = body
    BY <1>4, <1>5, FrameBody
  <1>7. log' = log \o pack_frame(body) /\ sent' = Append(sent, body)
    BY <1>4, <1>6 DEF Publish
  <1>8. pack_frame(body) \in Seq(Byte)
    BY <1>4, <1>5
  <1>9. PICK g : /\ Cut(log \o pack_frame(body), Append(sent, body), g)
                 /\ \A j \in 0 .. Len(sent) : g[j] = f[j]
    BY <1>1, <1>5, <1>8, CutExtend
  <1>10. /\ g[k] = f[k] /\ g[m] = f[m] /\ f[k] \in Nat /\ f[m] \in Nat
         /\ f[k] <= f[m] /\ f[m] <= Len(log) /\ k \in Nat /\ k <= Len(sent)
    <2>1. m \in 0 .. Len(sent) /\ k \in Nat /\ k <= Len(sent)
      BY <1>5
    <2>2. f[k] \in Nat /\ f[m] \in Nat
      BY <1>1, <2>1 DEF Cut
    <2>3. f[k] <= f[m] /\ f[m] <= Len(log)
      BY <1>1, <1>5, CutMonotone
    <2>4. QED
      BY <1>9, <2>1, <2>2, <2>3
  <1>11. /\ sent' \in Seq(Packable) /\ Len(sent') = Len(sent) + 1
         /\ \A j \in 1 .. Len(sent) : sent'[j] = sent[j]
    BY <1>5, <1>7, AppendProperties
  <1>12. ReaderAt(g, k, m)'
    <2>1. SubSeq(log', f[k] + 1, f[m]) = SubSeq(log, f[k] + 1, f[m])
      <3>1. PICK l, x, a, b : l = log /\ x = pack_frame(body) /\ a = f[k] /\ b = f[m]
        OBVIOUS
      <3>2. l \in Seq(Byte) /\ x \in Seq(Byte) /\ a \in Nat /\ b \in Nat /\ a <= b /\ b <= Len(l)
        BY <1>5, <1>8, <1>10, <3>1
      <3>3. SubSeq(l \o x, a + 1, b) = SubSeq(l, a + 1, b)
        BY ONLY <3>2, SliceKept
      <3>4. QED
        BY <1>7, <3>1, <3>3
    <2>2. UNCHANGED << cpc, r, avail, buf >>
      BY DEF Publish, consumerVars
    <2>3. QED
      BY <1>3, <1>10, <2>1, <2>2 DEF ReaderAt
  <1>13. Handled(inOrder, k)'
    <2>1. delivered' = delivered
      BY DEF Publish
    <2>2. SubSeq(sent', 1, k) = SubSeq(sent, 1, k)
      <3>1. sent' = sent \o << body >> /\ << body >> \in Seq(Packable)
        BY <1>5, <1>7, AppendIsConcat
      <3>2. SubSeq(sent \o << body >>, 0 + 1, k) = SubSeq(sent, 0 + 1, k)
        BY <1>5, <1>10, <3>1, SliceKept
      <3>3. QED
        BY <3>1, <3>2
    <2>3. ASSUME NEW i \in 1 .. Len(delivered)
          PROVE  \E j \in 1 .. Len(sent') : delivered[i] = sent'[j]
      <3>1. PICK j \in 1 .. Len(sent) : delivered[i] = sent[j]
        BY <1>3 DEF Handled
      <3>2. j \in 1 .. Len(sent') /\ sent'[j] = sent[j]
        BY <1>5, <1>11
      <3>3. QED
        BY <3>1, <3>2
    <2>4. QED
      BY <1>3, <2>1, <2>2, <2>3 DEF Handled
  <1>14. k \in 0 .. Len(sent') /\ m \in k .. Len(sent')
    BY <1>5, <1>11
  <1>15. WritingFrame'
    BY DEF WritingFrame, Publish
  <1>16. QED
    BY <1>7, <1>9, <1>11, <1>12, <1>13, <1>14, <1>15 DEF MsgInv

\* A read takes all that is published: it ends at the last cut.
LEMMA MsgInvStartRead ==
    ASSUME NEW inOrder \in BOOLEAN, RingInv, MsgInv(inOrder), StartRead
    PROVE  MsgInv(inOrder)'
  <1>1. PICK f : /\ Cut(log, sent, f)
                 /\ \E k \in 0 .. Len(sent) : \E m \in k .. Len(sent) :
                       ReaderAt(f, k, m) /\ Handled(inOrder, k)
    BY DEF MsgInv
  <1>2. PICK k \in 0 .. Len(sent) : \E m \in k .. Len(sent) :
                       ReaderAt(f, k, m) /\ Handled(inOrder, k)
    BY <1>1
  <1>3. PICK m \in k .. Len(sent) : ReaderAt(f, k, m) /\ Handled(inOrder, k)
    BY <1>2
  <1>4. sent \in Seq(Packable) /\ Len(sent) \in Nat /\ w \in Nat /\ r \in Nat /\ Len(log) = w
    BY DEF MsgInv, RingInv, TypeOK, OffsetsOK
  <1>5. PICK n \in k .. Len(sent) : n = Len(sent)
    BY <1>4
  <1>6. r + avail' = f[n]
    BY <1>1, <1>4, <1>5 DEF StartRead, Available, Cut
  <1>7. UNCHANGED << r, buf, log, sent, delivered, pc, frame >> /\ cpc' = "copy" /\ cpc = "poll"
    BY DEF StartRead, ringVars, producerVars, history
  <1>8. ReaderAt(f, k, n)'
    BY <1>3, <1>6, <1>7 DEF ReaderAt
  <1>9. Handled(inOrder, k)'
    BY <1>3, <1>7 DEF Handled
  <1>10. Cut(log', sent', f) /\ sent' \in Seq(Packable) /\ WritingFrame'
    BY <1>1, <1>7 DEF MsgInv, WritingFrame
  <1>11. k \in 0 .. Len(sent') /\ n \in k .. Len(sent')
    BY <1>7
  <1>12. QED
    BY <1>8, <1>9, <1>10, <1>11 DEF MsgInv

\* What was copied out is the bytes between the two cuts.
LEMMA MsgInvStoreRead ==
    ASSUME NEW inOrder \in BOOLEAN, RingInv, MsgInv(inOrder), StoreRead
    PROVE  MsgInv(inOrder)'
  <1>1. PICK f : /\ Cut(log, sent, f)
                 /\ \E k \in 0 .. Len(sent) : \E m \in k .. Len(sent) :
                       ReaderAt(f, k, m) /\ Handled(inOrder, k)
    BY DEF MsgInv
  <1>2. PICK k \in 0 .. Len(sent) : \E m \in k .. Len(sent) :
                       ReaderAt(f, k, m) /\ Handled(inOrder, k)
    BY <1>1
  <1>3. PICK m \in k .. Len(sent) : ReaderAt(f, k, m) /\ Handled(inOrder, k)
    BY <1>2
  <1>4. /\ sent \in Seq(Packable) /\ w \in Nat /\ r \in Nat /\ avail \in Nat
        /\ log \in Seq(Byte) /\ chunk \in Seq(Byte) /\ Len(log) = w
    BY DEF MsgInv, RingInv, TypeOK, OffsetsOK
  <1>5. /\ cr = r /\ r + avail <= w /\ Len(chunk) = avail
        /\ \A i \in 1 .. Len(chunk) : chunk[i] = log[r + i]
    BY DEF RingInv, ReadingOK, StoreRead
  <1>6. r = f[k] /\ r + avail = f[m] /\ buf = << >>
    BY <1>3 DEF ReaderAt, StoreRead
  <1>7. chunk = SubSeq(log, r + 1, r + avail)
    <2> DEFINE b == r + avail
    <2>1. /\ b \in Nat /\ r <= b /\ b <= Len(log) /\ Len(chunk) = b - r
          /\ \A i \in 1 .. b - r : chunk[i] = log[r + i]
      BY <1>4, <1>5
    <2> HIDE DEF b
    <2>2. chunk = SubSeq(log, r + 1, b)
      BY <1>4, <2>1, SliceIs
    <2>3. QED
      BY <2>2 DEF b
  <1>8. << >> \o chunk = chunk
    BY <1>4, ConcatEmptySeq
  <1>9. /\ cpc' = "unpack" /\ r' = f[m] /\ buf' = SubSeq(log, f[k] + 1, f[m])
        /\ UNCHANGED << log, sent, delivered, pc, frame >>
    BY <1>5, <1>6, <1>7, <1>8 DEF StoreRead, producerVars
  <1>10. ReaderAt(f, k, m)'
    BY <1>9 DEF ReaderAt
  <1>11. Handled(inOrder, k)'
    BY <1>3, <1>9 DEF Handled
  <1>12. Cut(log', sent', f) /\ sent' \in Seq(Packable) /\ WritingFrame'
    BY <1>1, <1>9 DEF MsgInv, WritingFrame
  <1>13. k \in 0 .. Len(sent') /\ m \in k .. Len(sent')
    BY <1>9
  <1>14. QED
    BY <1>10, <1>11, <1>12, <1>13 DEF MsgInv

\* Unpacking hands over the messages between the two cuts and leaves nothing.
LEMMA MsgInvUnpack ==
    ASSUME NEW inOrder \in BOOLEAN, RingInv, MsgInv(inOrder), Unpack
    PROVE  MsgInv(inOrder)'
  <1>1. PICK f : /\ Cut(log, sent, f)
                 /\ \E k \in 0 .. Len(sent) : \E m \in k .. Len(sent) :
                       ReaderAt(f, k, m) /\ Handled(inOrder, k)
    BY DEF MsgInv
  <1>2. PICK k \in 0 .. Len(sent) : \E m \in k .. Len(sent) :
                       ReaderAt(f, k, m) /\ Handled(inOrder, k)
    BY <1>1
  <1>3. PICK m \in k .. Len(sent) : ReaderAt(f, k, m) /\ Handled(inOrder, k)
    BY <1>2
  <1>4. /\ sent \in Seq(Packable) /\ Len(sent) \in Nat /\ log \in Seq(Byte)
        /\ k \in Nat /\ m \in Nat /\ k <= m /\ m <= Len(sent) /\ m \in 0 .. Len(sent)
    BY DEF MsgInv, RingInv, TypeOK
  <1> DEFINE new == SubSeq(sent, k + 1, m)
  <1>5. PICK g : Cut(SubSeq(log, f[k] + 1, f[m]), new, g)
    BY <1>1, <1>4, CutSlice
  <1>6. r = f[m] /\ buf = SubSeq(log, f[k] + 1, f[m])
    BY <1>3 DEF ReaderAt, Unpack
  <1>7. /\ new \in Seq(Packable) /\ Len(new) = m - k
        /\ \A i \in 1 .. m - k : new[i] = sent[k + i]
    BY <1>4, SliceAt
  <1> HIDE DEF new
  <1>8. buf \in Seq(Byte)
    <2>1. f[k] \in Nat /\ f[m] \in Nat /\ f[k] <= f[m] /\ f[m] <= Len(log)
      BY <1>1, <1>4, CutMonotone DEF Cut
    <2>2. QED
      BY <1>4, <1>6, <2>1, SliceAt
  <1>9. Cut(buf, new, g)
    BY <1>5, <1>6
  <1>10. unpack_all_frames(buf) = [ok |-> TRUE, frames |-> new, rest |-> << >>]
    BY <1>7, <1>8, <1>9, UnpackFramed
  <1>11. /\ cpc' = "poll" /\ delivered' = delivered \o new /\ buf' = << >>
         /\ UNCHANGED << r, avail, log, sent, pc, frame >>
    BY <1>10 DEF Unpack, ringVars, producerVars
  <1>12. ReaderAt(f, m, m)'
    BY <1>6, <1>11 DEF ReaderAt
  <1>13. Handled(inOrder, m)'
    <2>1. delivered \in Seq(Packable)
      BY <1>3 DEF Handled
    <2>2. /\ delivered' \in Seq(Packable) /\ Len(delivered') = Len(delivered) + Len(new)
          /\ \A i \in 1 .. Len(delivered) : delivered'[i] = delivered[i]
          /\ \A i \in 1 .. Len(new) : delivered'[Len(delivered) + i] = new[i]
      <3>1. new \in Seq(Packable) /\ delivered' = delivered \o new
        BY <1>7, <1>11
      <3>2. QED
        BY ONLY <2>1, <3>1, ConcatElems
    <2>3. ASSUME NEW i \in 1 .. Len(delivered')
          PROVE  \E j \in 1 .. Len(sent) : delivered'[i] = sent[j]
      <3>1. Len(delivered) \in Nat /\ Len(new) \in Nat
        BY <1>7, <2>1
      <3>2. CASE i <= Len(delivered)
        <4>1. i \in 1 .. Len(delivered) /\ delivered'[i] = delivered[i]
          BY <2>2, <3>1, <3>2
        <4>2. QED
          BY <1>3, <4>1 DEF Handled
      <3>3. CASE ~(i <= Len(delivered))
        <4> DEFINE d == i - Len(delivered)
        <4>1. d \in 1 .. Len(new) /\ Len(delivered) + d = i /\ d \in 1 .. m - k
          BY <1>7, <2>2, <3>1, <3>3
        <4> HIDE DEF d
        <4>2. delivered'[i] = sent[k + d]
          BY <1>7, <2>2, <4>1
        <4>3. k + d \in 1 .. Len(sent)
          BY <1>4, <4>1
        <4>4. QED
          BY <4>2, <4>3
      <3>4. QED
        BY <3>2, <3>3
    <2>4. ASSUME inOrder PROVE delivered' = SubSeq(sent, 1, m)
      <3>1. delivered = SubSeq(sent, 1, k)
        BY <1>3, <2>4 DEF Handled
      <3>2. SubSeq(sent, 1, k) \o SubSeq(sent, k + 1, m) = SubSeq(sent, 1, m)
        BY <1>4, SlicesJoin
      <3>3. QED
        BY <1>11, <3>1, <3>2 DEF new
    <2>5. QED
      BY <1>11, <2>2, <2>3, <2>4 DEF Handled
  <1>14. Cut(log', sent', f) /\ sent' \in Seq(Packable) /\ WritingFrame'
    BY <1>1, <1>11 DEF MsgInv, WritingFrame
  <1>15. m \in 0 .. Len(sent') /\ m \in m .. Len(sent')
    BY <1>4, <1>11
  <1>16. QED
    BY <1>12, <1>13, <1>14, <1>15 DEF MsgInv

LEMMA MsgInvStep ==
    ASSUME NEW inOrder \in BOOLEAN, RingInv, MsgInv(inOrder), [Next]_vars
    PROVE  MsgInv(inOrder)'
  <1> USE DEF ringVars, producerVars, consumerVars, history
  <1>1. ASSUME NEW body \in Bodies, DropFrame(body) PROVE MsgInv(inOrder)'
    <2>1. WritingFrame'
      BY <1>1 DEF MsgInv, WritingFrame, DropFrame
    <2>2. QED
      BY <1>1, <2>1, MsgInvQuiet DEF DropFrame
  <1>2. ASSUME NEW body \in Bodies, StartWrite(body) PROVE MsgInv(inOrder)'
    BY <1>2, MsgInvStartWrite
  <1>3. CASE CopyIn
    <2>1. WritingFrame'
      BY <1>3 DEF MsgInv, WritingFrame, CopyIn
    <2>2. QED
      BY <1>3, <2>1, MsgInvQuiet DEF CopyIn
  <1>4. CASE Publish
    BY <1>4, MsgInvPublish
  <1>5. CASE Notify
    <2>1. WritingFrame'
      BY <1>5 DEF WritingFrame, Notify
    <2>2. QED
      BY <1>5, <2>1, MsgInvQuiet DEF Notify
  <1>6. CASE StartRead
    BY <1>6, MsgInvStartRead
  <1>7. CASE CopyOut
    <2>1. WritingFrame'
      BY <1>7 DEF MsgInv, WritingFrame, CopyOut
    <2>2. QED
      BY <1>7, <2>1, MsgInvQuiet DEF CopyOut
  <1>8. CASE StoreRead
    BY <1>8, MsgInvStoreRead
  <1>9. CASE Unpack
    BY <1>9, MsgInvUnpack
  <1>10. CASE FindEmpty \/ DrainNotify \/ Wake \/ WaitTimeout
    <2>1. WritingFrame'
      BY <1>10 DEF MsgInv, WritingFrame, FindEmpty, DrainNotify, Wake, WaitTimeout
    <2>2. QED
      BY <1>10, <2>1, MsgInvQuiet DEF FindEmpty, DrainNotify, Wake, WaitTimeout
  <1>11. CASE UNCHANGED vars
    <2>1. WritingFrame'
      BY <1>11 DEF MsgInv, WritingFrame, vars
    <2>2. QED
      BY <1>11, <2>1, MsgInvQuiet DEF vars
  <1>12. QED
    BY <1>1, <1>2, <1>3, <1>4, <1>5, <1>6, <1>7, <1>8, <1>9, <1>10, <1>11
       DEF Next, Producer, Consumer

\* A stretch from the start, by its own length.
LEMMA DeliveredFromInv == RingInv /\ MsgInv(TRUE) => DeliveredInOrder
  <1> SUFFICES ASSUME MsgInv(TRUE) PROVE DeliveredInOrder
    OBVIOUS
  <1>1. PICK k \in 0 .. Len(sent) : Handled(TRUE, k)
    BY DEF MsgInv
  <1>2. sent \in Seq(Packable) /\ Len(sent) \in Nat /\ delivered = SubSeq(sent, 1, k)
    BY <1>1 DEF MsgInv, Handled
  <1>3. Len(delivered) = k
    BY <1>2
  <1>4. QED
    BY <1>2, <1>3 DEF DeliveredInOrder

LEMMA WholeFramesFromInv ==
    ASSUME NEW inOrder \in BOOLEAN, MsgInv(inOrder)
    PROVE  WholeFramesOnly
  BY DEF MsgInv, ReaderAt, WholeFramesOnly

\* The stream of every ring is whole frames, and write_body and
\* read_available_into leave both offsets between two of them.
THEOREM MsgInvariant == Spec => [](RingInv /\ MsgInv(TRUE))
  <1>1. Init => RingInv /\ MsgInv(TRUE)
    BY RingInvInit, MsgInvInit
  <1>2. RingInv /\ MsgInv(TRUE) /\ [Next]_vars => (RingInv /\ MsgInv(TRUE))'
    BY RingInvStep, MsgInvStep
  <1>3. QED
    BY <1>1, <1>2, PTL DEF Spec

\* Every message the ring accepted reaches the consumer's handler once and in
\* the order of the writes, wherever the two memcpys, the wrap-around and the
\* cursor of unpack_all_frames meet.
THEOREM DeliveredInOrderAlways == Spec => []DeliveredInOrder
  <1>1. RingInv /\ MsgInv(TRUE) => DeliveredInOrder
    BY DeliveredFromInv
  <1>2. QED
    BY <1>1, MsgInvariant, PTL

\* A read never ends inside a frame, so what unpack_all_frames leaves over is
\* always empty and command_pump may throw it away.
THEOREM WholeFramesOnlyAlways == Spec => []WholeFramesOnly
  <1>1. RingInv /\ MsgInv(TRUE) => WholeFramesOnly
    BY WholeFramesFromInv
  <1>2. QED
    BY <1>1, MsgInvariant, PTL

-----------------------------------------------------------------------------
(***************************************************************************)
(* The ring implements the bounded FIFO of FrameQueue.                     *)
(***************************************************************************)

\* What was released up to a cut unpacks to the messages before it.
LEMMA UnpackToCut ==
    ASSUME NEW l \in Seq(Byte), NEW s \in Seq(Packable), NEW f, Cut(l, s, f), NEW q \in 0 .. Len(s)
    PROVE  unpack_all_frames(SubSeq(l, 1, f[q])).frames = SubSeq(s, 1, q)
  <1> DEFINE g == SubSeq(l, 1, f[q])
  <1>1. Len(s) \in Nat /\ 0 \in 0 .. Len(s) /\ q \in 0 .. Len(s) /\ q \in Nat /\ q <= Len(s)
    OBVIOUS
  <1>2. f[0] = 0 /\ f[q] \in Nat
    BY DEF Cut
  <1>3. 0 <= f[q] /\ f[q] <= Len(l)
    BY <1>1, <1>2, CutMonotone
  <1>4. PICK h : Cut(SubSeq(l, f[0] + 1, f[q]), SubSeq(s, 0 + 1, q), h)
    BY <1>1, CutSlice
  <1>5. Cut(g, SubSeq(s, 1, q), h)
    BY <1>2, <1>4
  <1>6. g \in Seq(Byte)
    BY <1>2, <1>3
  <1>7. SubSeq(s, 1, q) \in Seq(Packable)
    BY <1>1
  <1> HIDE DEF g
  <1>8. unpack_all_frames(g) = [ok |-> TRUE, frames |-> SubSeq(s, 1, q), rest |-> << >>]
    BY <1>5, <1>6, <1>7, UnpackFramed
  <1>9. QED
    BY <1>8 DEF g

\* A stretch from the start, by its elements.
LEMMA StartIs ==
    ASSUME NEW S, NEW l \in Seq(S), NEW g \in Seq(S), NEW n \in Nat, n <= Len(l),
           Len(g) = n, \A i \in 1 .. n : g[i] = l[i]
    PROVE  g = SubSeq(l, 1, n)
  <1>1. /\ 0 \in Nat /\ 0 <= n /\ Len(g) = n - 0 /\ 0 + 1 = 1
        /\ \A i \in 1 .. n - 0 : g[i] = l[0 + i]
    OBVIOUS
  <1>2. g = SubSeq(l, 0 + 1, n)
    BY <1>1, SliceIs
  <1>3. QED
    BY <1>1, <1>2

\* The sum FrameQueue takes over the messages queued.
Total(s) ==
    LET total[i \in 0 .. Len(s)] == IF i = 0 THEN 0 ELSE total[i - 1] + (PrefixLen + Len(s[i]))
    IN  total[Len(s)]

\* The messages of a byte sequence of whole frames are as long as it is.
LEMMA TotalIsLength ==
    ASSUME NEW l \in Seq(Byte), NEW s \in Seq(Packable), NEW f, Cut(l, s, f)
    PROVE  Total(s) = Len(l)
  <1> DEFINE P(g) == g = [i \in 0 .. Len(s) |-> IF i = 0 THEN 0 ELSE g[i - 1] + (PrefixLen + Len(s[i]))]
             n == Len(s)
  <1>0. n \in Nat /\ f \in [0 .. n -> Nat] /\ f[0] = 0 /\ f[n] = Len(l)
    BY DEF Cut
  <1>1. ASSUME NEW i \in 1 .. n
        PROVE  f[i] = f[i - 1] + (PrefixLen + Len(s[i])) /\ f[i - 1] \in Nat /\ Len(s[i]) \in Nat
    <2>1. s[i] \in Packable
      BY ElementOfSeq
    <2>2. s[i] \in Seq(Byte)
      BY <2>1 DEF Packable
    <2>3. Len(s[i]) \in Nat
      BY <2>2, LenProperties
    <2>4. f[i - 1] \in Nat
      BY <1>0
    <2>5. f[i] = f[i - 1] + PrefixLen + Len(s[i])
      BY DEF Cut
    <2>6. QED
      BY <2>3, <2>4, <2>5, SMTT(30) DEF PrefixLen
  <1>2. P(f)
    <2>1. ASSUME NEW i \in 0 .. n
          PROVE  f[i] = IF i = 0 THEN 0 ELSE f[i - 1] + (PrefixLen + Len(s[i]))
      <3>1. CASE i = 0
        BY <1>0, <3>1
      <3>2. CASE i # 0
        <4>1. i \in 1 .. n
          BY <1>0, <3>2
        <4>2. QED
          BY <1>1, <3>2, <4>1
      <3>3. QED
        BY <3>1, <3>2
    <2>2. f = [i \in 0 .. n |-> f[i]]
      BY <1>0
    <2>3. QED
      BY <2>1, <2>2
  <1>3. PICK g : P(g) /\ Total(s) = g[n]
    <2>1. Total(s) = (CHOOSE g : P(g))[n]
      BY DEF Total
    <2> HIDE DEF P
    <2>2. P(CHOOSE g : P(g))
      BY <1>2
    <2>3. QED
      BY <2>1, <2>2
  <1>4. ASSUME NEW i \in 0 .. n
        PROVE  g[i] = IF i = 0 THEN 0 ELSE g[i - 1] + (PrefixLen + Len(s[i]))
    BY <1>3
  <1> HIDE DEF P, n
  <1> DEFINE T == {i \in 0 .. n : g[i] # f[i]}
  <1>5. T = {}
    <2>1. SUFFICES ASSUME T # {} PROVE FALSE
      OBVIOUS
    <2>2. T \subseteq Nat
      BY <1>0
    <2>3. PICK i \in T : \A y \in T : i <= y
      BY <2>1, <2>2, LeastNatural
    <2>4. i \in 0 .. n /\ g[i] # f[i]
      BY <2>3
    <2>5. i # 0
      <3>1. 0 \in 0 .. n
        BY <1>0
      <3>2. g[0] = 0
        BY <1>4, <3>1
      <3>3. QED
        BY <1>0, <2>4, <3>2
    <2>6. i - 1 \in 0 .. n /\ i \in 1 .. n /\ ~(i <= i - 1)
      BY <1>0, <2>4, <2>5
    <2>7. i - 1 \notin T
      <3> HIDE DEF T
      <3>1. QED
        BY <2>3, <2>6
    <2>8. g[i - 1] = f[i - 1]
      BY <2>6, <2>7
    <2>9. g[i] = g[i - 1] + (PrefixLen + Len(s[i]))
      BY <1>4, <2>4, <2>5
    <2>10. f[i] = f[i - 1] + (PrefixLen + Len(s[i]))
      BY <1>1, <2>6
    <2>11. QED
      BY <2>4, <2>8, <2>9, <2>10
  <1>6. g[n] = f[n]
    BY <1>0, <1>5
  <1>7. QED
    BY <1>0, <1>3, <1>6

\* The queue of the refinement mapping.
Queued == SubSeq(sent, Len(Taken) + 1, Len(sent))

LEMMA QueuedBytesIsTotal == Queue!QueuedBytes = Total(Queued)
  BY DEF Queue!QueuedBytes, Queue!Size, Total, Queued

\* Where the mapping stands: taken are the messages before the cut at the read
\* offset, and the bytes queued are the ones between the offsets.
LEMMA MappedAt ==
    ASSUME RingInv, MsgInv(TRUE), NEW f, Cut(log, sent, f), NEW q \in 0 .. Len(sent), r = f[q]
    PROVE  /\ Taken = SubSeq(sent, 1, q) /\ Len(Taken) = q
           /\ Queued = SubSeq(sent, q + 1, Len(sent))
           /\ Queue!QueuedBytes = w - r
  <1>1. /\ sent \in Seq(Packable) /\ Len(sent) \in Nat /\ log \in Seq(Byte) /\ got \in Seq(Byte)
        /\ w \in Nat /\ r \in Nat /\ r <= w /\ Len(log) = w /\ Len(got) = r
        /\ \A i \in 1 .. r : got[i] = log[i]
    BY DEF MsgInv, RingInv, TypeOK, OffsetsOK
  <1>2. got = SubSeq(log, 1, f[q])
    <2>1. got = SubSeq(log, 1, r)
      BY <1>1, StartIs
    <2>2. QED
      BY <2>1
  <1>3. Taken = SubSeq(sent, 1, q) /\ Len(Taken) = q
    <2>1. unpack_all_frames(SubSeq(log, 1, f[q])).frames = SubSeq(sent, 1, q)
      BY <1>1, UnpackToCut
    <2>2. Taken = SubSeq(sent, 1, q)
      BY <1>2, <2>1 DEF Taken
    <2>3. Len(SubSeq(sent, 1, q)) = q
      BY <1>1
    <2>4. QED
      BY <2>2, <2>3
  <1>4. Queued = SubSeq(sent, q + 1, Len(sent))
    BY <1>3 DEF Queued
  <1>5. PICK h : Cut(SubSeq(log, f[q] + 1, f[Len(sent)]), SubSeq(sent, q + 1, Len(sent)), h)
    <2>1. Len(sent) \in q .. Len(sent)
      BY <1>1
    <2>2. QED
      BY <1>1, <2>1, CutSlice
  <1>6. f[q] = r /\ f[Len(sent)] = w
    BY <1>1 DEF Cut
  <1>7. SubSeq(log, r + 1, w) \in Seq(Byte) /\ Len(SubSeq(log, r + 1, w)) = w - r
    BY <1>1
  <1>8. SubSeq(sent, q + 1, Len(sent)) \in Seq(Packable)
    BY <1>1
  <1>9. Cut(SubSeq(log, r + 1, w), Queued, h) /\ Queued \in Seq(Packable)
    BY <1>4, <1>5, <1>6, <1>8
  <1>10. Total(Queued) = w - r
    BY <1>7, <1>9, TotalIsLength
  <1>11. QED
    BY <1>3, <1>4, <1>10, QueuedBytesIsTotal

\* The read offset is at a cut in every state.
LEMMA ReadAtCut ==
    ASSUME RingInv, MsgInv(TRUE)
    PROVE  \E f : Cut(log, sent, f) /\ \E q \in 0 .. Len(sent) : r = f[q]
  <1>1. PICK f : /\ Cut(log, sent, f)
                 /\ \E k \in 0 .. Len(sent) : \E m \in k .. Len(sent) :
                       ReaderAt(f, k, m) /\ Handled(TRUE, k)
    BY DEF MsgInv
  <1>2. PICK k \in 0 .. Len(sent) : \E m \in k .. Len(sent) :
                       ReaderAt(f, k, m) /\ Handled(TRUE, k)
    BY <1>1
  <1>3. PICK m \in k .. Len(sent) : ReaderAt(f, k, m) /\ Handled(TRUE, k)
    BY <1>2
  <1>4. m \in 0 .. Len(sent)
    BY DEF MsgInv
  <1>5. r = f[k] \/ r = f[m]
    BY <1>3 DEF ReaderAt, RingInv, TypeOK
  <1>6. QED
    BY <1>1, <1>4, <1>5

\* A frame is refused exactly when the queue refuses it.
LEMMA RefinesRefuse ==
    ASSUME RingInv, MsgInv(TRUE), NEW body \in Bodies, DropFrame(body)
    PROVE  Queue!Refuse(body)
  <1>1. PICK f : Cut(log, sent, f) /\ \E q \in 0 .. Len(sent) : r = f[q]
    BY ReadAtCut
  <1>2. PICK q \in 0 .. Len(sent) : r = f[q]
    BY <1>1
  <1>3. Queue!QueuedBytes = w - r
    BY <1>1, <1>2, MappedAt
  <1>4. Len(pack_frame(body)) = PrefixLen + Len(body) /\ Len(body) \in Nat
    BY RingAssumption, FrameBytes
  <1>5. w \in Nat /\ r \in Nat /\ Capacity \in Nat
    BY RingAssumption DEF RingInv, TypeOK
  <1>6. Queue!Size(body) = Len(pack_frame(body))
    BY <1>4 DEF Queue!Size
  <1>7. Queue!Size(body) > Capacity \div 2 \/ ~Queue!Fits(body)
    BY <1>3, <1>4, <1>5, <1>6 DEF DropFrame, Free, Queue!Fits, PrefixLen
  <1>8. UNCHANGED << sent, got >> /\ refused' = Append(refused, body)
    BY DEF DropFrame
  <1>9. QED
    BY <1>7, <1>8 DEF Queue!Refuse, Taken

LEMMA AppendedSlice ==
    ASSUME NEW S, NEW s \in Seq(S), NEW e \in S, NEW q \in 0 .. Len(s)
    PROVE  SubSeq(Append(s, e), q + 1, Len(s) + 1) = Append(SubSeq(s, q + 1, Len(s)), e)
  <1> DEFINE n == Len(s)
             t == Append(s, e)
             v == SubSeq(s, q + 1, n)
             u == Append(v, e)
  <1>0. n \in Nat /\ q \in Nat /\ q <= n /\ q <= n + 1
    OBVIOUS
  <1>1. v \in Seq(S) /\ Len(v) = n - q /\ \A i \in 1 .. n - q : v[i] = s[q + i]
    BY <1>0, SliceAt
  <1>2. /\ t \in Seq(S) /\ Len(t) = n + 1 /\ t[n + 1] = e
        /\ \A i \in 1 .. n : t[i] = s[i]
    BY AppendProperties
  <1> HIDE DEF v
  <1>3. /\ u \in Seq(S) /\ Len(u) = Len(v) + 1 /\ u[Len(v) + 1] = e
        /\ \A i \in 1 .. Len(v) : u[i] = v[i]
    BY <1>1, AppendProperties
  <1> HIDE DEF n, t, u
  <1>4. ASSUME NEW i \in 1 .. (n + 1) - q PROVE u[i] = t[q + i]
    <2>1. CASE i <= n - q
      <3>1. i \in 1 .. n - q /\ i \in 1 .. Len(v) /\ q + i \in 1 .. n
        BY <1>0, <1>1, <2>1
      <3>2. QED
        BY <1>1, <1>2, <1>3, <3>1
    <2>2. CASE ~(i <= n - q)
      <3>1. i = Len(v) + 1 /\ q + i = n + 1
        BY <1>0, <1>1, <2>2
      <3>2. QED
        BY <1>2, <1>3, <3>1
    <2>3. QED
      BY <2>1, <2>2
  <1>5. n + 1 \in Nat /\ Len(u) = (n + 1) - q /\ n + 1 <= Len(t)
    BY <1>0, <1>1, <1>2, <1>3
  <1>6. u = SubSeq(t, q + 1, n + 1)
    <2> DEFINE e1 == n + 1
    <2>1. /\ e1 \in Nat /\ q <= e1 /\ e1 <= Len(t) /\ Len(u) = e1 - q
          /\ \A i \in 1 .. e1 - q : u[i] = t[q + i]
      BY <1>0, <1>4, <1>5
    <2> HIDE DEF e1
    <2>2. u = SubSeq(t, q + 1, e1)
      BY <1>0, <1>2, <1>3, <2>1, SliceIs, ZenonT(30)
    <2>3. QED
      BY <2>2 DEF e1
  <1>7. QED
    BY <1>6 DEF u, v, t, n

LEMMA SliceOfSlice ==
    ASSUME NEW S, NEW s \in Seq(S), NEW a \in 0 .. Len(s), NEW b \in Nat, NEW c \in Nat,
           b <= c, c <= Len(s) - a
    PROVE  SubSeq(SubSeq(s, a + 1, Len(s)), b + 1, c) = SubSeq(s, (a + b) + 1, a + c)
  <1> DEFINE n == Len(s)
             v == SubSeq(s, a + 1, n)
             u == SubSeq(v, b + 1, c)
  <1>0. n \in Nat /\ a \in Nat /\ a <= n /\ c <= n - a /\ a + b \in Nat /\ a + c \in Nat
    OBVIOUS
  <1>1. v \in Seq(S) /\ Len(v) = n - a /\ \A i \in 1 .. n - a : v[i] = s[a + i]
    BY <1>0, SliceAt
  <1> HIDE DEF v
  <1>2. u \in Seq(S) /\ Len(u) = c - b /\ \A i \in 1 .. c - b : u[i] = v[b + i]
    BY <1>0, <1>1, SliceAt
  <1> HIDE DEF u
  <1>3. ASSUME NEW i \in 1 .. (a + c) - (a + b) PROVE u[i] = s[(a + b) + i]
    <2>1. i \in 1 .. c - b /\ b + i \in 1 .. n - a /\ a + (b + i) = (a + b) + i
      BY <1>0
    <2>2. QED
      BY <1>1, <1>2, <2>1
  <1>4. Len(u) = (a + c) - (a + b) /\ a + b <= a + c /\ a + c <= Len(s)
    BY <1>0, <1>2
  <1> DEFINE x == a + b
             y == a + c
  <1>5. /\ x \in Nat /\ y \in Nat /\ x <= y /\ y <= Len(s) /\ Len(u) = y - x
        /\ \A i \in 1 .. y - x : u[i] = s[x + i]
    BY <1>0, <1>3, <1>4
  <1> HIDE DEF x, y
  <1>6. u = SubSeq(s, x + 1, y)
    BY <1>2, <1>5, SliceIs
  <1>7. QED
    BY <1>6 DEF u, v, n, x, y

\* A published frame is accepted by the queue.
LEMMA RefinesAccept ==
    ASSUME RingInv, MsgInv(TRUE), Publish
    PROVE  \E body \in Bodies : Queue!Accept(body)
  <1>1. PICK f : Cut(log, sent, f) /\ \E q \in 0 .. Len(sent) : r = f[q]
    BY ReadAtCut
  <1>2. PICK q \in 0 .. Len(sent) : r = f[q]
    BY <1>1
  <1>3. Taken = SubSeq(sent, 1, q) /\ Len(Taken) = q /\ Queue!QueuedBytes = w - r
    BY <1>1, <1>2, MappedAt
  <1>4. PICK body \in Packable : body \in Bodies /\ frame = pack_frame(body)
    BY DEF MsgInv, WritingFrame, Publish
  <1>5. /\ sent \in Seq(Packable) /\ Len(sent) \in Nat /\ frame \in Seq(Byte) /\ Len(frame) \in Nat
        /\ body \in Seq(Byte) /\ Len(body) \in Nat /\ w \in Nat /\ r \in Nat /\ Capacity \in Nat
        /\ Len(frame) <= Capacity \div 2 /\ w + Len(frame) - r <= Capacity
    BY RingAssumption, SMTT(30) DEF MsgInv, WritingFrame, RingInv, TypeOK, WritingOK, Publish, Packable
  <1>6. Len(frame) = PrefixLen + Len(body) /\ SubSeq(frame, PrefixLen + 1, Len(frame)) = body
    BY <1>4, <1>5, FrameBody
  <1>7. sent' = Append(sent, body) /\ UNCHANGED << got, refused >>
    BY <1>6 DEF Publish
  <1>8. Queue!Size(body) <= Capacity \div 2 /\ Queue!Fits(body)
    BY <1>3, <1>5, <1>6 DEF Queue!Size, Queue!Fits, PrefixLen
  <1>9. Taken' = Taken
    BY <1>7 DEF Taken
  <1>10. SubSeq(sent', Len(Taken') + 1, Len(sent')) = Append(SubSeq(sent, Len(Taken) + 1, Len(sent)), body)
    <2>1. Len(sent') = Len(sent) + 1
      BY <1>5, <1>7, AppendProperties
    <2>2. SubSeq(Append(sent, body), q + 1, Len(sent) + 1) = Append(SubSeq(sent, q + 1, Len(sent)), body)
      BY <1>5, AppendedSlice
    <2>3. QED
      BY <1>3, <1>7, <1>9, <2>1, <2>2
  <1>11. Queue!Accept(body)
    BY <1>7, <1>8, <1>9, <1>10 DEF Queue!Accept
  <1>12. QED
    BY <1>4, <1>11

\* A read that is released takes the messages between its two cuts.
LEMMA RefinesTake ==
    ASSUME RingInv, RingInv', MsgInv(TRUE), StoreRead
    PROVE  [Queue!Next]_(Queue!vars)
  <1>1. PICK f : /\ Cut(log, sent, f)
                 /\ \E k \in 0 .. Len(sent) : \E m \in k .. Len(sent) :
                       ReaderAt(f, k, m) /\ Handled(TRUE, k)
    BY DEF MsgInv
  <1>2. PICK k \in 0 .. Len(sent) : \E m \in k .. Len(sent) :
                       ReaderAt(f, k, m) /\ Handled(TRUE, k)
    BY <1>1
  <1>3. PICK m \in k .. Len(sent) : ReaderAt(f, k, m) /\ Handled(TRUE, k)
    BY <1>2
  <1>4. /\ sent \in Seq(Packable) /\ Len(sent) \in Nat /\ log \in Seq(Byte)
        /\ k \in Nat /\ m \in Nat /\ k <= m /\ m <= Len(sent) /\ m \in 0 .. Len(sent)
    <2>1. sent \in Seq(Packable) /\ log \in Seq(Byte)
      BY DEF MsgInv, RingInv, TypeOK
    <2>2. Len(sent) \in Nat
      BY <2>1
    <2>3. QED
      BY <2>1, <2>2
  <1>5. r = f[k] /\ r' = f[m] /\ UNCHANGED << sent, log, refused >>
    <2>1. cpc = "store" /\ r' = cr + avail /\ UNCHANGED << sent, log, refused >>
      BY DEF StoreRead
    <2>2. cr = r /\ r = f[k] /\ r + avail = f[m]
      BY <1>3, <2>1 DEF ReaderAt, RingInv, ReadingOK
    <2>3. QED
      BY <2>1, <2>2
  <1>6. Taken = SubSeq(sent, 1, k) /\ Len(Taken) = k
    BY <1>1, <1>5, MappedAt
  <1>7. Taken' = SubSeq(sent, 1, m) /\ Len(Taken') = m
    <2>1. /\ got' \in Seq(Byte) /\ r' \in Nat /\ r' <= Len(log) /\ Len(got') = r'
          /\ \A i \in 1 .. r' : got'[i] = log[i]
      BY <1>5 DEF RingInv, TypeOK, OffsetsOK
    <2>2. got' = SubSeq(log, 1, r')
      BY <1>4, <2>1, StartIs
    <2>3. unpack_all_frames(SubSeq(log, 1, f[m])).frames = SubSeq(sent, 1, m)
      BY <1>1, <1>4, UnpackToCut
    <2>4. Taken' = SubSeq(sent, 1, m)
      BY <1>5, <2>2, <2>3 DEF Taken
    <2>5. Len(SubSeq(sent, 1, m)) = m
      BY <1>4
    <2>6. QED
      BY <2>4, <2>5
  <1>8. CASE m = k
    BY <1>5, <1>6, <1>7, <1>8 DEF Queue!vars
  <1>9. CASE m # k
    <2> DEFINE n == m - k
               queue == SubSeq(sent, k + 1, Len(sent))
    <2>1. Len(queue) = Len(sent) - k /\ n \in 1 .. Len(sent) - k /\ n \in Nat /\ k + n = m /\ k + 0 = k
      BY <1>4, <1>9
    <2>2. Taken' = Taken \o SubSeq(queue, 1, n)
      <3>1. SubSeq(queue, 0 + 1, n) = SubSeq(sent, (k + 0) + 1, k + n)
        BY <1>4, <2>1, SliceOfSlice
      <3>2. SubSeq(sent, 1, k) \o SubSeq(sent, k + 1, m) = SubSeq(sent, 1, m)
        BY <1>4, SlicesJoin
      <3>3. QED
        BY <1>6, <1>7, <2>1, <3>1, <3>2, SMTT(30)
    <2>3. SubSeq(sent, m + 1, Len(sent)) = SubSeq(queue, n + 1, Len(queue))
      <3> DEFINE c == Len(sent) - k
      <3>1. c \in Nat /\ n <= c /\ c <= Len(sent) - k /\ k + c = Len(sent)
        BY <1>4, <2>1
      <3> HIDE DEF c
      <3>2. SubSeq(queue, n + 1, c) = SubSeq(sent, (k + n) + 1, k + c)
        BY <1>4, <2>1, <3>1, SliceOfSlice
      <3>3. QED
        BY <2>1, <3>1, <3>2 DEF c
    <2>4. /\ SubSeq(sent, Len(Taken) + 1, Len(sent)) = queue
          /\ SubSeq(sent', Len(Taken') + 1, Len(sent')) = SubSeq(queue, n + 1, Len(queue))
          /\ n \in 1 .. Len(queue)
      BY <1>5, <1>6, <1>7, <2>1, <2>3
    <2> HIDE DEF n, queue
    <2>5. Queue!TakeAvailable(n)
      BY <1>5, <2>2, <2>4 DEF Queue!TakeAvailable
    <2>6. QED
      BY <2>4, <2>5 DEF Queue!Next
  <1>10. QED
    BY <1>8, <1>9

\* The ring implements FrameQueue: it refuses a message only when that message
\* is oversize or the messages still queued leave it no room, and hands over
\* all others in order, whatever the interleaving of the two sides.
THEOREM RingImplementsQueue == Spec => ImplementsFrameQueue
  <1>1. Init => Queue!Init
    <2> SUFFICES ASSUME Init PROVE Queue!Init
      OBVIOUS
    <2>1. RingInv /\ MsgInv(TRUE)
      BY RingInvInit, MsgInvInit
    <2>2. PICK f : Cut(log, sent, f) /\ \E q \in 0 .. Len(sent) : r = f[q]
      BY <2>1, ReadAtCut
    <2>3. PICK q \in 0 .. Len(sent) : r = f[q]
      BY <2>2
    <2>4. sent = << >> /\ refused = << >>
      BY DEF Init
    <2>5. q = 0 /\ Len(Taken) = q /\ Taken = SubSeq(sent, 1, q)
      BY <2>1, <2>2, <2>3, <2>4, MappedAt
    <2>6. QED
      BY <2>4, <2>5 DEF Queue!Init
  <1>2. RingInv /\ RingInv' /\ MsgInv(TRUE) /\ [Next]_vars => [Queue!Next]_(Queue!vars)
    <2> SUFFICES ASSUME RingInv, RingInv', MsgInv(TRUE), [Next]_vars
                 PROVE  [Queue!Next]_(Queue!vars)
      OBVIOUS
    <2>1. ASSUME NEW body \in Bodies, DropFrame(body) PROVE Queue!Next
      BY <2>1, RefinesRefuse DEF Queue!Next
    <2>2. CASE Publish
      BY <2>2, RefinesAccept DEF Queue!Next
    <2>3. CASE StoreRead
      BY <2>3, RefinesTake
    <2>4. ASSUME UNCHANGED << sent, got, refused >> PROVE UNCHANGED Queue!vars
      BY <2>4 DEF Queue!vars, Taken
    <2>5. ASSUME NEW body \in Bodies, StartWrite(body) PROVE UNCHANGED << sent, got, refused >>
      BY <2>5 DEF StartWrite, history
    <2>6. CASE CopyIn \/ Notify \/ StartRead \/ CopyOut \/ Unpack \/ FindEmpty \/ DrainNotify
               \/ Wake \/ WaitTimeout \/ UNCHANGED vars
      BY <2>4, <2>6 DEF CopyIn, Notify, StartRead, CopyOut, Unpack, FindEmpty, DrainNotify,
                        Wake, WaitTimeout, history, vars
    <2>7. QED
      BY <2>1, <2>2, <2>3, <2>4, <2>5, <2>6 DEF Next, Producer, Consumer
  <1>3. QED
    BY <1>1, <1>2, MsgInvariant, PTL DEF Spec, ImplementsFrameQueue, Queue!Spec

-----------------------------------------------------------------------------
(* Deaths and restarts.  A ring that no broker restart has touched is the  *)
(* ring of ShmRing with one side's locals lost now and then; a ring whose  *)
(* restarts never met the trader inside an operation keeps RingInv.        *)

RestartTypeOK ==
    /\ owner \in {"producer", "consumer"}
    /\ deaths \in [trader : Nat, broker : Nat]
    /\ boot \in {"up", "truncated", "write_zeroed"}
    /\ hit \in BOOLEAN

\* While create_owner runs the ring is empty for the reader, and the owner's
\* own side has not begun.
Booting ==
    /\ r = 0
    /\ owner = "producer" => w = 0 /\ pc = "idle" /\ cpc \notin {"copy", "store"}
    /\ owner = "consumer" => cpc = "poll"

\* No restart has caught the trader inside an operation.
Undisturbed == RingInv /\ (boot # "up" => Booting)

\* No broker has died yet.
FirstBroker ==
    /\ boot = "up"
    /\ RingInv
    /\ MsgInv(FALSE)
    /\ owner = "consumer" => MsgInv(TRUE)

RestartInv ==
    /\ RestartTypeOK
    /\ ~hit => Undisturbed
    /\ deaths.broker = 0 => FirstBroker

-----------------------------------------------------------------------------
(* Deaths *)

LEMMA RestartInvInit == RInit => RestartInv
  <1> SUFFICES ASSUME RInit PROVE RestartInv
    OBVIOUS
  <1>1. RingInv /\ MsgInv(FALSE) /\ MsgInv(TRUE)
    BY RingInvInit, MsgInvInit DEF RInit
  <1>2. RestartTypeOK
    BY DEF RInit, RestartTypeOK
  <1>3. boot = "up"
    BY DEF RInit
  <1>4. QED
    BY <1>1, <1>2, <1>3 DEF RestartInv, Undisturbed, FirstBroker

\* A producer that dies leaves the published bytes as they are; what it was
\* writing lies beyond the write offset.
LEMMA RingInvProducerDies ==
    ASSUME RingInv, ResetProducer, UNCHANGED << ringVars, consumerVars, history >>
    PROVE  RingInv'
  <1> USE DEF ringVars, consumerVars, history, ResetProducer
  <1>1. TypeOK'
    BY DEF RingInv, TypeOK
  <1>2. OffsetsOK' /\ UnreadOK' /\ ReadingOK'
    BY DEF RingInv, OffsetsOK, UnreadOK, ReadingOK
  <1>3. WritingOK'
    BY DEF WritingOK
  <1>4. QED
    BY <1>1, <1>2, <1>3 DEF RingInv

\* A consumer that dies leaves the read offset before or after its whole read.
LEMMA RingInvConsumerDies ==
    ASSUME RingInv, ResetConsumer, UNCHANGED << ringVars, producerVars, history >>
    PROVE  RingInv'
  <1> USE DEF ringVars, producerVars, history, ResetConsumer
  <1>1. TypeOK'
    BY DEF RingInv, TypeOK
  <1>2. OffsetsOK' /\ UnreadOK' /\ WritingOK'
    BY DEF RingInv, OffsetsOK, UnreadOK, WritingOK
  <1>3. ReadingOK'
    BY DEF ReadingOK
  <1>4. QED
    BY <1>1, <1>2, <1>3 DEF RingInv

LEMMA MsgInvProducerDies ==
    ASSUME NEW inOrder \in BOOLEAN, MsgInv(inOrder), ResetProducer,
           UNCHANGED << ringVars, consumerVars, history >>
    PROVE  MsgInv(inOrder)'
  <1>1. WritingFrame'
    BY DEF WritingFrame, ResetProducer
  <1>2. QED
    BY <1>1, MsgInvQuiet DEF ringVars, consumerVars, history

\* The messages of the read it dies with are lost, and no others.
LEMMA MsgInvConsumerDies ==
    ASSUME RingInv, MsgInv(FALSE), ResetConsumer, UNCHANGED << ringVars, producerVars, history >>
    PROVE  MsgInv(FALSE)'
  <1>1. PICK f : /\ Cut(log, sent, f)
                 /\ \E k \in 0 .. Len(sent) : \E m \in k .. Len(sent) :
                       ReaderAt(f, k, m) /\ Handled(FALSE, k)
    BY DEF MsgInv
  <1>2. PICK k \in 0 .. Len(sent) : \E m \in k .. Len(sent) :
                       ReaderAt(f, k, m) /\ Handled(FALSE, k)
    BY <1>1
  <1>3. PICK m \in k .. Len(sent) : ReaderAt(f, k, m) /\ Handled(FALSE, k)
    BY <1>2
  <1>4. sent \in Seq(Packable) /\ Len(sent) \in Nat
    BY DEF MsgInv
  <1>5. PICK n \in 0 .. Len(sent) : r = f[n]
    <2>1. cpc = "unpack" => r = f[m]
      BY <1>3 DEF ReaderAt
    <2>2. cpc # "unpack" => r = f[k]
      BY <1>3 DEF ReaderAt, RingInv, TypeOK
    <2>3. m \in 0 .. Len(sent)
      BY <1>4
    <2>4. QED
      BY <2>1, <2>2, <2>3
  <1>6. UNCHANGED << r, log, sent, delivered, pc, frame >> /\ cpc' = "poll" /\ buf' = << >>
    BY DEF ringVars, producerVars, history, ResetConsumer
  <1>7. ReaderAt(f, n, n)'
    BY <1>5, <1>6 DEF ReaderAt
  <1>8. Handled(FALSE, n)'
    BY <1>3, <1>6 DEF Handled
  <1>9. Cut(log', sent', f) /\ sent' \in Seq(Packable) /\ WritingFrame'
    BY <1>1, <1>6 DEF MsgInv, WritingFrame
  <1>10. n \in 0 .. Len(sent') /\ n \in n .. Len(sent')
    BY <1>4, <1>6
  <1>11. QED
    BY <1>7, <1>8, <1>9, <1>10 DEF MsgInv

-----------------------------------------------------------------------------
(* The invariant, step by step *)

LEMMA RestartInvRing == RestartInv /\ RingStep => RestartInv'
  <1> SUFFICES ASSUME RestartInv, RingStep PROVE RestartInv'
    OBVIOUS
  <1>1. [Next]_vars /\ UNCHANGED << owner, deaths, boot, hit >>
    BY DEF RingStep, Next
  <1>2. RestartTypeOK'
    BY <1>1 DEF RestartInv, RestartTypeOK
  <1>3. ASSUME ~hit PROVE Undisturbed'
    <2>1. RingInv /\ RingInv'
      BY <1>1, <1>3, RingInvStep DEF RestartInv, Undisturbed
    <2>2. ASSUME boot # "up" PROVE Booting'
      <3>1. Booting /\ owner \in {"producer", "consumer"}
        BY <1>3, <2>2 DEF RestartInv, RestartTypeOK, Undisturbed
      <3>2. CASE owner = "consumer"
        <4>1. Producer
          BY <2>2, <3>2 DEF RingStep
        <4>2. UNCHANGED << r, cpc >>
          BY <4>1 DEF Producer, DropFrame, StartWrite, CopyIn, Publish, Notify,
                      ringVars, consumerVars, history
        <4>3. QED
          BY <1>1, <3>1, <3>2, <4>2 DEF Booting
      <3>3. CASE owner = "producer"
        <4>1. Consumer
          BY <2>2, <3>3 DEF RingStep
        <4>2. Available = 0 /\ cpc \notin {"copy", "store"}
          BY <3>1, <3>3 DEF Booting, Available
        <4>3. UNCHANGED << w, r, pc >> /\ cpc' \notin {"copy", "store"}
          BY <4>1, <4>2 DEF Consumer, StartRead, CopyOut, StoreRead, Unpack, FindEmpty,
                            DrainNotify, Wake, WaitTimeout, ringVars, producerVars
        <4>4. QED
          BY <1>1, <3>1, <3>3, <4>3 DEF Booting
      <3>4. QED
        BY <3>1, <3>2, <3>3
    <2>3. QED
      BY <1>1, <2>1, <2>2 DEF Undisturbed
  <1>4. ASSUME deaths.broker = 0 PROVE FirstBroker'
    <2>1. FirstBroker
      BY <1>4 DEF RestartInv
    <2>2. RingInv'
      BY <1>1, <2>1, RingInvStep DEF FirstBroker
    <2>3. MsgInv(FALSE)' /\ (owner = "consumer" => MsgInv(TRUE)')
      BY <1>1, <2>1, MsgInvStep DEF FirstBroker
    <2>4. QED
      BY <1>1, <2>1, <2>2, <2>3 DEF FirstBroker
  <1>5. QED
    BY <1>1, <1>2, <1>3, <1>4 DEF RestartInv

LEMMA RestartInvClient == RestartInv /\ ClientRestart => RestartInv'
  <1> SUFFICES ASSUME RestartInv, ClientRestart PROVE RestartInv'
    OBVIOUS
  <1>0. owner \in {"producer", "consumer"} /\ deaths \in [trader : Nat, broker : Nat]
    BY DEF RestartInv, RestartTypeOK
  <1>1. /\ UNCHANGED << ringVars, history, owner, boot, hit >>
        /\ deaths' \in [trader : Nat, broker : Nat] /\ deaths'.broker = deaths.broker
    BY <1>0 DEF ClientRestart, TraderDies
  <1>2. RestartTypeOK'
    BY <1>1 DEF RestartInv, RestartTypeOK
  <1>3. CASE owner = "producer"
    <2>1. ResetConsumer /\ UNCHANGED << ringVars, producerVars, history >>
      BY <1>1, <1>3 DEF ClientRestart
    <2>2. ASSUME ~hit PROVE Undisturbed'
      <3>1. RingInv'
        BY <2>1, <2>2, RingInvConsumerDies DEF RestartInv, Undisturbed
      <3>2. boot # "up" => Booting'
        BY <1>1, <1>3, <2>1, <2>2
           DEF RestartInv, Undisturbed, Booting, ResetConsumer, ringVars, producerVars
      <3>3. QED
        BY <1>1, <3>1, <3>2 DEF Undisturbed
    <2>3. ASSUME deaths.broker = 0 PROVE FirstBroker'
      <3>1. RingInv /\ MsgInv(FALSE) /\ boot = "up"
        BY <2>3 DEF RestartInv, FirstBroker
      <3>2. RingInv' /\ MsgInv(FALSE)'
        BY <2>1, <3>1, RingInvConsumerDies, MsgInvConsumerDies
      <3>3. QED
        BY <1>1, <1>3, <3>1, <3>2 DEF FirstBroker
    <2>4. QED
      BY <1>1, <1>2, <2>2, <2>3 DEF RestartInv
  <1>4. CASE owner = "consumer"
    <2>1. ResetProducer /\ UNCHANGED << ringVars, consumerVars, history >>
      BY <1>1, <1>4 DEF ClientRestart
    <2>2. ASSUME ~hit PROVE Undisturbed'
      <3>1. RingInv'
        BY <2>1, <2>2, RingInvProducerDies DEF RestartInv, Undisturbed
      <3>2. boot # "up" => Booting'
        BY <1>1, <1>4, <2>1, <2>2 DEF RestartInv, Undisturbed, Booting, ringVars, consumerVars
      <3>3. QED
        BY <1>1, <3>1, <3>2 DEF Undisturbed
    <2>3. ASSUME deaths.broker = 0 PROVE FirstBroker'
      <3>1. RingInv /\ MsgInv(FALSE) /\ MsgInv(TRUE) /\ boot = "up"
        BY <1>4, <2>3 DEF RestartInv, FirstBroker
      <3>2. RingInv' /\ MsgInv(FALSE)' /\ MsgInv(TRUE)'
        BY <2>1, <3>1, RingInvProducerDies, MsgInvProducerDies
      <3>3. QED
        BY <1>1, <3>1, <3>2 DEF FirstBroker
    <2>4. QED
      BY <1>1, <1>2, <2>2, <2>3 DEF RestartInv
  <1>5. QED
    BY <1>0, <1>3, <1>4

\* A truncated ring is empty; a trader between two operations has nothing of
\* the old one in hand.
LEMMA RestartInvTruncate == RestartInv /\ TruncateFile => RestartInv'
  <1> SUFFICES ASSUME RestartInv, TruncateFile PROVE RestartInv'
    OBVIOUS
  <1>0. /\ owner \in {"producer", "consumer"} /\ deaths \in [trader : Nat, broker : Nat]
        /\ hit \in BOOLEAN
    BY DEF RestartInv, RestartTypeOK
  <1>1. /\ deaths' \in [trader : Nat, broker : Nat] /\ deaths'.broker = deaths.broker + 1
        /\ deaths.broker \in Nat
    BY <1>0 DEF TruncateFile, BrokerDies
  <1>2. /\ boot' = "truncated" /\ owner' = owner /\ hit' = (hit \/ ClientInsideOp)
        /\ w' = 0 /\ r' = 0 /\ mem' = [i \in 0 .. Capacity - 1 |-> 0] /\ fifo' = fifo
        /\ log' = << >> /\ got' = << >>
    BY DEF TruncateFile
  <1>3. RestartTypeOK'
    <2>1. hit' \in BOOLEAN
      BY <1>2 DEF ClientInsideOp
    <2>2. QED
      BY <1>0, <1>1, <1>2, <2>1 DEF RestartTypeOK
  <1>4. ASSUME ~hit' PROVE Undisturbed'
    <2>1. ~hit /\ ~ClientInsideOp
      BY <1>2, <1>4
    <2>2. RingInv
      BY <2>1 DEF RestartInv, Undisturbed
    <2>3. /\ pc' \in {"idle", "notify"} /\ cpc' \notin {"copy", "store"}
          /\ owner = "producer" => pc' = "idle"
          /\ owner = "consumer" => cpc' = "poll"
      BY <1>0, <2>1, <2>2 DEF TruncateFile, ResetProducer, ResetConsumer, producerVars, consumerVars,
                              ClientInsideOp, RingInv, TypeOK
    <2>4. TypeOK'
      <3>1. 0 \in Byte
        BY ProtocolAssumption DEF Byte
      <3>2. /\ pw' \in Nat /\ frame' \in Seq(Byte) /\ copied' \in Nat /\ frames_dropped' \in Nat
            /\ cr' \in Nat /\ avail' \in Nat /\ chunk' \in Seq(Byte)
            /\ cpc' \in {"poll", "copy", "store", "unpack", "drain", "wait"}
        <4>1. CASE owner = "producer"
          <5>1. ResetProducer /\ UNCHANGED << cpc, cr, avail, chunk >>
            BY <4>1 DEF TruncateFile, consumerVars
          <5>2. QED
            BY <2>2, <5>1 DEF ResetProducer, RingInv, TypeOK
        <4>2. CASE owner = "consumer"
          <5>1. ResetConsumer /\ UNCHANGED << pc, pw, frame, copied, frames_dropped >>
            BY <4>2 DEF TruncateFile, producerVars
          <5>2. QED
            BY <2>2, <5>1 DEF ResetConsumer, RingInv, TypeOK
        <4>3. QED
          BY <1>0, <4>1, <4>2
      <3>3. mem' \in [0 .. Capacity - 1 -> Byte]
        BY <1>2, <3>1
      <3>4. fifo' \in 0 .. FifoCap
        BY <1>2, <2>2 DEF RingInv, TypeOK
      <3>5. QED
        BY <1>2, <2>3, <3>2, <3>3, <3>4 DEF TypeOK
    <2>5. OffsetsOK' /\ UnreadOK'
      <3>1. Len(log') = 0 /\ Len(got') = 0 /\ Capacity \in Nat
        BY <1>2, RingAssumption
      <3>2. OffsetsOK'
        BY <1>2, <3>1 DEF OffsetsOK
      <3>3. UnreadOK'
        BY <1>2 DEF UnreadOK
      <3>4. QED
        BY <3>2, <3>3
    <2>6. WritingOK' /\ ReadingOK'
      BY <2>3 DEF WritingOK, ReadingOK
    <2>7. Booting'
      BY <1>2, <2>3 DEF Booting
    <2>8. QED
      BY <2>4, <2>5, <2>6, <2>7 DEF Undisturbed, RingInv
  <1>5. QED
    BY <1>1, <1>3, <1>4 DEF RestartInv

\* What a trader has published into the truncated file is taken back.
LEMMA RestartInvZeroWrite == RestartInv /\ ZeroWriteOffset => RestartInv'
  <1> SUFFICES ASSUME RestartInv, ZeroWriteOffset PROVE RestartInv'
    OBVIOUS
  <1>1. /\ boot = "truncated" /\ boot' = "write_zeroed" /\ w' = 0 /\ log' = << >>
        /\ hit' = (hit \/ ClientInsideOp)
        /\ UNCHANGED << r, mem, fifo, producerVars, consumerVars, got, owner, deaths >>
    BY DEF ZeroWriteOffset
  <1>2. RestartTypeOK'
    <2>1. hit' \in BOOLEAN
      BY <1>1 DEF ClientInsideOp
    <2>2. QED
      BY <1>1, <2>1 DEF RestartInv, RestartTypeOK
  <1>3. ASSUME ~hit' PROVE Undisturbed'
    <2>1. ~hit /\ ~ClientInsideOp /\ owner \in {"producer", "consumer"}
      BY <1>1, <1>3 DEF RestartInv, RestartTypeOK
    <2>2. RingInv /\ Booting
      BY <1>1, <2>1 DEF RestartInv, Undisturbed
    <2>3. r = 0 /\ pc \notin {"copy", "publish"} /\ cpc \notin {"copy", "store"}
      BY <2>1, <2>2 DEF Booting, ClientInsideOp
    <2>4. TypeOK'
      BY <1>1, <2>2 DEF RingInv, TypeOK, producerVars, consumerVars
    <2>5. OffsetsOK' /\ UnreadOK'
      <3>1. got \in Seq(Byte) /\ Len(got) = 0
        BY <2>2, <2>3 DEF RingInv, TypeOK, OffsetsOK
      <3>2. QED
        BY <1>1, <2>3, <3>1, RingAssumption DEF OffsetsOK, UnreadOK
    <2>6. WritingOK' /\ ReadingOK'
      BY <1>1, <2>3 DEF WritingOK, ReadingOK, producerVars, consumerVars
    <2>7. Booting'
      BY <1>1, <2>2 DEF Booting, producerVars, consumerVars
    <2>8. QED
      BY <2>4, <2>5, <2>6, <2>7 DEF Undisturbed, RingInv
  <1>4. deaths.broker # 0
    BY <1>1 DEF RestartInv, FirstBroker
  <1>5. QED
    BY <1>1, <1>2, <1>3, <1>4 DEF RestartInv

LEMMA RestartInvZeroRead == RestartInv /\ ZeroReadOffset => RestartInv'
  <1> SUFFICES ASSUME RestartInv, ZeroReadOffset PROVE RestartInv'
    OBVIOUS
  <1>1. /\ boot = "write_zeroed" /\ boot' = "up" /\ r' = 0
        /\ UNCHANGED << w, mem, fifo, producerVars, consumerVars, history, owner, deaths, hit >>
    BY DEF ZeroReadOffset
  <1>2. RestartTypeOK'
    BY <1>1 DEF RestartInv, RestartTypeOK
  <1>3. ASSUME ~hit PROVE Undisturbed'
    <2>1. RingInv /\ r = 0
      BY <1>1, <1>3 DEF RestartInv, Undisturbed, Booting
    <2>2. UNCHANGED vars
      BY <1>1, <2>1 DEF vars, ringVars
    <2>3. RingInv'
      BY <2>1, <2>2, RingInvStep
    <2>4. QED
      BY <1>1, <2>3 DEF Undisturbed
  <1>4. deaths.broker # 0
    BY <1>1 DEF RestartInv, FirstBroker
  <1>5. QED
    BY <1>1, <1>2, <1>3, <1>4 DEF RestartInv

LEMMA RestartInvStep == RestartInv /\ [RNext]_rvars => RestartInv'
  <1> SUFFICES ASSUME RestartInv, [RNext]_rvars PROVE RestartInv'
    OBVIOUS
  <1>1. CASE UNCHANGED rvars
    <2>1. UNCHANGED << vars, owner, deaths, boot, hit >>
      BY <1>1 DEF rvars
    <2>2. UNCHANGED << ringVars, producerVars, consumerVars, history >>
      BY <2>1 DEF vars
    <2>3. RestartTypeOK'
      BY <2>1 DEF RestartInv, RestartTypeOK
    <2>4. RingInv => RingInv'
      BY <2>1, RingInvStep
    <2>5. Booting => Booting'
      BY <2>1, <2>2 DEF Booting, ringVars, producerVars, consumerVars
    <2>6. ASSUME NEW b \in BOOLEAN, RingInv, MsgInv(b) PROVE MsgInv(b)'
      BY <2>1, <2>6, MsgInvStep
    <2>7. QED
      BY <2>1, <2>3, <2>4, <2>5, <2>6 DEF RestartInv, Undisturbed, FirstBroker
  <1>2. QED
    BY <1>1, RestartInvRing, RestartInvClient, RestartInvTruncate, RestartInvZeroWrite,
       RestartInvZeroRead DEF RNext, OwnerRestart

-----------------------------------------------------------------------------
(* Theorems *)

\* The invariant of the ring under process deaths and create_owner.
THEOREM RestartInvariant == RestartSpec => []RestartInv
  BY RestartInvInit, RestartInvStep, PTL DEF RestartSpec

\* Wherever a trader dies, and whatever it was doing with either ring, the
\* messages handled are whole messages somebody sent.
THEOREM NoTornFrameAlways == RestartSpec => []NoTornFrame
  <1>1. RestartInv => NoTornFrame
    BY DEF RestartInv, FirstBroker, MsgInv, Handled, NoTornFrame
  <1>2. QED
    BY <1>1, RestartInvariant, PTL

\* Whatever the traders' deaths, the broker handles the commands that were
\* published, each once and in order.
THEOREM CommandsSurviveAlways == RestartSpec => []CommandsSurvive
  <1>1. RestartInv => CommandsSurvive
    BY DeliveredFromInv DEF RestartInv, FirstBroker, CommandsSurvive
  <1>2. QED
    BY <1>1, RestartInvariant, PTL

\* A broker restart that finds the trader between two ring operations, at any
\* of the three stores of create_owner, leaves offsets and data coherent.
THEOREM RestartHarmlessAlways == RestartSpec => []RestartHarmlessOutsideOps
  <1>1. RestartInv => RestartHarmlessOutsideOps
    <2> SUFFICES ASSUME RestartInv, ~hit PROVE OffsetsCoherent /\ UnreadIntact
      BY DEF RestartHarmlessOutsideOps
    <2>1. RingInv
      BY DEF RestartInv, Undisturbed
    <2>2. OffsetsCoherent
      BY <2>1 DEF RingInv, OffsetsOK, OffsetsCoherent
    <2>3. UnreadIntact
      BY <2>1 DEF RingInv, TypeOK, OffsetsOK, UnreadOK, UnreadIntact
    <2>4. QED
      BY <2>2, <2>3
  <1>2. QED
    BY <1>1, RestartInvariant, PTL
-----------------------------------------------------------------------------
(***************************************************************************)
(* The unpackers on any buffer.                                            *)
(***************************************************************************)

\* Induction from the end of a buffer: what holds of a cursor when it holds of
\* all later ones holds of every cursor.
LEMMA Downward ==
    ASSUME NEW n \in Nat, NEW P, \A c \in 0 .. n : (\A d \in c + 1 .. n : d \in P) => c \in P
    PROVE  \A c \in 0 .. n : c \in P
  <1> DEFINE T == {k \in 0 .. n : n - k \notin P}
  <1>1. T = {}
    <2>1. SUFFICES ASSUME T # {} PROVE FALSE
      OBVIOUS
    <2>0. T \subseteq Nat
      OBVIOUS
    <2> HIDE DEF T
    <2>2. PICK k \in T : \A y \in T : k <= y
      BY <2>0, <2>1, LeastNatural
    <2> USE DEF T
    <2>3. k \in 0 .. n /\ n - k \notin P /\ n - k \in 0 .. n
      OBVIOUS
    <2>4. ASSUME NEW d \in (n - k) + 1 .. n PROVE d \in P
      <3>1. n - d \in 0 .. n /\ ~(k <= n - d) /\ n - (n - d) = d
        BY <2>3
      <3>2. n - d \notin T
        BY <2>2, <3>1
      <3>3. QED
        BY <3>1, <3>2
    <2>5. QED
      BY <2>3, <2>4
  <1>2. ASSUME NEW c \in 0 .. n PROVE c \in P
    <2>1. n - c \in 0 .. n /\ n - (n - c) = c
      OBVIOUS
    <2>2. QED
      BY <1>1, <2>1
  <1>3. QED
    BY <1>2

\* What the walk finds at a cursor: an oversize prefix, a whole frame, which
\* ends at FrameEnd, or neither, and it stops.
FrameEnd(b, c) == c + PrefixLen + SizeAt(b, c)
Oversize(b, c) == c + PrefixLen <= Len(b) /\ SizeAt(b, c) > MaxFrameBytes
WholeAt(b, c)  == /\ c + PrefixLen <= Len(b) /\ ~(SizeAt(b, c) > MaxFrameBytes)
                  /\ FrameEnd(b, c) <= Len(b)

LEMMA SizeNat ==
    ASSUME NEW b \in Seq(Byte), NEW c \in Nat, c + PrefixLen <= Len(b)
    PROVE  SizeAt(b, c) \in Nat
  <1>1. c + 1 \in 1 .. Len(b) /\ c + 2 \in 1 .. Len(b)
    BY DEF PrefixLen
  <1>2. b[c + 1] \in Byte /\ b[c + 2] \in Byte
    BY <1>1, ElementOfSeq
  <1>3. ByteBase \in Nat /\ b[c + 1] \in Nat /\ b[c + 2] \in Nat
    BY <1>2, ProtocolAssumption DEF Byte
  <1>4. b[c + 1] * ByteBase \in Nat
    BY <1>3
  <1>5. QED
    BY <1>3, <1>4 DEF SizeAt

LEMMA EndIsLater ==
    ASSUME NEW b \in Seq(Byte), NEW c \in Nat, WholeAt(b, c)
    PROVE  /\ SizeAt(b, c) \in Nat
           /\ FrameEnd(b, c) \in c + 1 .. Len(b) /\ FrameEnd(b, c) \in Nat
           /\ c + PrefixLen \in Nat /\ c + PrefixLen <= FrameEnd(b, c)
  <1>1. SizeAt(b, c) \in Nat /\ Len(b) \in Nat
    BY SizeNat DEF WholeAt
  <1>2. QED
    BY <1>1 DEF WholeAt, FrameEnd, PrefixLen

LEMMA TurnStops ==
    ASSUME NEW b \in Seq(Byte), NEW c \in Nat, NEW g, ~WholeAt(b, c)
    PROVE  WalkTurn(b, g, c) = [ok |-> ~Oversize(b, c), frames |-> << >>, cursor |-> c]
  <1>1. Len(b) \in Nat /\ c + PrefixLen \in Nat
    BY DEF PrefixLen
  <1>2. CASE c + PrefixLen > Len(b)
    <2>1. Oversize(b, c) = FALSE
      BY <1>1, <1>2 DEF Oversize
    <2>2. QED
      BY <1>2, <2>1 DEF WalkTurn
  <1>3. CASE c + PrefixLen <= Len(b)
    <2>1. SizeAt(b, c) \in Nat /\ FrameEnd(b, c) \in Nat /\ MaxFrameBytes \in Nat
      BY <1>1, <1>3, SizeNat, ProtocolAssumption DEF FrameEnd
    <2>2. ~(c + PrefixLen > Len(b))
      BY <1>1, <1>3
    <2>3. CASE SizeAt(b, c) > MaxFrameBytes
      <3>1. Oversize(b, c) = TRUE
        BY <1>3, <2>3 DEF Oversize
      <3>2. QED
        BY <2>2, <2>3, <3>1 DEF WalkTurn
    <2>4. CASE ~(SizeAt(b, c) > MaxFrameBytes)
      <3>1. Oversize(b, c) = FALSE /\ FrameEnd(b, c) > Len(b)
        BY <1>1, <1>3, <2>1, <2>4 DEF Oversize, WholeAt
      <3>2. QED
        BY <2>2, <2>4, <3>1 DEF WalkTurn, FrameEnd
    <2>5. QED
      BY <2>3, <2>4
  <1>4. QED
    BY <1>1, <1>2, <1>3

LEMMA TurnTakes ==
    ASSUME NEW b \in Seq(Byte), NEW c \in Nat, NEW g, WholeAt(b, c)
    PROVE  WalkTurn(b, g, c) =
             [g[FrameEnd(b, c)] EXCEPT !.frames =
                << SubSeq(b, c + PrefixLen + 1, FrameEnd(b, c)) >> \o @]
  <1>1. ~(c + PrefixLen > Len(b)) /\ ~(FrameEnd(b, c) > Len(b))
    BY EndIsLater DEF WholeAt, PrefixLen
  <1>2. QED
    BY <1>1 DEF WalkTurn, WholeAt, FrameEnd

\* What a walk returns.
Walked == [ok : BOOLEAN, frames : Seq(Seq(Byte)), cursor : Nat]

LEMMA FrameAdded ==
    ASSUME NEW h \in Walked, NEW body \in Seq(Byte), NEW e, e = [h EXCEPT !.frames = << body >> \o @]
    PROVE  /\ e \in Walked
           /\ e.ok = h.ok /\ e.frames = << body >> \o h.frames /\ e.cursor = h.cursor
  <1>1. << body >> \in Seq(Seq(Byte)) /\ h.frames \in Seq(Seq(Byte))
    BY DEF Walked
  <1>2. << body >> \o h.frames \in Seq(Seq(Byte))
    BY <1>1, ConcatProperties
  <1>3. QED
    BY <1>2 DEF Walked

\* The solution of the walk's recursion on b.
WalkOf(b, g) == g = [c \in 0 .. Len(b) |-> WalkTurn(b, g, c)]

\* A walk ends at its cursor or later, inside the buffer.
LEMMA WalkTyped ==
    ASSUME NEW b \in Seq(Byte), NEW g, WalkOf(b, g)
    PROVE  \A c \in 0 .. Len(b) : g[c] \in Walked /\ g[c].cursor \in c .. Len(b)
  <1> DEFINE n == Len(b)
             Typed(c) == g[c] \in Walked /\ g[c].cursor \in c .. n
             P == {c \in 0 .. n : Typed(c)}
  <1>0. n \in Nat
    OBVIOUS
  <1>1. ASSUME NEW c \in 0 .. n, \A d \in c + 1 .. n : d \in P PROVE Typed(c)
    <2>1. c \in Nat /\ g[c] = WalkTurn(b, g, c)
      BY <1>0 DEF WalkOf
    <2>2. CASE ~WholeAt(b, c)
      <3>1. g[c] = [ok |-> ~Oversize(b, c), frames |-> << >>, cursor |-> c]
        BY <2>1, <2>2, TurnStops
      <3>2. (~Oversize(b, c)) \in BOOLEAN /\ << >> \in Seq(Seq(Byte))
        BY DEF Oversize
      <3>3. QED
        BY <1>0, <3>1, <3>2 DEF Walked
    <2>3. CASE WholeAt(b, c)
      <3> DEFINE e == FrameEnd(b, c)
                 body == SubSeq(b, c + PrefixLen + 1, e)
      <3>1. e \in c + 1 .. n /\ e \in Nat /\ c + PrefixLen \in Nat /\ c + PrefixLen <= e /\ e <= Len(b)
        BY <1>0, <2>1, <2>3, EndIsLater
      <3>2. g[c] = [g[e] EXCEPT !.frames = << body >> \o @]
        BY <2>1, <2>3, TurnTakes
      <3> HIDE DEF e
      <3>3. body \in Seq(Byte)
        BY <3>1, SliceAt
      <3>4. g[e] \in Walked /\ g[e].cursor \in e .. n
        BY <1>1, <3>1
      <3> HIDE DEF body
      <3>5. g[c] \in Walked /\ g[c].cursor = g[e].cursor
        BY <3>2, <3>3, <3>4, FrameAdded
      <3>6. QED
        BY <1>0, <2>1, <3>1, <3>4, <3>5
    <2>4. QED
      BY <2>2, <2>3
  <1> HIDE DEF Typed
  <1>2. \A c \in 0 .. n : (\A d \in c + 1 .. n : d \in P) => c \in P
    BY <1>1
  <1> HIDE DEF P, n
  <1>3. \A c \in 0 .. n : c \in P
    BY <1>0, <1>2, Downward
  <1>4. QED
    BY <1>3 DEF P, Typed, n

\* A tail of the buffer looks the same from the corresponding cursor.
LEMMA TailLooks ==
    ASSUME NEW b \in Seq(Byte), NEW k \in 0 .. Len(b), NEW c \in Nat, c <= Len(b) - k,
           NEW t, t = SubSeq(b, k + 1, Len(b))
    PROVE  /\ t \in Seq(Byte) /\ Len(t) = Len(b) - k
           /\ WholeAt(t, c) <=> WholeAt(b, k + c)
           /\ Oversize(t, c) <=> Oversize(b, k + c)
           /\ WholeAt(t, c) =>
                /\ FrameEnd(b, k + c) = k + FrameEnd(t, c)
                /\ SubSeq(t, c + PrefixLen + 1, FrameEnd(t, c)) =
                   SubSeq(b, (k + c) + PrefixLen + 1, FrameEnd(b, k + c))
  <1>0. Len(b) \in Nat /\ k \in Nat /\ k <= Len(b) /\ Len(b) <= Len(b)
    OBVIOUS
  <1>1. t \in Seq(Byte) /\ Len(t) = Len(b) - k /\ \A i \in 1 .. Len(b) - k : t[i] = b[k + i]
    BY <1>0, SliceAt
  <1>2. c + PrefixLen <= Len(t) <=> (k + c) + PrefixLen <= Len(b)
    BY <1>0, <1>1 DEF PrefixLen
  <1>3. ASSUME c + PrefixLen <= Len(t) PROVE SizeAt(t, c) = SizeAt(b, k + c)
    <2>1. c + 1 \in 1 .. Len(b) - k /\ c + 2 \in 1 .. Len(b) - k
      BY <1>0, <1>1, <1>3 DEF PrefixLen
    <2>2. k + (c + 1) = (k + c) + 1 /\ k + (c + 2) = (k + c) + 2
      BY <1>0
    <2>3. t[c + 1] = b[(k + c) + 1] /\ t[c + 2] = b[(k + c) + 2]
      BY <1>1, <2>1, <2>2
    <2>4. QED
      BY <2>3 DEF SizeAt
  <1>4. ASSUME c + PrefixLen <= Len(t) 
        PROVE  /\ FrameEnd(t, c) \in Nat /\ FrameEnd(b, k + c) = k + FrameEnd(t, c)
               /\ FrameEnd(t, c) <= Len(t) <=> FrameEnd(b, k + c) <= Len(b)
    <2>1. SizeAt(t, c) \in Nat
      BY <1>1, <1>4, SizeNat
    <2> DEFINE z == SizeAt(t, c)
    <2>2. FrameEnd(t, c) = c + PrefixLen + z /\ FrameEnd(b, k + c) = (k + c) + PrefixLen + z /\ z \in Nat
      BY <1>3, <1>4, <2>1 DEF FrameEnd
    <2> HIDE DEF z
    <2>3. QED
      BY <1>0, <1>1, <2>2 DEF PrefixLen
  <1>5. WholeAt(t, c) <=> WholeAt(b, k + c)
    BY <1>2, <1>3, <1>4 DEF WholeAt
  <1>6. Oversize(t, c) <=> Oversize(b, k + c)
    BY <1>2, <1>3 DEF Oversize
  <1>7. ASSUME WholeAt(t, c)
        PROVE  SubSeq(t, c + PrefixLen + 1, FrameEnd(t, c)) =
               SubSeq(b, (k + c) + PrefixLen + 1, FrameEnd(b, k + c))
    <2> DEFINE o == c + PrefixLen
               e == FrameEnd(t, c)
    <2>1. o \in Nat /\ e \in Nat /\ o <= e /\ e <= Len(b) - k
      BY <1>1, <1>7, EndIsLater DEF WholeAt
    <2>2. FrameEnd(b, k + c) = k + e /\ (k + c) + PrefixLen = k + o
      BY <1>0, <1>4, <1>7 DEF WholeAt, PrefixLen
    <2> HIDE DEF o, e
    <2>3. SubSeq(SubSeq(b, k + 1, Len(b)), o + 1, e) = SubSeq(b, (k + o) + 1, k + e)
      BY <2>1, SliceOfSlice
    <2>4. QED
      BY <2>2, <2>3 DEF o, e
  <1>8. QED
    BY <1>1, <1>4, <1>5, <1>6, <1>7 DEF WholeAt

\* The walk h over a tail goes from c as g does from k + c.
SameFrom(g, h, k, c) ==
    /\ h[c].ok = g[k + c].ok /\ h[c].frames = g[k + c].frames
    /\ g[k + c].cursor = k + h[c].cursor

\* The walk over a tail is the walk from there on.
LEMMA WalkTail ==
    ASSUME NEW b \in Seq(Byte), NEW g, WalkOf(b, g), NEW k \in 0 .. Len(b),
           NEW t, t = SubSeq(b, k + 1, Len(b)), NEW h, WalkOf(t, h)
    PROVE  \A c \in 0 .. Len(b) - k : SameFrom(g, h, k, c)
  <1> DEFINE n == Len(t)
             Same(c) == /\ h[c].ok = g[k + c].ok /\ h[c].frames = g[k + c].frames
                        /\ g[k + c].cursor = k + h[c].cursor
             P == {c \in 0 .. n : Same(c)}
  <1>0. Len(b) \in Nat /\ k \in Nat /\ n \in Nat /\ n = Len(b) - k /\ t \in Seq(Byte)
    <2>1. 0 \in Nat /\ 0 <= Len(b) - k /\ Len(b) \in Nat /\ k \in Nat
      OBVIOUS
    <2>2. t \in Seq(Byte) /\ Len(t) = Len(b) - k
      BY <2>1, TailLooks
    <2>3. QED
      BY <2>1, <2>2
  <1>1. ASSUME NEW c \in 0 .. n, \A d \in c + 1 .. n : d \in P PROVE Same(c)
    <2>0. c \in Nat /\ c <= Len(b) - k /\ k + c \in Nat /\ k + c \in 0 .. Len(b)
      BY <1>0
    <2>1. g[k + c] = WalkTurn(b, g, k + c) /\ h[c] = WalkTurn(t, h, c)
      BY <2>0 DEF WalkOf
    <2>2. /\ WholeAt(t, c) <=> WholeAt(b, k + c)
          /\ Oversize(t, c) <=> Oversize(b, k + c)
          /\ WholeAt(t, c) =>
               /\ FrameEnd(b, k + c) = k + FrameEnd(t, c)
               /\ SubSeq(t, c + PrefixLen + 1, FrameEnd(t, c)) =
                  SubSeq(b, (k + c) + PrefixLen + 1, FrameEnd(b, k + c))
      BY <2>0, TailLooks
    <2>3. CASE ~WholeAt(t, c)
      <3>1. h[c] = [ok |-> ~Oversize(t, c), frames |-> << >>, cursor |-> c]
        BY <1>0, <2>0, <2>1, <2>3, TurnStops
      <3>2. g[k + c] = [ok |-> ~Oversize(b, k + c), frames |-> << >>, cursor |-> k + c]
        BY <2>0, <2>1, <2>2, <2>3, TurnStops
      <3>3. (~Oversize(t, c)) = (~Oversize(b, k + c))
        BY <2>2
      <3>4. QED
        BY <3>1, <3>2, <3>3
    <2>4. CASE WholeAt(t, c)
      <3> DEFINE e == FrameEnd(t, c)
                 body == SubSeq(t, c + PrefixLen + 1, e)
                 x == g[k + e]
                 y == h[e]
                 gx == g[k + c]
                 hy == h[c]
      <3>1. e \in c + 1 .. n /\ e \in Nat /\ c + PrefixLen \in Nat /\ c + PrefixLen <= e /\ e <= n
        <4>1. /\ FrameEnd(t, c) \in c + 1 .. Len(t) /\ FrameEnd(t, c) \in Nat
              /\ c + PrefixLen \in Nat /\ c + PrefixLen <= FrameEnd(t, c)
          BY <1>0, <2>0, <2>4, EndIsLater
        <4>2. QED
          BY <1>0, <2>0, <4>1
      <3>2. hy = [y EXCEPT !.frames = << body >> \o @]
        BY <1>0, <2>0, <2>1, <2>4, TurnTakes
      <3>3. WholeAt(b, k + c) /\ FrameEnd(b, k + c) = k + e
            /\ body = SubSeq(b, (k + c) + PrefixLen + 1, FrameEnd(b, k + c))
        BY <2>2, <2>4
      <3>4. gx = [x EXCEPT !.frames = << body >> \o @]
        <4>1. WalkTurn(b, g, k + c) =
                [g[FrameEnd(b, k + c)] EXCEPT !.frames =
                   << SubSeq(b, (k + c) + PrefixLen + 1, FrameEnd(b, k + c)) >> \o @]
          BY <2>0, <3>3, TurnTakes
        <4> HIDE DEF body, e
        <4>2. QED
          BY <2>1, <3>3, <4>1
      <3> HIDE DEF e
      <3>5. body \in Seq(Byte)
        BY <1>0, <3>1, SliceAt
      <3>6. x \in Walked /\ y \in Walked
        <4>1. k + e \in 0 .. Len(b) /\ e \in 0 .. Len(t)
          BY <1>0, <3>1
        <4>2. QED
          BY <1>0, <4>1, WalkTyped
      <3>7. y.ok = x.ok /\ y.frames = x.frames /\ x.cursor = k + y.cursor
        BY <1>1, <3>1
      <3> HIDE DEF body, x, y, gx, hy
      <3>8. hy.ok = y.ok /\ hy.frames = << body >> \o y.frames /\ hy.cursor = y.cursor
        BY <3>2, <3>5, <3>6, FrameAdded
      <3>9. gx.ok = x.ok /\ gx.frames = << body >> \o x.frames /\ gx.cursor = x.cursor
        BY <3>4, <3>5, <3>6, FrameAdded
      <3>10. hy.ok = gx.ok /\ hy.frames = gx.frames /\ gx.cursor = k + hy.cursor
        BY <3>7, <3>8, <3>9
      <3>11. QED
        BY <3>10 DEF gx, hy
    <2>5. QED
      BY <2>3, <2>4
  <1> HIDE DEF Same
  <1>2. \A c \in 0 .. n : (\A d \in c + 1 .. n : d \in P) => c \in P
    BY <1>1
  <1> HIDE DEF P, n
  <1>3. \A c \in 0 .. n : c \in P
    BY <1>0, <1>2, Downward
  <1>4. QED
    BY <1>0, <1>3 DEF P, Same, SameFrom

\* unpack_all_frames, by the walk.
LEMMA UnpackByWalk ==
    ASSUME NEW b \in Seq(Byte)
    PROVE  \E g : /\ WalkOf(b, g) /\ CursorWalk(b) = g[0]
                  /\ g[0] \in Walked /\ g[0].cursor \in 0 .. Len(b)
                  /\ unpack_all_frames(b).ok = g[0].ok
                  /\ g[0].ok =>
                       /\ unpack_all_frames(b).frames = g[0].frames
                       /\ unpack_all_frames(b).rest = SubSeq(b, g[0].cursor + 1, Len(b))
  <1>1. PICK g : g = [c \in 0 .. Len(b) |-> WalkTurn(b, g, c)] /\ CursorWalk(b) = g[0]
    BY CursorWalkIs
  <1>2. WalkOf(b, g)
    BY <1>1 DEF WalkOf
  <1>3. 0 \in 0 .. Len(b)
    OBVIOUS
  <1>4. g[0] \in Walked /\ g[0].cursor \in 0 .. Len(b)
    BY <1>2, <1>3, WalkTyped
  <1> DEFINE end == g[0]
  <1>5. end.ok \in BOOLEAN /\ CursorWalk(b) = end
    BY <1>1, <1>4 DEF Walked
  <1> HIDE DEF end
  <1>6. /\ unpack_all_frames(b).ok = end.ok
        /\ end.ok => /\ unpack_all_frames(b).frames = end.frames
                   /\ unpack_all_frames(b).rest = SubSeq(b, end.cursor + 1, Len(b))
    BY <1>5 DEF unpack_all_frames
  <1>7. QED
    BY <1>1, <1>2, <1>4, <1>6 DEF end

IsFront(p, b, k) == p = SubSeq(b, 1, k)

LEMMA ConsConcat ==
    ASSUME NEW body \in Seq(Byte), NEW s \in Seq(Seq(Byte)), NEW t \in Seq(Seq(Byte))
    PROVE  (<< body >> \o s) \o t = << body >> \o (s \o t)
  <1> DEFINE h == << body >>
             S == Seq(Byte)
  <1>1. h \in Seq(S) /\ s \in Seq(S) /\ t \in Seq(S)
    OBVIOUS
  <1> HIDE DEF h, S
  <1>2. (h \o s) \o t = h \o (s \o t)
    BY <1>1, ConcatAssociative
  <1>3. QED
    BY <1>2 DEF h

\* A whole frame or an oversize prefix in a part from the front is one in the
\* whole.
LEMMA FrontLooks ==
    ASSUME NEW b \in Seq(Byte), NEW k \in 0 .. Len(b), NEW c \in Nat,
           NEW p, IsFront(p, b, k)
    PROVE  /\ p \in Seq(Byte) /\ Len(p) = k
           /\ Oversize(p, c) => Oversize(b, c)
           /\ WholeAt(p, c) =>
                /\ WholeAt(b, c) /\ FrameEnd(b, c) = FrameEnd(p, c)
                /\ SubSeq(p, c + PrefixLen + 1, FrameEnd(p, c)) =
                   SubSeq(b, c + PrefixLen + 1, FrameEnd(p, c))
  <1>0. Len(b) \in Nat /\ k \in Nat /\ 0 \in Nat /\ 0 <= k /\ k <= Len(b) /\ 0 + 1 = 1 /\ k - 0 = k
    OBVIOUS
  <1>1. p \in Seq(Byte) /\ Len(p) = k /\ \A i \in 1 .. k : p[i] = b[i]
    <2>1. /\ SubSeq(b, 0 + 1, k) \in Seq(Byte) /\ Len(SubSeq(b, 0 + 1, k)) = k - 0
          /\ \A i \in 1 .. k - 0 : SubSeq(b, 0 + 1, k)[i] = b[0 + i]
      BY <1>0, SliceAt
    <2>2. QED
      BY <1>0, <2>1 DEF IsFront
  <1>2. ASSUME c + PrefixLen <= Len(p)
        PROVE  c + PrefixLen <= Len(b) /\ SizeAt(p, c) = SizeAt(b, c)
    <2>1. c + PrefixLen <= Len(b) /\ c + 1 \in 1 .. k /\ c + 2 \in 1 .. k
      BY <1>0, <1>1, <1>2 DEF PrefixLen
    <2>2. QED
      BY <1>1, <2>1 DEF SizeAt
  <1>3. Oversize(p, c) => Oversize(b, c)
    BY <1>2 DEF Oversize
  <1>4. ASSUME WholeAt(p, c)
        PROVE  /\ WholeAt(b, c) /\ FrameEnd(b, c) = FrameEnd(p, c)
               /\ SubSeq(p, c + PrefixLen + 1, FrameEnd(p, c)) =
                  SubSeq(b, c + PrefixLen + 1, FrameEnd(p, c))
    <2> DEFINE o == c + PrefixLen
               e == FrameEnd(p, c)
    <2>1. o \in Nat /\ e \in Nat /\ o <= e /\ e <= k
      BY <1>1, <1>4, EndIsLater DEF WholeAt
    <2>2. FrameEnd(b, c) = e
      BY <1>2, <1>4 DEF WholeAt, FrameEnd
    <2>3. WholeAt(b, c)
      BY <1>0, <1>2, <1>4, <2>1, <2>2 DEF WholeAt
    <2> HIDE DEF o, e
    <2>4. SubSeq(p, o + 1, e) = SubSeq(b, o + 1, e)
      <3> DEFINE u == SubSeq(p, o + 1, e)
      <3>1. u \in Seq(Byte) /\ Len(u) = e - o /\ \A i \in 1 .. e - o : u[i] = p[o + i]
        BY <1>1, <2>1, SliceAt
      <3>2. ASSUME NEW i \in 1 .. e - o PROVE u[i] = b[o + i]
        <4>1. o + i \in 1 .. k
          BY <1>0, <2>1
        <4>2. QED
          BY <1>1, <3>1, <4>1
      <3> HIDE DEF u
      <3>3. e <= Len(b)
        BY <1>0, <2>1
      <3>4. u = SubSeq(b, o + 1, e)
        BY <2>1, <3>1, <3>2, <3>3, SliceIs
      <3>5. QED
        BY <3>4 DEF u
    <2>5. QED
      BY <2>2, <2>3, <2>4 DEF o, e
  <1>5. QED
    BY <1>1, <1>3, <1>4

\* From c, where the walk h stops g passes, with the same frames so far.
PassesAt(g, h, c) ==
    g[c].ok => /\ h[c].ok /\ g[h[c].cursor].ok
               /\ h[c].frames \o g[h[c].cursor].frames = g[c].frames
               /\ g[h[c].cursor].cursor = g[c].cursor

\* Where a walk over a part from the front stops, the walk over the whole
\* passes, with the same frames so far.
LEMMA WalkFront ==
    ASSUME NEW b \in Seq(Byte), NEW g, WalkOf(b, g), NEW k \in 0 .. Len(b),
           NEW p, IsFront(p, b, k), NEW h, WalkOf(p, h)
    PROVE  \A c \in 0 .. k : PassesAt(g, h, c)
  <1> DEFINE Passes(c) == g[c].ok =>
                            /\ h[c].ok /\ g[h[c].cursor].ok
                            /\ h[c].frames \o g[h[c].cursor].frames = g[c].frames
                            /\ g[h[c].cursor].cursor = g[c].cursor
             P == {c \in 0 .. k : Passes(c)}
  <1>0. /\ b \in Seq(Byte) /\ k \in 0 .. Len(b) /\ IsFront(p, b, k)
        /\ Len(b) \in Nat /\ k \in Nat /\ k <= Len(b)
    OBVIOUS
  <1>00. p \in Seq(Byte) /\ Len(p) = k
    <2>1. 0 \in Nat
      OBVIOUS
    <2>2. QED
      BY <2>1, FrontLooks
  <1>1. ASSUME NEW c \in 0 .. k, \A d \in c + 1 .. k : d \in P, g[c].ok
        PROVE  /\ h[c].ok /\ g[h[c].cursor].ok
               /\ h[c].frames \o g[h[c].cursor].frames = g[c].frames
               /\ g[h[c].cursor].cursor = g[c].cursor
    <2>0. c \in Nat /\ c \in 0 .. Len(b) /\ c \in 0 .. Len(p)
      BY <1>0, <1>00
    <2>1. g[c] = WalkTurn(b, g, c) /\ h[c] = WalkTurn(p, h, c)
      BY <2>0 DEF WalkOf
    <2>2. /\ Oversize(p, c) => Oversize(b, c)
          /\ WholeAt(p, c) =>
               /\ WholeAt(b, c) /\ FrameEnd(b, c) = FrameEnd(p, c)
               /\ SubSeq(p, c + PrefixLen + 1, FrameEnd(p, c)) =
                  SubSeq(b, c + PrefixLen + 1, FrameEnd(p, c))
      BY ONLY <1>0, <2>0, FrontLooks
    <2>3. CASE ~WholeAt(p, c)
      <3>1. h[c] = [ok |-> ~Oversize(p, c), frames |-> << >>, cursor |-> c]
        BY <1>00, <2>0, <2>1, <2>3, TurnStops
      <3>2. ~Oversize(b, c)
        <4>1. SUFFICES ASSUME Oversize(b, c) PROVE FALSE
          OBVIOUS
        <4>2. ~WholeAt(b, c)
          BY <4>1 DEF Oversize, WholeAt
        <4>3. g[c] = [ok |-> ~Oversize(b, c), frames |-> << >>, cursor |-> c]
          BY <2>0, <2>1, <4>2, TurnStops
        <4>4. g[c].ok = (~Oversize(b, c))
          BY ONLY <4>3
        <4>5. QED
          BY ONLY <1>1, <4>1, <4>4
      <3>3. h[c].ok /\ h[c].frames = << >> /\ h[c].cursor = c
        <4>1. h[c].ok = (~Oversize(p, c)) /\ h[c].frames = << >> /\ h[c].cursor = c
          BY ONLY <3>1
        <4>2. ~Oversize(p, c)
          BY <2>2, <3>2
        <4>3. QED
          BY ONLY <4>1, <4>2
      <3>4. g[c].frames \in Seq(Seq(Byte))
        BY <2>0, WalkTyped DEF Walked
      <3>5. << >> \o g[c].frames = g[c].frames
        BY <3>4, ConcatEmptySeq
      <3>6. QED
        BY <1>1, <3>3, <3>5
    <2>4. CASE WholeAt(p, c)
      <3> DEFINE e == FrameEnd(p, c)
                 body == SubSeq(p, c + PrefixLen + 1, e)
                 x == g[e]
                 y == h[e]
                 gx == g[c]
                 hy == h[c]
                 z == g[h[e].cursor]
      <3>1. e \in c + 1 .. k /\ e \in Nat /\ c + PrefixLen \in Nat /\ c + PrefixLen <= e /\ e <= k
        <4>1. /\ FrameEnd(p, c) \in c + 1 .. Len(p) /\ FrameEnd(p, c) \in Nat
              /\ c + PrefixLen \in Nat /\ c + PrefixLen <= FrameEnd(p, c)
          BY <1>00, <2>0, <2>4, EndIsLater
        <4>2. QED
          BY <1>0, <1>00, <2>0, <4>1
      <3>2. hy = [y EXCEPT !.frames = << body >> \o @]
        BY <1>00, <2>0, <2>1, <2>4, TurnTakes
      <3>3. WholeAt(b, c) /\ FrameEnd(b, c) = e
            /\ body = SubSeq(b, c + PrefixLen + 1, e)
        BY <2>2, <2>4
      <3>4. gx = [x EXCEPT !.frames = << body >> \o @]
        <4>1. WalkTurn(b, g, c) =
                [g[FrameEnd(b, c)] EXCEPT !.frames =
                   << SubSeq(b, c + PrefixLen + 1, FrameEnd(b, c)) >> \o @]
          BY <2>0, <3>3, TurnTakes
        <4> HIDE DEF body, e
        <4>2. QED
          BY <2>1, <3>3, <4>1
      <3> HIDE DEF e
      <3>5. body \in Seq(Byte)
        BY <1>00, <3>1, SliceAt
      <3>6. x \in Walked /\ y \in Walked /\ z \in Walked
        <4>1. e \in 0 .. Len(b) /\ e \in 0 .. Len(p)
          BY <1>0, <1>00, <3>1
        <4>2. g[e] \in Walked /\ h[e] \in Walked /\ h[e].cursor \in e .. Len(p)
          BY <1>00, <4>1, WalkTyped
        <4>3. h[e].cursor \in 0 .. Len(b)
          BY <1>0, <1>00, <4>1, <4>2
        <4>4. QED
          BY <4>2, <4>3, WalkTyped
      <3>7. Passes(e)
        BY <1>1, <3>1
      <3>8. x.ok => y.ok /\ z.ok /\ y.frames \o z.frames = x.frames /\ z.cursor = x.cursor
        BY <3>7
      <3> HIDE DEF body, x, y, gx, hy, z
      <3>9. hy.ok = y.ok /\ hy.frames = << body >> \o y.frames /\ hy.cursor = y.cursor
        BY <3>2, <3>5, <3>6, FrameAdded
      <3>10. gx.ok = x.ok /\ gx.frames = << body >> \o x.frames /\ gx.cursor = x.cursor
        BY <3>4, <3>5, <3>6, FrameAdded
      <3>11. gx.ok
        BY <1>1 DEF gx
      <3>12. x.ok /\ y.ok /\ z.ok /\ y.frames \o z.frames = x.frames /\ z.cursor = x.cursor
        BY <3>8, <3>10, <3>11
      <3>13. (<< body >> \o y.frames) \o z.frames = << body >> \o (y.frames \o z.frames)
        <4>1. y.frames \in Seq(Seq(Byte)) /\ z.frames \in Seq(Seq(Byte))
          BY <3>6 DEF Walked
        <4>2. QED
          BY ONLY <3>5, <4>1, ConsConcat
      <3>14. hy.ok /\ z.ok /\ hy.frames \o z.frames = gx.frames /\ z.cursor = gx.cursor
        BY <3>9, <3>10, <3>12, <3>13
      <3>15. z = g[hy.cursor]
        BY <3>9 DEF z, y
      <3>16. QED
        BY <3>14, <3>15 DEF gx, hy
    <2>5. QED
      BY <2>3, <2>4
  <1>2. \A c \in 0 .. k : (\A d \in c + 1 .. k : d \in P) => c \in P
    BY <1>1
  <1> HIDE DEF P
  <1>3. \A c \in 0 .. k : c \in P
    BY <1>0, <1>2, Downward
  <1>4. QED
    BY <1>3 DEF P, PassesAt

\* What is left of a part from the front, with the remainder, is a tail.
LEMMA RestIsTail ==
    ASSUME NEW b \in Seq(Byte), NEW k \in 0 .. Len(b), NEW p, IsFront(p, b, k),
           NEW d \in 0 .. k
    PROVE  SubSeq(p, d + 1, Len(p)) \o SubSeq(b, k + 1, Len(b)) = SubSeq(b, d + 1, Len(b))
  <1> DEFINE n == Len(b)
             u == SubSeq(p, d + 1, k)
             v == SubSeq(b, k + 1, n)
             z == u \o v
  <1>0. n \in Nat /\ k \in Nat /\ d \in Nat /\ d <= k /\ k <= n /\ n <= Len(b) /\ 0 \in Nat /\ d <= n
    OBVIOUS
  <1>1. p \in Seq(Byte) /\ Len(p) = k
    BY <1>0, FrontLooks
  <1>2. \A i \in 1 .. k : p[i] = b[i]
    BY <1>0 DEF IsFront
  <1>3. u \in Seq(Byte) /\ Len(u) = k - d /\ \A i \in 1 .. k - d : u[i] = p[d + i]
    BY <1>0, <1>1, SliceAt
  <1>4. v \in Seq(Byte) /\ Len(v) = n - k /\ \A i \in 1 .. n - k : v[i] = b[k + i]
    BY <1>0, SliceAt
  <1>5. z = u \o v /\ u \in Seq(Byte) /\ v \in Seq(Byte)
    BY <1>3, <1>4
  <1> HIDE DEF u, v, z, n
  <1>6. /\ z \in Seq(Byte) /\ Len(z) = Len(u) + Len(v)
        /\ \A i \in 1 .. Len(u) : z[i] = u[i]
        /\ \A i \in 1 .. Len(v) : z[Len(u) + i] = v[i]
    BY ONLY <1>5, ConcatElems
  <1>7. Len(z) = n - d
    BY <1>0, <1>3, <1>4, <1>6
  <1>8. ASSUME NEW i \in 1 .. n - d PROVE z[i] = b[d + i]
    <2>1. CASE i <= k - d
      <3>1. i \in 1 .. k - d /\ i \in 1 .. Len(u) /\ d + i \in 1 .. k
        BY <1>0, <1>3, <2>1
      <3>2. QED
        BY <1>2, <1>3, <1>6, <3>1
    <2>2. CASE ~(i <= k - d)
      <3> DEFINE j == i - (k - d)
      <3>1. j \in 1 .. n - k /\ j \in 1 .. Len(v) /\ Len(u) + j = i /\ k + j = d + i
        BY <1>0, <1>3, <1>4, <2>2
      <3> HIDE DEF j
      <3>2. z[Len(u) + j] = v[j] /\ v[j] = b[k + j]
        BY <1>4, <1>6, <3>1
      <3>3. QED
        BY <3>1, <3>2
    <2>3. QED
      BY <2>1, <2>2
  <1>9. z = SubSeq(b, d + 1, n)
    BY <1>0, <1>6, <1>7, <1>8, SliceIs
  <1>10. QED
    BY <1>1, <1>9 DEF z, u, v, n

\* b unpacks as p and then q do.
Joins(b, p, q) ==
    /\ unpack_all_frames(p).ok /\ unpack_all_frames(q).ok
    /\ unpack_all_frames(p).frames \o unpack_all_frames(q).frames = unpack_all_frames(b).frames
    /\ unpack_all_frames(q).rest = unpack_all_frames(b).rest

\* Unpacking up to a cut and then the rest is unpacking the whole.
LEMMA CutAgrees ==
    ASSUME NEW b \in Seq(Byte), unpack_all_frames(b).ok, NEW k \in 0 .. Len(b),
           NEW p, IsFront(p, b, k),
           NEW q, q = unpack_all_frames(p).rest \o SubSeq(b, k + 1, Len(b))
    PROVE  Joins(b, p, q)
  <1> DEFINE n == Len(b)
  <1>0. n \in Nat /\ k \in Nat /\ k <= n /\ 0 \in Nat /\ 0 \in 0 .. k /\ 0 \in 0 .. n
    OBVIOUS
  <1>1. p \in Seq(Byte) /\ Len(p) = k
    BY <1>0, FrontLooks
  <1>2. PICK g : /\ WalkOf(b, g) /\ g[0] \in Walked /\ g[0].cursor \in 0 .. n
                 /\ unpack_all_frames(b).ok = g[0].ok
                 /\ g[0].ok =>
                      /\ unpack_all_frames(b).frames = g[0].frames
                      /\ unpack_all_frames(b).rest = SubSeq(b, g[0].cursor + 1, n)
    BY UnpackByWalk
  <1>3. PICK h : /\ WalkOf(p, h) /\ h[0] \in Walked /\ h[0].cursor \in 0 .. Len(p)
                 /\ unpack_all_frames(p).ok = h[0].ok
                 /\ h[0].ok =>
                      /\ unpack_all_frames(p).frames = h[0].frames
                      /\ unpack_all_frames(p).rest = SubSeq(p, h[0].cursor + 1, Len(p))
    BY <1>1, UnpackByWalk
  <1>4. g[0].ok
    BY <1>2
  <1>5. /\ h[0].ok /\ g[h[0].cursor].ok
        /\ h[0].frames \o g[h[0].cursor].frames = g[0].frames
        /\ g[h[0].cursor].cursor = g[0].cursor
    <2>1. /\ b \in Seq(Byte) /\ WalkOf(b, g) /\ k \in 0 .. Len(b) /\ IsFront(p, b, k)
          /\ WalkOf(p, h) /\ 0 \in 0 .. k
      BY <1>0, <1>2, <1>3
    <2>2. PassesAt(g, h, 0)
      BY ONLY <2>1, WalkFront
    <2>3. QED
      BY ONLY <1>4, <2>2 DEF PassesAt
  <1>6. PICK d \in 0 .. k : d = h[0].cursor
    BY <1>1, <1>3
  <1>7. q = SubSeq(b, d + 1, n)
    <2>1. SubSeq(p, d + 1, Len(p)) \o SubSeq(b, k + 1, n) = SubSeq(b, d + 1, n)
      BY RestIsTail
    <2>2. QED
      BY <1>3, <1>5, <1>6, <2>1
  <1>8. d \in 0 .. Len(b) /\ d \in Nat /\ d + 0 = d /\ 0 \in 0 .. Len(b) - d /\ 0 <= Len(b) - d
    BY <1>0
  <1>9. q \in Seq(Byte) /\ Len(q) = n - d
    BY <1>0, <1>7, <1>8, TailLooks
  <1>10. PICK e : /\ WalkOf(q, e) /\ e[0] \in Walked /\ e[0].cursor \in 0 .. Len(q)
                  /\ unpack_all_frames(q).ok = e[0].ok
                  /\ e[0].ok =>
                       /\ unpack_all_frames(q).frames = e[0].frames
                       /\ unpack_all_frames(q).rest = SubSeq(q, e[0].cursor + 1, Len(q))
    BY <1>9, UnpackByWalk
  <1>11. e[0].ok = g[d + 0].ok /\ e[0].frames = g[d + 0].frames /\ g[d + 0].cursor = d + e[0].cursor
    <2>1. /\ b \in Seq(Byte) /\ WalkOf(b, g) /\ d \in 0 .. Len(b)
          /\ q = SubSeq(b, d + 1, Len(b)) /\ WalkOf(q, e) /\ 0 \in 0 .. Len(b) - d
      BY <1>2, <1>7, <1>8, <1>10
    <2>2. SameFrom(g, e, d, 0)
      BY ONLY <2>1, WalkTail
    <2>3. QED
      BY ONLY <2>2 DEF SameFrom
  <1>12. e[0].ok /\ e[0].frames = g[d].frames /\ g[0].cursor = d + e[0].cursor
    BY <1>5, <1>6, <1>8, <1>11
  <1>13. SubSeq(q, e[0].cursor + 1, Len(q)) = SubSeq(b, g[0].cursor + 1, n)
    <2> DEFINE x == e[0].cursor
    <2>0. x \in 0 .. Len(q)
      BY <1>10
    <2> HIDE DEF x
    <2>1. x \in Nat /\ n - d \in Nat /\ x <= n - d /\ n - d <= Len(b) - d /\ d + (n - d) = n
      <3>1. Len(b) \in Nat /\ d \in Nat /\ d <= Len(b) /\ Len(q) = Len(b) - d
        BY ONLY <1>0, <1>8, <1>9
      <3>2. QED
        BY ONLY <2>0, <3>1
    <2>2. SubSeq(SubSeq(b, d + 1, Len(b)), x + 1, n - d) = SubSeq(b, (d + x) + 1, d + (n - d))
      BY <1>8, <2>1, SliceOfSlice
    <2>3. QED
      BY <1>7, <1>9, <1>12, <2>1, <2>2 DEF x
  <1>14. unpack_all_frames(q).rest = unpack_all_frames(b).rest
    BY <1>2, <1>4, <1>10, <1>12, <1>13
  <1>15. unpack_all_frames(p).frames \o unpack_all_frames(q).frames = unpack_all_frames(b).frames
    BY <1>2, <1>3, <1>4, <1>5, <1>6, <1>10, <1>12
  <1>16. QED
    BY <1>3, <1>5, <1>10, <1>12, <1>14, <1>15 DEF Joins

\* One call of try_unpack_frame, given what the later ones come to.
OneTurn(f, b) ==
    LET t == try_unpack_frame(b)
    IN  IF t.status = "frame"
        THEN [f[t.rest] EXCEPT !.frames = << t.body >> \o @]
        ELSE [ok |-> t.status = "none", frames |-> << >>, rest |-> b]

LEMMA TryStops ==
    ASSUME NEW b \in Seq(Byte), NEW f, ~WholeAt(b, 0)
    PROVE  OneTurn(f, b) = [ok |-> ~Oversize(b, 0), frames |-> << >>, rest |-> b]
  <1>0. Len(b) \in Nat /\ MaxFrameBytes \in Nat /\ 0 \in Nat /\ 0 + PrefixLen = PrefixLen
    BY ProtocolAssumption DEF PrefixLen
  <1> DEFINE t == try_unpack_frame(b)
  <1>1. \/ t.status = "none" /\ Oversize(b, 0) = FALSE
        \/ t.status = "err" /\ Oversize(b, 0) = TRUE
    <2>1. CASE Len(b) < PrefixLen
      <3>1. Oversize(b, 0) = FALSE
        BY <1>0, <2>1 DEF Oversize, PrefixLen
      <3>2. t.status = "none"
        BY <2>1 DEF try_unpack_frame
      <3>3. QED
        BY <3>1, <3>2
    <2>2. CASE ~(Len(b) < PrefixLen)
      <3>1. 0 + PrefixLen <= Len(b)
        BY <1>0, <2>2 DEF PrefixLen
      <3>2. SizeAt(b, 0) \in Nat
        BY <1>0, <3>1, SizeNat
      <3>3. CASE SizeAt(b, 0) > MaxFrameBytes
        <4>1. Oversize(b, 0) = TRUE
          BY <3>1, <3>3 DEF Oversize
        <4>2. t.status = "err"
          BY <2>2, <3>3 DEF try_unpack_frame
        <4>3. QED
          BY <4>1, <4>2
      <3>4. CASE ~(SizeAt(b, 0) > MaxFrameBytes)
        <4>1. Oversize(b, 0) = FALSE
          BY <3>4 DEF Oversize
        <4>2. Len(b) < PrefixLen + SizeAt(b, 0)
          BY <1>0, <3>1, <3>2, <3>4 DEF WholeAt, FrameEnd, PrefixLen
        <4>3. t.status = "none"
          BY <2>2, <3>4, <4>2 DEF try_unpack_frame
        <4>4. QED
          BY <4>1, <4>3
      <3>5. QED
        BY <3>3, <3>4
    <2>3. QED
      BY <2>1, <2>2
  <1> HIDE DEF t
  <1>2. t.status # "frame" /\ (t.status = "none") = (~Oversize(b, 0))
    BY <1>1
  <1>3. OneTurn(f, b) = [ok |-> t.status = "none", frames |-> << >>, rest |-> b]
    BY <1>2 DEF OneTurn, t
  <1>4. QED
    BY ONLY <1>2, <1>3

LEMMA TryTakes ==
    ASSUME NEW b \in Seq(Byte), NEW f, WholeAt(b, 0), NEW e, e = FrameEnd(b, 0)
    PROVE  OneTurn(f, b) = [f[SubSeq(b, e + 1, Len(b))] EXCEPT !.frames =
                              << SubSeq(b, 0 + PrefixLen + 1, e) >> \o @]
  <1>0. Len(b) \in Nat /\ MaxFrameBytes \in Nat /\ 0 \in Nat /\ 0 + PrefixLen = PrefixLen
    BY ProtocolAssumption DEF PrefixLen
  <1> DEFINE t == try_unpack_frame(b)
  <1>1. SizeAt(b, 0) \in Nat /\ e = PrefixLen + SizeAt(b, 0) /\ e <= Len(b)
    BY <1>0, EndIsLater DEF FrameEnd, WholeAt
  <1>2. ~(Len(b) < PrefixLen) /\ ~(SizeAt(b, 0) > MaxFrameBytes) /\ ~(Len(b) < PrefixLen + SizeAt(b, 0))
    BY <1>0, <1>1 DEF WholeAt, PrefixLen
  <1>3. t = [status |-> "frame", body |-> SubSeq(b, PrefixLen + 1, PrefixLen + SizeAt(b, 0)),
             rest |-> SubSeq(b, PrefixLen + SizeAt(b, 0) + 1, Len(b))]
    BY <1>2 DEF try_unpack_frame
  <1> HIDE DEF t
  <1>4. t.status = "frame" /\ t.body = SubSeq(b, 0 + PrefixLen + 1, e) /\ t.rest = SubSeq(b, e + 1, Len(b))
    <2>1. /\ t.status = "frame" /\ t.body = SubSeq(b, PrefixLen + 1, PrefixLen + SizeAt(b, 0))
          /\ t.rest = SubSeq(b, PrefixLen + SizeAt(b, 0) + 1, Len(b))
      BY ONLY <1>3
    <2>2. PrefixLen + SizeAt(b, 0) = e /\ 0 + PrefixLen = PrefixLen
      BY <1>0, <1>1
    <2>3. QED
      BY ONLY <2>1, <2>2
  <1>5. QED
    BY <1>4 DEF OneTurn, t

\* What the calls come to, by the walk.
ByWalk(b) == [ok |-> CursorWalk(b).ok, frames |-> CursorWalk(b).frames,
              rest |-> SubSeq(b, CursorWalk(b).cursor + 1, Len(b))]

LEMMA PutInFront ==
    ASSUME NEW o, NEW fs, NEW x, NEW s, NEW old, old = [ok |-> o, frames |-> fs, rest |-> x]
    PROVE  [old EXCEPT !.frames = s] = [ok |-> o, frames |-> s, rest |-> x]
  OBVIOUS

LEMMA ByWalkTurn ==
    ASSUME NEW b \in Seq(Byte), NEW f, f = [x \in Seq(Byte) |-> ByWalk(x)]
    PROVE  ByWalk(b) = OneTurn(f, b)
  <1> DEFINE n == Len(b)
  <1>0. n \in Nat /\ 0 \in Nat /\ 0 \in 0 .. n
    OBVIOUS
  <1>1. PICK g : /\ WalkOf(b, g) /\ CursorWalk(b) = g[0]
                 /\ g[0] \in Walked /\ g[0].cursor \in 0 .. n
    BY UnpackByWalk
  <1>2. g[0] = WalkTurn(b, g, 0)
    BY <1>0, <1>1 DEF WalkOf
  <1>3. CASE ~WholeAt(b, 0)
    <2>1. g[0] = [ok |-> ~Oversize(b, 0), frames |-> << >>, cursor |-> 0]
      BY <1>0, <1>2, <1>3, TurnStops
    <2>2. SubSeq(b, 0 + 1, n) = b
      BY <1>0
    <2>3. ByWalk(b) = [ok |-> ~Oversize(b, 0), frames |-> << >>, rest |-> b]
      BY ONLY <1>1, <2>1, <2>2 DEF ByWalk
    <2>4. QED
      BY <1>3, <2>3, TryStops
  <1>4. CASE WholeAt(b, 0)
    <2>1. PICK e \in 1 .. n : e = FrameEnd(b, 0) /\ 0 + PrefixLen \in Nat /\ 0 + PrefixLen <= e
      BY <1>0, <1>4, EndIsLater
    <2> DEFINE body == SubSeq(b, 0 + PrefixLen + 1, e)
               t == SubSeq(b, e + 1, n)
    <2>2. e \in Nat /\ e <= n /\ e \in 0 .. n /\ 0 <= n - e /\ 0 \in 0 .. n - e
      BY <1>0
    <2>3. body \in Seq(Byte)
      BY <2>1, <2>2, SliceAt
    <2>4. t = SubSeq(b, e + 1, n)
      OBVIOUS
    <2> HIDE DEF t
    <2>5. t \in Seq(Byte) /\ Len(t) = n - e
      BY <1>0, <2>2, <2>4, TailLooks
    <2>6. PICK h : /\ WalkOf(t, h) /\ CursorWalk(t) = h[0]
                   /\ h[0] \in Walked /\ h[0].cursor \in 0 .. Len(t)
      BY <2>5, UnpackByWalk
    <2>7. SameFrom(g, h, e, 0)
      <3>1. /\ b \in Seq(Byte) /\ WalkOf(b, g) /\ e \in 0 .. Len(b)
            /\ t = SubSeq(b, e + 1, Len(b)) /\ WalkOf(t, h) /\ 0 \in 0 .. Len(b) - e
        BY <1>1, <2>2, <2>4, <2>6
      <3>2. QED
        BY ONLY <3>1, WalkTail
    <2>8. e + 0 = e
      BY <2>2
    <2>9. h[0].ok = g[e].ok /\ h[0].frames = g[e].frames /\ g[e].cursor = e + h[0].cursor
      BY ONLY <2>7, <2>8 DEF SameFrom
    <2>10. g[0] = [g[e] EXCEPT !.frames = << body >> \o @]
      BY <1>0, <1>2, <1>4, <2>1, TurnTakes
    <2>11. g[e] \in Walked
      BY <1>1, <2>2, WalkTyped
    <2> HIDE DEF body
    <2>12. g[0].ok = g[e].ok /\ g[0].frames = << body >> \o g[e].frames /\ g[0].cursor = g[e].cursor
      BY ONLY <2>3, <2>10, <2>11, FrameAdded
    <2> DEFINE x == h[0].cursor
    <2>13. x \in 0 .. Len(t)
      BY <2>6
    <2>14. SubSeq(t, x + 1, Len(t)) = SubSeq(b, (e + x) + 1, n)
      <3> HIDE DEF x
      <3>1. x \in Nat /\ n - e \in Nat /\ x <= n - e /\ e + (n - e) = n
        BY ONLY <1>0, <2>2, <2>5, <2>13
      <3>2. n - e <= Len(b) - e
        BY <1>0, <2>2
      <3>3. SubSeq(SubSeq(b, e + 1, Len(b)), x + 1, n - e) = SubSeq(b, (e + x) + 1, e + (n - e))
        BY <2>2, <3>1, <3>2, SliceOfSlice
      <3>4. QED
        BY <2>4, <2>5, <3>1, <3>3
    <2>15. ByWalk(t) = [ok |-> h[0].ok, frames |-> h[0].frames, rest |-> SubSeq(b, (e + x) + 1, n)]
      BY ONLY <2>6, <2>14 DEF ByWalk
    <2>16. ByWalk(b) = [ok |-> g[0].ok, frames |-> g[0].frames, rest |-> SubSeq(b, g[0].cursor + 1, n)]
      BY ONLY <1>1 DEF ByWalk
    <2>17. ByWalk(b) = [ByWalk(t) EXCEPT !.frames = << body >> \o @]
      <3>1. ByWalk(b) = [ok |-> h[0].ok, frames |-> << body >> \o h[0].frames,
                         rest |-> SubSeq(b, (e + x) + 1, n)]
        BY ONLY <2>9, <2>12, <2>16
      <3>2. PICK o, fs, y : o = h[0].ok /\ fs = h[0].frames /\ y = SubSeq(b, (e + x) + 1, n)
        OBVIOUS
      <3>3. /\ ByWalk(b) = [ok |-> o, frames |-> << body >> \o fs, rest |-> y]
            /\ ByWalk(t) = [ok |-> o, frames |-> fs, rest |-> y]
        BY ONLY <2>15, <3>1, <3>2
      <3>4. PICK s, old : s = << body >> \o fs /\ old = ByWalk(t)
        OBVIOUS
      <3>5. old = [ok |-> o, frames |-> fs, rest |-> y] /\ ByWalk(b) = [ok |-> o, frames |-> s, rest |-> y]
        BY ONLY <3>3, <3>4
      <3>6. ByWalk(b) = [old EXCEPT !.frames = s]
        BY ONLY <3>5, PutInFront
      <3>7. old.frames = fs
        BY ONLY <3>5
      <3>8. QED
        BY ONLY <3>4, <3>6, <3>7
    <2>18. f[t] = ByWalk(t)
      BY <2>5
    <2>19. OneTurn(f, b) = [f[t] EXCEPT !.frames = << body >> \o @]
      <3>1. OneTurn(f, b) = [f[SubSeq(b, e + 1, Len(b))] EXCEPT !.frames =
                               << SubSeq(b, 0 + PrefixLen + 1, e) >> \o @]
        BY ONLY b \in Seq(Byte), <1>4, <2>1, TryTakes
      <3>2. QED
        BY ONLY <3>1 DEF t, body
    <2>20. QED
      BY ONLY <2>17, <2>18, <2>19
  <1>5. QED
    BY <1>3, <1>4

\* There is one solution.
LEMMA OneTurnUnique ==
    ASSUME NEW f, f = [b \in Seq(Byte) |-> OneTurn(f, b)],
           NEW g, g = [b \in Seq(Byte) |-> OneTurn(g, b)]
    PROVE  \A b \in Seq(Byte) : f[b] = g[b]
  <1> DEFINE Differ(m) == \E b \in Seq(Byte) : Len(b) = m /\ f[b] # g[b]
             T == {m \in Nat : Differ(m)}
  <1>1. T = {}
    <2>1. SUFFICES ASSUME T # {} PROVE FALSE
      OBVIOUS
    <2>2. T \subseteq Nat
      OBVIOUS
    <2>3. PICK m \in T : \A y \in T : m <= y
      <3> HIDE DEF T
      <3>1. QED
        BY <2>1, <2>2, LeastNatural
    <2>4. PICK b \in Seq(Byte) : Len(b) = m /\ f[b] # g[b]
      OBVIOUS
    <2>5. f[b] = OneTurn(f, b) /\ g[b] = OneTurn(g, b)
      OBVIOUS
    <2>6. CASE ~WholeAt(b, 0)
      BY <2>4, <2>5, <2>6, TryStops
    <2>7. CASE WholeAt(b, 0)
      <3>0. Len(b) \in Nat /\ 0 \in Nat
        OBVIOUS
      <3>1. PICK e \in 1 .. Len(b) : e = FrameEnd(b, 0)
        BY <2>7, <3>0, EndIsLater
      <3> DEFINE t == SubSeq(b, e + 1, Len(b))
                 body == SubSeq(b, 0 + PrefixLen + 1, e)
      <3>2. t \in Seq(Byte) /\ Len(t) = Len(b) - e
        <4>1. e \in Nat /\ Len(b) \in Nat /\ e <= Len(b) /\ Len(b) <= Len(b) /\ b \in Seq(Byte)
          BY <3>0, <3>1
        <4>2. QED
          BY ONLY <4>1, SliceAt
      <3>3. OneTurn(f, b) = [f[t] EXCEPT !.frames = << body >> \o @]
        BY <2>7, <3>1, TryTakes
      <3>4. OneTurn(g, b) = [g[t] EXCEPT !.frames = << body >> \o @]
        BY <2>7, <3>1, TryTakes
      <3> HIDE DEF t, body
      <3>5. Len(t) \in Nat /\ ~(m <= Len(t))
        BY <2>4, <3>0, <3>1, <3>2
      <3>6. Len(t) \notin T
        <4> HIDE DEF T
        <4>1. QED
          BY <2>3, <3>5
      <3>7. f[t] = g[t]
        BY <3>2, <3>5, <3>6
      <3>8. QED
        BY ONLY <2>4, <2>5, <3>3, <3>4, <3>7
    <2>8. QED
      BY <2>6, <2>7
  <1>2. ASSUME NEW b \in Seq(Byte) PROVE f[b] = g[b]
    <2>1. Len(b) \in Nat
      OBVIOUS
    <2>2. QED
      BY <1>1, <2>1
  <1>3. QED
    BY <1>2

LEMMA OneByOneIs ==
    ASSUME NEW b \in Seq(Byte)
    PROVE  OneByOne(b) = ByWalk(b)
  <1> DEFINE P(g) == g = [x \in Seq(Byte) |-> OneTurn(g, x)]
             f == [x \in Seq(Byte) |-> ByWalk(x)]
  <1>1. P(f)
    <2>1. f = [x \in Seq(Byte) |-> ByWalk(x)]
      OBVIOUS
    <2> HIDE DEF f
    <2>2. \A x \in Seq(Byte) : ByWalk(x) = OneTurn(f, x)
      BY <2>1, ByWalkTurn
    <2>3. QED
      BY <2>1, <2>2
  <1>2. OneByOne(b) = (CHOOSE g : P(g))[b]
    BY DEF OneByOne, OneTurn
  <1>3. f[b] = ByWalk(b)
    OBVIOUS
  <1> HIDE DEF P, f
  <1>4. PICK h : P(h) /\ OneByOne(b) = h[b]
    BY <1>1, <1>2
  <1>5. h[b] = f[b]
    <2>1. h = [x \in Seq(Byte) |-> OneTurn(h, x)]
      BY <1>4 DEF P
    <2>2. f = [x \in Seq(Byte) |-> OneTurn(f, x)]
      BY <1>1 DEF P
    <2>3. QED
      BY ONLY b \in Seq(Byte), <2>1, <2>2, OneTurnUnique
  <1>6. QED
    BY <1>3, <1>4, <1>5

-----------------------------------------------------------------------------
LEMMA RxTyped == RxSpec => [](rx \in Seq(Byte))
  <1>1. RxInit => rx \in Seq(Byte)
    BY DEF RxInit
  <1>2. rx \in Seq(Byte) /\ [Grow]_rx => (rx \in Seq(Byte))'
    BY DEF Grow
  <1>3. QED
    BY <1>1, <1>2, PTL DEF RxSpec

\* For every buffer, well-formed or not: the cursor walk of unpack_all_frames
\* finds what repeated calls of try_unpack_frame find, and fails where they do.
THEOREM CursorWalkAgreesAlways == RxSpec => []CursorWalkAgrees
  <1>1. rx \in Seq(Byte) => CursorWalkAgrees
    <2> SUFFICES ASSUME rx \in Seq(Byte) PROVE CursorWalkAgrees
      OBVIOUS
    <2>1. PICK g : /\ CursorWalk(rx) = g[0]
                   /\ unpack_all_frames(rx).ok = g[0].ok
                   /\ g[0].ok =>
                        /\ unpack_all_frames(rx).frames = g[0].frames
                        /\ unpack_all_frames(rx).rest = SubSeq(rx, g[0].cursor + 1, Len(rx))
      BY UnpackByWalk
    <2>2. OneByOne(rx) = ByWalk(rx)
      BY OneByOneIs
    <2>3. /\ ByWalk(rx).ok = g[0].ok /\ ByWalk(rx).frames = g[0].frames
          /\ ByWalk(rx).rest = SubSeq(rx, g[0].cursor + 1, Len(rx))
      BY ONLY <2>1 DEF ByWalk
    <2>4. QED
      BY ONLY <2>1, <2>2, <2>3 DEF CursorWalkAgrees
  <1>2. QED
    BY <1>1, RxTyped, PTL

\* For every buffer that can be unpacked and every place to cut it: unpacking
\* up to the cut, then the tail left over with the remainder, yields the frames
\* of the whole, each once and in order, and leaves the same tail.
THEOREM CutsMakeNoDifferenceAlways == RxSpec => []CutsMakeNoDifference
  <1>1. rx \in Seq(Byte) => CutsMakeNoDifference
    <2> SUFFICES ASSUME rx \in Seq(Byte), unpack_all_frames(rx).ok, NEW k \in 0 .. Len(rx)
                 PROVE  LET first  == unpack_all_frames(SubSeq(rx, 1, k))
                            second == unpack_all_frames(first.rest \o SubSeq(rx, k + 1, Len(rx)))
                        IN  /\ first.ok /\ second.ok
                            /\ first.frames \o second.frames = unpack_all_frames(rx).frames
                            /\ second.rest = unpack_all_frames(rx).rest
      BY DEF CutsMakeNoDifference
    <2>1. PICK b \in Seq(Byte) : b = rx
      OBVIOUS
    <2>2. PICK p : p = SubSeq(b, 1, k)
      OBVIOUS
    <2>3. PICK q : q = unpack_all_frames(p).rest \o SubSeq(b, k + 1, Len(b))
      OBVIOUS
    <2>4. IsFront(p, b, k) /\ unpack_all_frames(b).ok /\ k \in 0 .. Len(b)
      BY <2>1, <2>2 DEF IsFront
    <2>5. Joins(b, p, q)
      BY ONLY <2>1, <2>3, <2>4, CutAgrees
    <2>6. QED
      BY ONLY <2>1, <2>2, <2>3, <2>5 DEF Joins
  <1>2. QED
    BY <1>1, RxTyped, PTL
=============================================================================
