------------------------------ MODULE ShmRing ------------------------------
(***************************************************************************)
(* One shared-memory ring of corsair_ipc/src/ring.rs: a byte ring with two *)
(* offsets in its header, written by one process and read by another, and  *)
(* a notification FIFO beside it.                                          *)
(*                                                                         *)
(* The producer's copy into the ring and the consumer's copy out of it are *)
(* one step per byte, so every interleaving of the two memcpys with the    *)
(* loads and stores of the offsets is a behaviour.  The release/acquire    *)
(* pairs on the offsets make those loads and stores the only points where  *)
(* one side learns of the other; the model takes their order as given.     *)
(*                                                                         *)
(* Several threads write a ring, one at a time: the broker's publish and   *)
(* the trader's command writers take a mutex around the whole write, so    *)
(* the model has a single producer that is "idle" when the mutex is free.  *)
(*                                                                         *)
(* log, sent, refused, got and delivered are histories: what was published *)
(* or dropped, and what the consumer made of it.                           *)
(***************************************************************************)
EXTENDS FrameProtocol

CONSTANTS
    Capacity,   \* bytes in the data region
    Bodies,     \* the message bodies a producer may write
    FifoCap,    \* bytes the notification FIFO holds
    MaxSends    \* bound: writes attempted in one behaviour

ASSUME RingAssumption ==
    /\ Capacity \in Nat \ {0}
    /\ Bodies \subseteq Seq(Byte)
    /\ \A body \in Bodies : Len(body) > 0 /\ Len(body) < ByteBase * ByteBase
    /\ FifoCap \in Nat \ {0}
    /\ MaxSends \in Nat

\* A frame the ring takes is one unpack_all_frames accepts: a ring of 1 MiB
\* takes half of it at most, and MAX_FRAME_BYTES is 4 MiB.
ASSUME FrameLimitAssumption == Capacity \div 2 <= MaxFrameBytes

VARIABLES
    w,              \* write_offset in the header
    r,              \* read_offset in the header
    mem,            \* the data region
    fifo,           \* bytes waiting in the notification FIFO
    pc,             \* producer: "idle", "copy", "publish", "notify"
    pw,             \* the write offset the producer loaded
    frame,          \* the frame being written
    copied,         \* how many bytes of it are in the data region
    frames_dropped,
    cpc,            \* consumer: "poll", "copy", "store", "unpack", "drain", "wait"
    cr,             \* the read offset the consumer loaded
    avail,          \* bytes this read takes
    chunk,          \* the bytes copied out so far by this read
    buf,            \* bytes read and not yet unpacked
    log,            \* history: every byte published
    sent,           \* history: every body published
    refused,        \* history: every body dropped
    got,            \* history: every byte released by the consumer
    delivered       \* history: every body handed to the consumer's handler

ringVars     == << w, r, mem, fifo >>
producerVars == << pc, pw, frame, copied, frames_dropped >>
consumerVars == << cpc, cr, avail, chunk, buf >>
history      == << log, sent, refused, got, delivered >>
vars         == << ringVars, producerVars, consumerVars, history >>

\* Types of the shared memory and of both sides' locals; what buf, sent and
\* delivered hold is the matter of WholeFramesOnly and DeliveredInOrder.
TypeOK ==
    /\ w \in Nat /\ r \in Nat
    /\ mem \in [0 .. Capacity - 1 -> Byte]
    /\ fifo \in 0 .. FifoCap
    /\ pc \in {"idle", "copy", "publish", "notify"}
    /\ pw \in Nat
    /\ frame \in Seq(Byte)
    /\ copied \in Nat
    /\ frames_dropped \in Nat
    /\ cpc \in {"poll", "copy", "store", "unpack", "drain", "wait"}
    /\ cr \in Nat
    /\ avail \in Nat
    /\ chunk \in Seq(Byte)
    /\ log \in Seq(Byte)
    /\ got \in Seq(Byte)

\* create_owner: a fresh file, both offsets zero.
Init ==
    /\ w = 0 /\ r = 0
    /\ mem = [i \in 0 .. Capacity - 1 |-> 0]
    /\ fifo = 0
    /\ pc = "idle" /\ pw = 0 /\ frame = << >> /\ copied = 0 /\ frames_dropped = 0
    /\ cpc = "poll" /\ cr = 0 /\ avail = 0 /\ chunk = << >> /\ buf = << >>
    /\ log = << >> /\ sent = << >> /\ refused = << >>
    /\ got = << >> /\ delivered = << >>

-----------------------------------------------------------------------------
(* Producer *)

Attempts == Len(sent) + frames_dropped + (IF pc \in {"copy", "publish"} THEN 1 ELSE 0)

\* Mutants of Free: the reader's progress ignored; one byte kept unused.
FreeIgnoringReader == Capacity
FreeKeepingAGap == Capacity - (w - r) - 1

\* Bytes the producer may write, computed from the offsets in the header.
Free == Capacity - (w - r)

\* The frame exceeds half the ring or does not fit: dropped, and counted.
DropFrame(body) ==
    /\ pc = "idle" /\ Attempts < MaxSends
    /\ LET n == Len(pack_frame(body))
       IN  n > Capacity \div 2 \/ Free < n
    /\ frames_dropped' = frames_dropped + 1
    /\ refused' = Append(refused, body)
    /\ UNCHANGED << ringVars, pc, pw, frame, copied, consumerVars,
                    log, sent, got, delivered >>

\* write_body: load both offsets, find room, start copying at the write offset.
StartWrite(body) ==
    /\ pc = "idle" /\ Attempts < MaxSends
    /\ LET n == Len(pack_frame(body))
       IN  n <= Capacity \div 2 /\ n <= Free
    /\ pc' = "copy" /\ pw' = w /\ frame' = pack_frame(body) /\ copied' = 0
    /\ UNCHANGED << ringVars, frames_dropped, consumerVars, history >>

\* One byte of the copy; a frame that passes the end continues at 0.
CopyIn ==
    /\ pc = "copy"
    /\ mem' = [mem EXCEPT ![(pw + copied) % Capacity] = frame[copied + 1]]
    /\ copied' = copied + 1
    /\ pc' = IF copied + 1 = Len(frame) THEN "publish" ELSE "copy"
    /\ UNCHANGED << w, r, fifo, pw, frame, frames_dropped, consumerVars, history >>

\* Release-store of the write offset.
Publish ==
    /\ pc = "publish"
    /\ w' = pw + Len(frame)
    /\ log' = log \o frame
    /\ sent' = Append(sent, SubSeq(frame, PrefixLen + 1, Len(frame)))
    /\ pc' = "notify"
    /\ UNCHANGED << r, mem, fifo, pw, frame, copied, frames_dropped,
                    consumerVars, refused, got, delivered >>

\* notify: one byte into the non-blocking FIFO, ignored when it is full.
Notify ==
    /\ pc = "notify"
    /\ fifo' = IF fifo < FifoCap THEN fifo + 1 ELSE fifo
    /\ pc' = "idle"
    /\ UNCHANGED << w, r, mem, pw, frame, copied, frames_dropped,
                    consumerVars, history >>

Producer ==
    \/ \E body \in Bodies : DropFrame(body) \/ StartWrite(body)
    \/ CopyIn
    \/ Publish
    \/ Notify

-----------------------------------------------------------------------------
(* Consumer *)

\* w.saturating_sub(r)
Available == IF w > r THEN w - r ELSE 0

\* Mutant of StartRead: a read takes at most five bytes.
StartReadBounded ==
    /\ cpc = "poll" /\ Available > 0
    /\ cr' = r /\ avail' = (IF Available > 5 THEN 5 ELSE Available) /\ chunk' = << >>
    /\ cpc' = "copy"
    /\ UNCHANGED << ringVars, producerVars, buf, history >>

\* read_available_into finds bytes: this read takes all of them.
StartRead ==
    /\ cpc = "poll" /\ Available > 0
    /\ cr' = r /\ avail' = Available /\ chunk' = << >>
    /\ cpc' = "copy"
    /\ UNCHANGED << ringVars, producerVars, buf, history >>

CopyOut ==
    /\ cpc = "copy"
    /\ chunk' = Append(chunk, mem[(cr + Len(chunk)) % Capacity])
    /\ cpc' = IF Len(chunk) + 1 = avail THEN "store" ELSE "copy"
    /\ UNCHANGED << ringVars, producerVars, cr, avail, buf, history >>

\* Mutant of StoreRead: the read offset is not advanced.
StoreReadForgotten ==
    /\ cpc = "store"
    /\ r' = r
    /\ got' = got \o chunk
    /\ buf' = buf \o chunk
    /\ cpc' = "unpack"
    /\ UNCHANGED << w, mem, fifo, producerVars, cr, avail, chunk,
                    log, sent, refused, delivered >>

\* Release-store of the read offset: the bytes may be overwritten from here.
StoreRead ==
    /\ cpc = "store"
    /\ r' = cr + avail
    /\ got' = got \o chunk
    /\ buf' = buf \o chunk
    /\ cpc' = "unpack"
    /\ UNCHANGED << w, mem, fifo, producerVars, cr, avail, chunk,
                    log, sent, refused, delivered >>

\* unpack_all_frames, then process_event on every frame.  An unpack error is
\* logged and the loop goes on.
Unpack ==
    /\ cpc = "unpack"
    /\ LET u == unpack_all_frames(buf)
       IN  /\ delivered' = delivered \o u.frames
           /\ buf' = u.rest
    /\ cpc' = "poll"
    /\ UNCHANGED << ringVars, producerVars, cr, avail, chunk, log, sent, refused, got >>

\* FIFO-notify mode: the read found nothing.
FindEmpty ==
    /\ cpc = "poll" /\ Available = 0
    /\ cpc' = "drain"
    /\ UNCHANGED << ringVars, producerVars, cr, avail, chunk, buf, history >>

\* drain_notify: also swallows a byte written since the read found nothing.
DrainNotify ==
    /\ cpc = "drain"
    /\ fifo' = 0
    /\ cpc' = "wait"
    /\ UNCHANGED << w, r, mem, producerVars, cr, avail, chunk, buf, history >>

\* readable() resolves.
Wake ==
    /\ cpc = "wait" /\ fifo > 0
    /\ cpc' = "poll"
    /\ UNCHANGED << ringVars, producerVars, cr, avail, chunk, buf, history >>

\* Mutant of WaitTimeout: readable() is awaited without a timeout.
WaitForever == FALSE /\ UNCHANGED vars

\* The 100 ms timeout around readable() expires.
WaitTimeout ==
    /\ cpc = "wait"
    /\ cpc' = "poll"
    /\ UNCHANGED << ringVars, producerVars, cr, avail, chunk, buf, history >>

Consumer ==
    \/ StartRead \/ CopyOut \/ StoreRead \/ Unpack
    \/ FindEmpty \/ DrainNotify \/ Wake \/ WaitTimeout

-----------------------------------------------------------------------------
Next == Producer \/ Consumer

Spec == Init /\ [][Next]_vars

\* The consumer thread keeps running, and a write that has begun ends.
Fairness ==
    /\ WF_vars(Consumer)
    /\ WF_vars(CopyIn \/ Publish \/ Notify)

FairSpec == Spec /\ Fairness

-----------------------------------------------------------------------------
(* Properties *)

\* Whatever the consumer has copied out is what the producer published at the
\* same place of the stream: write_body never overwrites a byte that
\* read_available_into has yet to copy, and the consumer never reads a byte
\* before it is written, wrap-around or not.
StreamIntact ==
    /\ Len(got) <= Len(log) /\ got = SubSeq(log, 1, Len(got))
    /\ cpc \in {"copy", "store"} =>
          /\ cr + Len(chunk) <= Len(log)
          /\ chunk = SubSeq(log, cr + 1, cr + Len(chunk))

\* The messages handed to the consumer's handler are the accepted ones, each
\* once and in the order of the writes.
DeliveredInOrder ==
    /\ Len(delivered) <= Len(sent)
    /\ delivered = SubSeq(sent, 1, Len(delivered))

\* A read never ends inside a frame.  The broker's command_pump relies on it:
\* it throws away what unpack_all_frames leaves over.
WholeFramesOnly ==
    cpc \in {"poll", "drain", "wait"} => buf = << >>

\* Every accepted message is eventually handled, although drain_notify can
\* swallow the only wake-up: the wait is bounded by the timeout.
EventuallyDelivered ==
    \A n \in 1 .. MaxSends : (Len(sent) >= n) ~> (Len(delivered) >= n)

(***************************************************************************)
(* The inductive invariant behind StreamIntact, in parts.                  *)
(***************************************************************************)
OffsetsOK ==
    /\ r <= w /\ w - r <= Capacity
    /\ Len(log) = w /\ Len(got) = r
    /\ \A i \in 1 .. r : got[i] = log[i]

\* The bytes between the offsets are the ones published there.
UnreadOK == \A o \in r .. w - 1 : mem[o % Capacity] = log[o + 1]

\* A frame being written has its room until it is published, and the bytes
\* copied so far are in place.
WritingOK ==
    pc \in {"copy", "publish"} =>
        /\ pw = w
        /\ w + Len(frame) - r <= Capacity
        /\ copied <= Len(frame)
        /\ pc = "copy" => copied < Len(frame)
        /\ pc = "publish" => copied = Len(frame)
        /\ \A i \in 0 .. copied - 1 : mem[(w + i) % Capacity] = frame[i + 1]

\* A read in progress stays inside the published bytes.
ReadingOK ==
    cpc \in {"copy", "store"} =>
        /\ cr = r
        /\ r + avail <= w
        /\ Len(chunk) <= avail
        /\ cpc = "copy" => Len(chunk) < avail
        /\ cpc = "store" => Len(chunk) = avail
        /\ \A i \in 1 .. Len(chunk) : chunk[i] = log[r + i]

\* No byte that is published and unread is ever overwritten, and every read
\* stays inside what is published: the state of the offsets, the data region
\* and both memcpys, from which StreamIntact follows.
RingInv == TypeOK /\ OffsetsOK /\ UnreadOK /\ WritingOK /\ ReadingOK

(***************************************************************************)
(* What the ring promises: a FIFO of messages bounded in bytes.            *)
(***************************************************************************)
Taken == unpack_all_frames(got).frames

Queue == INSTANCE FrameQueue WITH
    queue   <- SubSeq(sent, Len(Taken) + 1, Len(sent)),
    taken   <- Taken,
    refused <- refused

\* The ring implements the bounded FIFO: it refuses a message only when that
\* message is oversize or really does not fit, and keeps all others in order.
ImplementsFrameQueue == Queue!Spec
=============================================================================
