---------------------------- MODULE FrameBuffer ----------------------------
(***************************************************************************)
(* A receive buffer of the framing, filled byte by byte with anything:     *)
(* every buffer, well-formed or not, is put to the two unpackers of        *)
(* corsair_ipc/src/protocol.rs.                                            *)
(***************************************************************************)
EXTENDS FrameProtocol

CONSTANT MaxBuf     \* bound: longest buffer enumerated

ASSUME BufferAssumption == MaxBuf \in Nat

VARIABLE rx

RxInit == rx = << >>
Grow   == Len(rx) < MaxBuf /\ \E b \in Byte : rx' = Append(rx, b)
RxSpec == RxInit /\ [][Grow]_rx

\* Calling try_unpack_frame until it has no more to give.
OneByOne(buffer) ==
    LET calls[b \in Seq(Byte)] ==
            LET t == try_unpack_frame(b)
            IN  IF t.status = "frame"
                THEN [calls[t.rest] EXCEPT !.frames = << t.body >> \o @]
                ELSE [ok |-> t.status = "none", frames |-> << >>, rest |-> b]
    IN  calls[buffer]

\* The cursor walk that replaced the one-frame-at-a-time loop finds the same
\* frames and leaves the same tail, and fails on the same buffers.
CursorWalkAgrees ==
    LET u == unpack_all_frames(rx)
        v == OneByOne(rx)
    IN  /\ u.ok = v.ok
        /\ u.ok => u.frames = v.frames /\ u.rest = v.rest

\* Where the reads of the ring happen to cut the stream makes no difference:
\* unpacking a part, then the tail with the remainder, yields the same frames.
CutsMakeNoDifference ==
    LET whole == unpack_all_frames(rx)
    IN  whole.ok =>
          \A k \in 0 .. Len(rx) :
            LET first  == unpack_all_frames(SubSeq(rx, 1, k))
                second == unpack_all_frames(first.rest \o SubSeq(rx, k + 1, Len(rx)))
            IN  /\ first.ok /\ second.ok
                /\ first.frames \o second.frames = whole.frames
                /\ second.rest = whole.rest
=============================================================================
