--------------------------- MODULE FrameProtocol ---------------------------
(***************************************************************************)
(* The wire protocol of corsair_ipc/src/protocol.rs: a frame is a length   *)
(* prefix followed by the message body.  A byte is a number below          *)
(* ByteBase, and the 4-byte big-endian prefix is narrowed to two bytes so  *)
(* that a small ring can still split it at its wrap-around point.          *)
(***************************************************************************)
EXTENDS Integers, Sequences

CONSTANTS
    ByteBase,       \* number of distinct byte values (256 in the code)
    MaxFrameBytes   \* MAX_FRAME_BYTES

ASSUME ProtocolAssumption ==
    /\ ByteBase \in Nat \ {0}
    /\ MaxFrameBytes \in Nat

Byte == 0 .. (ByteBase - 1)

PrefixLen == 2

Prefix(n) == << n \div ByteBase, n % ByteBase >>

pack_frame(body) == Prefix(Len(body)) \o body

\* The body length announced by the prefix that follows position c of buf.
SizeAt(buf, c) == buf[c + 1] * ByteBase + buf[c + 2]

(***************************************************************************)
(* try_unpack_frame: take one frame from the front of buf.                 *)
(***************************************************************************)
try_unpack_frame(buf) ==
    IF Len(buf) < PrefixLen
    THEN [status |-> "none", body |-> << >>, rest |-> buf]
    ELSE LET size == SizeAt(buf, 0)
         IN  IF size > MaxFrameBytes
             THEN [status |-> "err", body |-> << >>, rest |-> buf]
             ELSE IF Len(buf) < PrefixLen + size
             THEN [status |-> "none", body |-> << >>, rest |-> buf]
             ELSE [status |-> "frame",
                   body   |-> SubSeq(buf, PrefixLen + 1, PrefixLen + size),
                   rest   |-> SubSeq(buf, PrefixLen + size + 1, Len(buf))]

\* Mutant of CursorWalk: a frame that ends with the buffer is not seen.
CursorWalkShort(buf) ==
    LET walk[c \in 0 .. Len(buf)] ==
            IF c + PrefixLen >= Len(buf) \/ c + PrefixLen + SizeAt(buf, c) >= Len(buf)
            THEN [ok |-> TRUE, frames |-> << >>, cursor |-> c]
            ELSE LET next == c + PrefixLen + SizeAt(buf, c)
                 IN  [walk[next] EXCEPT !.frames =
                        << SubSeq(buf, c + PrefixLen + 1, next) >> \o @]
    IN  walk[0]

\* The while loop of unpack_all_frames: a cursor over every complete frame, up
\* to a partial one or to an oversize prefix.
CursorWalk(buf) ==
    LET walk[c \in 0 .. Len(buf)] ==
            IF c + PrefixLen > Len(buf)
            THEN [ok |-> TRUE, frames |-> << >>, cursor |-> c]
            ELSE LET size == SizeAt(buf, c)
                     next == c + PrefixLen + size
                 IN  IF size > MaxFrameBytes
                     THEN [ok |-> FALSE, frames |-> << >>, cursor |-> c]
                     ELSE IF next > Len(buf)
                     THEN [ok |-> TRUE, frames |-> << >>, cursor |-> c]
                     ELSE [walk[next] EXCEPT !.frames =
                             << SubSeq(buf, c + PrefixLen + 1, next) >> \o @]
    IN  walk[0]

\* Mutant of unpack_all_frames: the partial frame at the tail is drained too.
UnpackDroppingTail(buf) ==
    LET end == CursorWalk(buf)
    IN  IF end.ok THEN [ok |-> TRUE, frames |-> end.frames, rest |-> << >>]
                  ELSE [ok |-> FALSE, frames |-> << >>, rest |-> buf]

(***************************************************************************)
(* unpack_all_frames: walk the frames, then drain the bytes walked over in *)
(* one go.  An oversize prefix returns early, BEFORE the drain: the frames *)
(* found so far are dropped with the result and buf keeps every byte.      *)
(***************************************************************************)
unpack_all_frames(buf) ==
    LET end == CursorWalk(buf)
    IN  IF end.ok
        THEN [ok     |-> TRUE,
              frames |-> end.frames,
              rest   |-> SubSeq(buf, end.cursor + 1, Len(buf))]
        ELSE [ok |-> FALSE, frames |-> << >>, rest |-> buf]
=============================================================================
