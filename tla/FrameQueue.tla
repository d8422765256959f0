----------------------------- MODULE FrameQueue -----------------------------
(***************************************************************************)
(* What a ring of corsair_ipc promises to the code that writes and reads   *)
(* it: a FIFO of messages whose framed size is bounded by the capacity.  A *)
(* message is refused only if it is larger than half the ring or the       *)
(* messages still queued leave it no room; nothing else is lost, nothing   *)
(* is duplicated and nothing overtakes.                                    *)
(***************************************************************************)
EXTENDS Integers, Sequences

CONSTANTS Capacity, Bodies, PrefixLen

VARIABLES
    queue,      \* bodies accepted and not yet taken
    taken,      \* history: bodies taken by the consumer
    refused     \* history: bodies refused

vars == << queue, taken, refused >>

Size(body) == PrefixLen + Len(body)

QueuedBytes ==
    LET total[i \in 0 .. Len(queue)] ==
            IF i = 0 THEN 0 ELSE total[i - 1] + Size(queue[i])
    IN  total[Len(queue)]

Fits(body) == QueuedBytes + Size(body) <= Capacity

Init == queue = << >> /\ taken = << >> /\ refused = << >>

Accept(body) ==
    /\ Size(body) <= Capacity \div 2
    /\ Fits(body)
    /\ queue' = Append(queue, body)
    /\ UNCHANGED << taken, refused >>

Refuse(body) ==
    /\ Size(body) > Capacity \div 2 \/ ~Fits(body)
    /\ refused' = Append(refused, body)
    /\ UNCHANGED << queue, taken >>

TakeAvailable(n) ==
    /\ n \in 1 .. Len(queue)
    /\ taken' = taken \o SubSeq(queue, 1, n)
    /\ queue' = SubSeq(queue, n + 1, Len(queue))
    /\ UNCHANGED refused

Next ==
    \/ \E body \in Bodies : Accept(body) \/ Refuse(body)
    \/ \E n \in 1 .. Len(queue) : TakeAvailable(n)

Spec == Init /\ [][Next]_vars
=============================================================================
