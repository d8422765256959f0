--------------------------- MODULE MCOrderThreads ---------------------------
(***************************************************************************)
(* The quotes of one key with both trader threads and every fault, on a    *)
(* small instance, and a history variable that tells whether something has *)
(* happened yet that the code is known not to make up for.                 *)
(***************************************************************************)
EXTENDS OrderFlow

VARIABLE clean      \* history: no step of Damage so far

\* The trader forgot an order for which on_tick had written a cancel (which
\* the broker does not parse), the staleness thread decided to cancel, a frame
\* of that thread or a place_ack met a full ring, place_order's 500 ms or the
\* trader's 2 s ran out before the answer.
Damage ==
    \/ hot.pc = "track" /\ hot.ok /\ hot.cmd.kind = "cancel" /\ hot' = Quiet
    \/ stale.pc = "idle" /\ stale'.cmd.kind = "cancel" /\ stale'.pc = "write"
    \/ stale.pc = "write" /\ stale' = Quiet
    \/ \E o \in Oid : pend[o] = "acked" /\ pend'[o] = "done" /\ events' = events
    \/ \E o \in Oid : pend[o] = "waiting" /\ pend'[o] = "done" /\ wire' = wire
    \/ UnackExpires /\ AckOnItsWay

ThreadsInit == Init /\ clean = TRUE
ThreadsNext == Next /\ clean' = (clean /\ ~Damage)
ThreadsSpec == ThreadsInit /\ [][ThreadsNext]_<<vars, clean>>

\* Until then at most one quote rests or is on its way at the key, whatever
\* frames of on_tick or status frames the rings drop, whatever the broker
\* refuses and however fills race acks and the amends of both threads.
NoDoubleQuoteYet == clean => NoDoubleQuote
=============================================================================
