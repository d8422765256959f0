---------------------------- MODULE MCShmRestart ----------------------------
(* Model values for ShmRestart: the ring of MCShmRing with fewer writes. *)
EXTENDS ShmRestart

MCBodies == { << 1 >>, << 1, 2 >>, << 2, 1, 2 >> }

\* The properties say nothing of behaviours in which a broker restart caught
\* the trader inside a ring operation: those states need no successors.
NotHit == ~hit
=============================================================================
