----------------------------- MODULE MCShmRing -----------------------------
(* Model values for ShmRing: frames of three, four and five bytes in a ring *)
(* of nine, so that every position of the ring is a wrap-around point, two  *)
(* frames fit and a third does not, and one body is oversize.               *)
EXTENDS ShmRing

MCBodies == { << 1 >>, << 1, 2 >>, << 2, 1, 2 >> }
=============================================================================
