---------------------------- MODULE MCKillSwitch ----------------------------
(* The kill switch on small instances; see the .cfg files.                 *)
EXTENDS KillSwitch

CONSTANTS o1, o2

OneOrder == {o1}
TwoOrders == {o1, o2}

\* KillReachesTrader says nothing once a frame was dropped, and `lost` only
\* grows: those states need no successors.
NothingLost == lost = {}
=============================================================================
