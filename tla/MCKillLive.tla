----------------------------- MODULE MCKillLive -----------------------------
(***************************************************************************)
(* The liveness properties of the kill switch, each in the part of the     *)
(* world it is about: with a trader that runs, one day over a link that    *)
(* stands; with one that has died before and is not started again, a link  *)
(* and days that change.  The steps left out are steps of the world and    *)
(* starts and deaths of the trader, of which no fairness is assumed.       *)
(***************************************************************************)
EXTENDS KillSwitch

CONSTANTS o1, o2

TwoOrders == {o1, o2}

\* The initial states, but for the trader's past.
Boot == INSTANCE KillSwitch WITH heard <- "never", crashes <- 0

LiveInit ==
    \/ Init /\ sentinels = {}
    \/ Boot!Init /\ crashes = 1 /\ heard \in {"never", "silent"}
LiveSpec == LiveInit /\ [][Next]_vars /\ Fairness

Parts ==
    /\ crashes' = crashes
    /\ crashes = 0 => drops' = drops /\ past' = past
    /\ crashes = 1 => trader' = "down"
=============================================================================
