--------------------------- MODULE MCMarketDepth ---------------------------
(* Instances of MarketDepth. *)
EXTENDS MarketDepth

\* Legs and Watched are strikes; the underlying moves across two of them, so
\* that the always-on leg and the rotating one change places.
LegsValue == {1, 3, 5}
SpotsValue == {1, 4}
WatchedValue == {1}
OrdersValue == {<<1, 3, 5>>, <<5, 3, 1>>}
=============================================================================
