------------------------------ MODULE MCHedge ------------------------------
(* Model values for Hedge: two options of delta 0.5 and -0.5, the second    *)
(* unknown to market data; deltas in halves of a contract.                  *)
EXTENDS Hedge, TLC

CONSTANTS call, put

MCOptions == {call, put}
MCDeltaOf == (call :> 1) @@ (put :> -1)
MCTradeQtys == {-3, 3}
MCSeedBooks == {(call :> q) @@ (put :> 0) : q \in {0, 3}}
=============================================================================
