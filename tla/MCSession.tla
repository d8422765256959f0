----------------------------- MODULE MCSession -----------------------------
(* Instances of Session. *)
EXTENDS Session

\* The front future expires on day 10 and is inside the hedge lockout, its
\* options expire on day 9; the account holds a leg of that month at a strike that
\* drifts, or (for the witnesses) one of the next month.
FuturesValue == {10, 20}
HeldValue == {<<9, 5>>}
HeldBack == {<<19, 5>>}
DriftingValue == {5}
ListedValue == {<<9, 4>>, <<9, 5>>, <<9, 6>>, <<19, 5>>}

\* Two forwards whose windows overlap in one strike; each window also has a
\* strike that is not listed.
TicksValue == {8, 11}

\* A slow gateway, one that refuses, one that goes away, and orders.
B(e, f, o, n, b) == [early |-> e, faults |-> f, orders |-> o, fits |-> n, breaks |-> b]
BudgetsValue == {B(1, 1, 0, 1, 0), B(1, 0, 0, 1, 1), B(0, 0, 2, 0, 0)}
\* A gateway that does all it is asked, and only refusals, for the witnesses.
Faultless == {B(0, 0, 0, 1, 0)}
OneRefusal == {B(0, 1, 0, 0, 0)}
TwoRefusals == {B(0, 2, 0, 1, 0)}
=============================================================================
