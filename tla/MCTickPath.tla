----------------------------- MODULE MCTickPath -----------------------------
(***************************************************************************)
(* Instances of TickPath, for a put of strike 100 with four price units to *)
(* a tick, and of the framing its messages travel in.                      *)
(***************************************************************************)
EXTENDS TickPath, FrameBuffer

D(b0, b1, a0, a1) == [depth_bid_0 |-> b0, depth_bid_1 |-> b1,
                      depth_ask_0 |-> a0, depth_ask_1 |-> a1]
NoDepth == D(Nil, Nil, Nil, Nil)
G(t, d, th) == [theo |-> t, delta |-> d, theta |-> th]
F(f, lo, hi, g) == [forward |-> f, min_k |-> lo, max_k |-> hi, greeks |-> g]
R(d, th, o) == [delta |-> d, theta |-> th, over |-> o]
Calm == R(0, 0, FALSE)
L(t, u, f, r, h, s, lo, c, o) ==
    [tick |-> t, und |-> u, fit |-> f, risk |-> r, halt |-> h, step |-> s,
     loss |-> lo, crash |-> c, ours |-> o]

Px(b, a, x, y) == [bid |-> b, ask |-> a, bid_size |-> x, ask_size |-> y]
W(l1, u, f) == [l1 |-> l1, und |-> u, fit |-> f]
Around(t) == F(101, 90, 110, G(t, -1, -1))
\* A fit with n parity samples at p and k other points between lo and hi.
P(p, n, k, lo, hi, g) == [parity |-> p, samples |-> n, others |-> k, min_k |-> lo,
                          max_k |-> hi, greeks |-> g]

\* Every market of a few prices around theo, with and without depth, and the
\* quotes of an earlier market resting in it.
Markets ==
    LET px == {0, 8, 12, 20, 28}
    IN  [room |-> 1, px |-> px, sz |-> {1}, depth |-> {NoDepth, D(8, Nil, 16, 20)},
         und |-> {100}, steps |-> {4}, fits |-> {}, risks |-> {},
         warm |-> {W(Px(b, a, 1, 1), 100, Around(t)) :
                     b \in px \ {0}, a \in px \ {0}, t \in {5, 9, 15, 18}},
         left |-> L(2, 0, 0, 0, 0, 1, 0, 0, 1)]

\* From boot: sides that empty, frames that are lost, processes that restart.
Feed ==
    [room |-> 2, px |-> {0, 8, 16}, sz |-> {1}, depth |-> {NoDepth}, und |-> {100},
     steps |-> {}, fits |-> {}, risks |-> {}, warm |-> {},
     left |-> L(4, 0, 0, 0, 0, 0, 1, 1, 0)]

\* New fits, with and without the calibrated strike, and a moving spot.
Fits ==
    [room |-> 1, px |-> {8}, sz |-> {1}, depth |-> {NoDepth},
     und |-> {96, 104, 108}, steps |-> {9},
     fits |-> {P(103, 2, 3, 90, 110, G(20, -2, -1)), P(102, 3, 2, 103, 110, G(12, -2, -1)),
               P(130, 2, 3, 90, 110, G(0, 0, 0))},
     risks |-> {Calm}, warm |-> {W(Px(8, 20, 1, 1), 100, Around(12))},
     left |-> L(2, 1, 2, 1, 0, 1, 0, 0, 0)]

\* An empty side, an empty or distant spot, and any of the frames lost.
Lossy ==
    [room |-> 1, px |-> {0, 8}, sz |-> {1}, depth |-> {NoDepth}, und |-> {0, 108},
     steps |-> {}, fits |-> {P(103, 2, 3, 90, 110, G(20, -2, -1))}, risks |-> {Calm},
     warm |-> {W(Px(8, 20, 1, 1), 100, Around(12))},
     left |-> L(1, 1, 1, 1, 0, 0, 1, 0, 0)]

\* Breaches and halts, and a risk state that ages.
Risks ==
    [room |-> 1, px |-> {12}, sz |-> {1}, depth |-> {NoDepth}, und |-> {100},
     steps |-> {3, 6}, fits |-> {},
     risks |-> {R(4, 0, FALSE), R(-4, 0, FALSE), R(0, -6, FALSE), R(4, -6, FALSE),
                R(0, 0, TRUE)},
     warm |-> {W(Px(8, 20, 1, 1), 100, Around(14))},
     left |-> L(2, 0, 0, 1, 1, 1, 1, 0, 1)]

\* Many sends in little time.
Bursts ==
    [room |-> 1, px |-> {8, 16}, sz |-> {1}, depth |-> {NoDepth}, und |-> {100},
     steps |-> {1, 3}, fits |-> {}, risks |-> {},
     warm |-> {W(Px(8, 20, 1, 1), 100, Around(14))},
     left |-> L(3, 0, 0, 0, 0, 2, 0, 0, 3)]

\* None of the above: the bytes that carry it all, see FrameBuffer.
Wire ==
    [room |-> 0, px |-> {}, sz |-> {}, depth |-> {}, und |-> {}, steps |-> {},
     fits |-> {}, risks |-> {}, warm |-> {}, left |-> L(0, 0, 0, 0, 0, 0, 0, 0, 0)]

ThetaKillValue == -5
ScenariosValue == {Markets, Feed, Fits, Lossy, Risks, Bursts, Wire}
SeedScenario == {Feed}
RiskScenario == {Risks}
MarketScenario == {Markets}

-----------------------------------------------------------------------------
\* The buffer grows in a scenario of its own.
MCInit == Init /\ RxInit
MCNext ==
    \/ Next /\ rx = << >> /\ UNCHANGED rx
    \/ sc = Wire /\ ~fast /\ Grow /\ UNCHANGED vars
MCSpec == MCInit /\ [][MCNext]_<<vars, rx>>
=============================================================================
