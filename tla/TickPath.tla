------------------------------ MODULE TickPath ------------------------------
(***************************************************************************)
(* A quote's way from IBKR's market data to the price the trader sends,    *)
(* for one option leg.  The dispatcher of the native adapter hands every   *)
(* tick to the fast-path publisher of ipc.rs, which keeps a consolidated   *)
(* tick per instrument and writes it to the events ring, and then to the   *)
(* broadcast from which pump_ticks maintains market_data.  The vol-surface *)
(* fitter reads market_data and publishes its fit.  The trader merges      *)
(* every tick with what it knew of the leg and decides: the gates, the     *)
(* theoretical price, the two targets, the risk gates, the burst limiter.  *)
(*                                                                         *)
(* Prices are whole numbers of which TickSize make a tick; times are whole *)
(* numbers ordered as the thresholds of the code are.                      *)
(***************************************************************************)
EXTENDS Integers, Sequences, FiniteSets

CONSTANTS
    TickSize, EdgeTicks,    \* tick_size, min_edge_ticks
    SpreadMul,              \* skip_if_spread_over_edge_mul, 0 disables
    DeadBand,               \* dead_band_ticks
    MinTheo,                \* the floor under the repriced theo
    Strike, Right,          \* the leg
    MaxOffset, AtmTol,      \* MAX_STRIKE_OFFSET_USD, ATM_TOL_USD
    MaxDrift,               \* MAX_FORWARD_DRIFT_TICKS, as a price
    Burst, Cooldown, Unack, RiskStale, GtdRefresh, FitStale,    \* times
    DeltaCeiling, ThetaKill,
    ParityLimit,            \* PARITY_VS_SPOT_LIMIT_USD
    CacheCap,               \* entries above which the theo cache is pruned
    Scenarios               \* the inputs and their budgets, see ScenarioAssumption

ASSUME TickPathAssumption ==
    /\ {TickSize, EdgeTicks} \subseteq Nat \ {0}
    /\ {SpreadMul, DeadBand, MinTheo, MaxOffset, AtmTol, MaxDrift, Burst,
        Cooldown, Unack, RiskStale, GtdRefresh, FitStale, DeltaCeiling,
        ParityLimit, CacheCap} \subseteq Nat
    /\ {Strike, ThetaKill} \subseteq Int
    /\ Right \in {"C", "P"}

Field == {"bid", "ask", "bid_size", "ask_size"}
DepthField == {"depth_bid_0", "depth_bid_1", "depth_ask_0", "depth_ask_1"}

\* What a fit says of the leg.  Delta counts halves of a contract's, and no
\* option moves more than its underlying.
GreekValues == [theo : Int, delta : -2 .. 2, theta : Int]
FitValues == [forward : Int, min_k : Int, max_k : Int, greeks : GreekValues]

\* A scenario: the room in a channel, the prices and sizes IBKR streams, 0 for
\* an empty side, the depth there may be, the inputs of the fits, the risk
\* states and the states to start from.
ASSUME ScenarioAssumption ==
    \A s \in Scenarios :
        /\ s.room \in Nat
        /\ s.px \subseteq Nat /\ s.sz \subseteq Nat /\ s.und \subseteq Nat
        /\ s.steps \subseteq Nat
        /\ \A d \in s.depth : /\ DOMAIN d \subseteq DepthField
                              /\ \A f \in DOMAIN d : d[f] \in Int
        /\ \A g \in s.fits : /\ {g.parity, g.min_k, g.max_k} \subseteq Int
                             /\ g.greeks \in GreekValues
        /\ s.risks \subseteq [delta : Int, theta : Int, over : BOOLEAN]
        /\ \A w \in s.warm : /\ w.l1 \in [Field -> Nat] /\ w.und \in Nat
                             /\ w.fit \in FitValues

Nil == -1                   \* None; a side IBKR calls empty is 0
Sides == {"B", "S"}

VARIABLES
    sc,         \* the scenario: which values the environment may take
    left,       \* how often each of its actions may still happen
    now,        \* the clock
    book,       \* what IBKR streamed last for the leg since the broker started
    und,        \* what IBKR streamed last for the underlying
    fast,       \* the tick publisher is installed in the adapter
    entry,      \* the publisher's ConsolidatedTick: <<>> or <<fields>>
    ticks,      \* the tick broadcast, unread by pump_ticks
    md,         \* market_data: the leg's OptionTick and the underlying's price
    ring,       \* the events ring
    options,    \* the trader's OptionState of the leg
    spot,       \* underlying_price
    halted,     \* kills_count > 0 or weekend_paused
    surf,       \* vol_surfaces at the leg's expiry and right: <<>> or <<fit>>
    cache,      \* theo_cache: <<fit time, greeks>> pairs of the leg
    risk,       \* the latest risk_state: <<>> or <<[delta, theta, over, at]>>
    our,        \* our_orders: Sides -> <<>> or <<[price, at, acked]>>
    slots,      \* outbound_limiter
    last,       \* the orders sent by the latest tick: {} after any other step
    stamps,     \* history: when the last three orders were sent
    routed,     \* history: fields the publisher was given since it started
    fresh       \* history: the latest tick was not lost on its way to the trader

broker == <<book, und, fast, entry, ticks, md>>
trader == <<options, spot, halted, surf, cache, risk, our, slots>>
history == <<stamps, routed, fresh>>
vars == <<sc, left, now, broker, ring, trader, last, history>>

NoTick == [f \in Field |-> Nil]
NoData == [f \in Field \union {"und"} |-> 0]

Abs(x) == IF x < 0 THEN -x ELSE x
OrZero(x) == IF x = Nil THEN 0 ELSE x
Or(x, y) == IF x = Nil THEN y ELSE x
Edge == EdgeTicks * TickSize

\* An action of the environment uses up its budget.
Spend(b) == left[b] > 0 /\ left' = [left EXCEPT ![b] = @ - 1]

-----------------------------------------------------------------------------
(* The broker.                                                             *)

\* SHMServer::publish, on behalf of an action with budget b: a frame that
\* finds no room, other traffic included, is dropped.
Written(b, ty, val) ==
    /\ Len(ring) < sc.room
    /\ ring' = Append(ring, [ty |-> ty, val |-> val])
    /\ Spend(b)
Dropped(b) ==
    /\ left[b] > 0 /\ left.loss > 0
    /\ left' = [left EXCEPT ![b] = @ - 1, !.loss = @ - 1]
    /\ UNCHANGED ring

\* encode_tick_into: the L1 fields are always on the wire, as nil when None,
\* the depth fields only when there is such a level.
encode_tick_into(e, d) ==
    [f \in Field \union {g \in DOMAIN d : d[g] # Nil} |->
        IF f \in Field THEN e[f] ELSE d[f]]

\* Mutant: an empty side becomes None, as in market_data.
ConsolidatePositive(e, f, v) == [e EXCEPT ![f] = IF v > 0 THEN v ELSE Nil]

\* The consolidated tick takes each value as it came, an empty side included.
Consolidate(e, f, v) == [e EXCEPT ![f] = v]

\* The first tick the publisher sees of the leg starts from market_data.
Seed == [f \in Field |-> IF md[f] > 0 THEN md[f] ELSE Nil]

\* The publisher of ipc.rs: every tick of the leg becomes a consolidated frame
\* with the depth levels market_data has at that moment.
FastPath(f, v) ==
    LET e == Consolidate(IF entry = <<>> THEN Seed ELSE entry[1], f, v)
    IN  /\ entry' = <<e>>
        /\ routed' = routed \union {f}
        /\ \/ /\ \E d \in sc.depth : Written("tick", "tick", encode_tick_into(e, d))
              /\ fresh' = TRUE
           \/ Dropped("tick") /\ fresh' = FALSE

\* The dispatcher routes a TickPrice or TickSize of the leg: to the publisher,
\* once it is installed, and then to the broadcast.
RouteTick(f, v) ==
    /\ Len(ticks) < sc.room
    /\ v \in (IF f \in {"bid", "ask"} THEN sc.px ELSE sc.sz)
    /\ book' = [book EXCEPT ![f] = v]
    /\ ticks' = Append(ticks, <<f, v>>)
    /\ IF fast THEN FastPath(f, v)
               ELSE Spend("tick") /\ UNCHANGED <<entry, ring, routed, fresh>>
    /\ last' = {}
    /\ UNCHANGED <<sc, now, und, fast, md, trader, stamps>>

\* A price of the underlying goes the same way; an empty one is not published.
RouteUnderlying(p) ==
    /\ Len(ticks) < sc.room
    /\ p \in sc.und
    /\ und' = p
    /\ ticks' = Append(ticks, <<"und", p>>)
    /\ IF fast /\ p > 0
       THEN Written("und", "underlying_tick", p) \/ Dropped("und")
       ELSE Spend("und") /\ UNCHANGED ring
    /\ last' = {}
    /\ UNCHANGED <<sc, now, book, fast, entry, md, trader, history>>

\* main subscribes to the market data before spawn_ipc installs the publisher.
install_tick_fastpath ==
    /\ ~fast
    /\ fast' = TRUE
    /\ last' = {}
    /\ UNCHANGED <<sc, left, now, book, und, entry, ticks, md, ring, trader, history>>

\* update_bid and update_ask keep the last price of a side that goes empty,
\* and zero its size: a price tick carries none.
SizeOf == [bid |-> "bid_size", ask |-> "ask_size"]
Applied(f, v) ==
    CASE f \in DOMAIN SizeOf -> [md EXCEPT ![f] = IF v > 0 THEN v ELSE @, ![SizeOf[f]] = 0]
      [] f = "und" -> [md EXCEPT !.und = IF v > 0 THEN v ELSE @]
      [] OTHER -> [md EXCEPT ![f] = v]

pump_ticks ==
    /\ ticks # <<>>
    /\ md' = Applied(ticks[1][1], ticks[1][2])
    /\ ticks' = Tail(ticks)
    /\ last' = {}
    /\ UNCHANGED <<sc, left, now, book, und, fast, entry, ring, trader, history>>

\* snapshot_chain: the forward is the put-call parity average of the strikes
\* near the spot, or the spot when there are too few or they are far off it.
Forward(g) ==
    IF g.samples < 2 \/ Abs(g.parity - md.und) > ParityLimit THEN md.und ELSE g.parity

\* The leg is a point of the fit when it is out of the money, two-sided, not
\* crossed and has size on both sides, all of it as market_data has it.
InFit(g) ==
    /\ IF Right = "C" THEN Strike >= Forward(g) ELSE Strike < Forward(g)
    /\ 0 < md.bid /\ md.bid < md.ask
    /\ md.bid_size > 0 /\ md.ask_size > 0

\* The surface through the leg, if it is a point, and g.others between min_k
\* and max_k; three points are the least.  Its anchor is the spot just read.
Surface(g) ==
    LET in == InFit(g)
    IN  [fit |-> [forward |-> Forward(g), greeks |-> g.greeks,
                  min_k |-> IF in /\ Strike < g.min_k THEN Strike ELSE g.min_k,
                  max_k |-> IF in /\ Strike > g.max_k THEN Strike ELSE g.max_k],
         spot_at_fit |-> md.und, fit_ts_ns |-> now + 1]

\* Fits are a minute apart: their times differ.
fit_and_publish(g) ==
    /\ md.und > 0 /\ fast
    /\ g.others + (IF InFit(g) THEN 1 ELSE 0) >= 3
    /\ now' = now + 1
    /\ Written("fit", "vol_surface", Surface(g)) \/ Dropped("fit")
    /\ last' = {}
    /\ UNCHANGED <<sc, broker, trader, history>>

\* The once-a-second risk_state, and the frames that halt and resume quoting.
Announce(b, ty, val) ==
    /\ fast
    /\ Written(b, ty, val) \/ Dropped(b)
    /\ last' = {}
    /\ UNCHANGED <<sc, now, broker, trader, history>>

-----------------------------------------------------------------------------
(* The trader's state.                                                     *)

Fit == surf[1].fit
BlockAll ==
    \/ risk = <<>>
    \/ now - risk[1].at > RiskStale
    \/ risk[1].over
ThetaBreach == ThetaKill < 0 /\ risk[1].theta < ThetaKill
DeltaBreachDir ==
    CASE risk[1].delta > DeltaCeiling -> 1
      [] risk[1].delta < -DeltaCeiling -> -1
      [] OTHER -> 0

Signed(s) == IF s = "B" THEN 1 ELSE -1

\* Mutant: buys are held to raise delta and sells to lower it, whatever the
\* option.
improving_by_side(s, g) ==
    /\ ThetaBreach => Signed(s) * g.theta > 0
    /\ DeltaBreachDir * Signed(s) <= 0

improving_passes(s, g) ==
    /\ ThetaBreach => Signed(s) * g.theta > 0
    /\ DeltaBreachDir * Signed(s) * g.delta <= 0

\* Mutant: the cache is looked up without the time of the fit.
CachedAnyFit == {c[2] : c \in cache}

\* theo_cache at the fit in force, at most one entry.
Cached == {c[2] : c \in {d \in cache : d[1] = surf[1].fit_ts_ns}}

Greeks == IF Cached = {} THEN Fit.greeks ELSE CHOOSE g \in Cached : TRUE

\* A miss is computed and cached; a full cache keeps only the fit in force.
CacheAfter ==
    IF Cached # {} THEN cache
    ELSE {c \in cache : Cardinality(cache) > CacheCap => c[1] = surf[1].fit_ts_ns}
            \union {<<surf[1].fit_ts_ns, Fit.greeks>>}

\* First-order reprice from the spot of the fit; delta counts halves.
Theo(g) ==
    LET t == g.theo + (g.delta * (spot - surf[1].spot_at_fit)) \div 2
    IN  IF t < MinTheo THEN MinTheo ELSE t

-----------------------------------------------------------------------------
(* decide_on_tick, on the merged tick m.                                   *)

\* The gates before the risk block, in the order of the code.
InScope ==
    /\ spot > 0 /\ ~halted /\ surf # <<>>
    /\ Abs(Strike - Fit.forward) <= MaxOffset
    /\ IF Right = "C" THEN Strike >= Fit.forward - AtmTol
                      ELSE Strike <= Fit.forward + AtmTol

\* The gates on the fit, up to the theoretical price.
FitUsable ==
    /\ now - surf[1].fit_ts_ns <= FitStale
    /\ 2 * Strike >= 2 * Fit.min_k - TickSize
    /\ 2 * Strike <= 2 * Fit.max_k + TickSize
    /\ Abs(spot - Fit.forward) <= MaxDrift
Priced == Fit.greeks.theo > 0

\* The gates on the market.
Quotable(m) ==
    /\ OrZero(m.bid) > 0 /\ OrZero(m.ask) > 0
    /\ OrZero(m.bid_size) >= 1 /\ OrZero(m.ask_size) >= 1
    /\ SpreadMul > 0 => m.ask - m.bid <= 2 * SpreadMul * Edge

\* The best price that is not our own: the next level of the depth, when
\* there is one, or nothing.
External(s, l1, d0, d1) ==
    LET ours(p) == our[s] # <<>> /\ our[s][1].price = p
    IN  IF d0 # Nil THEN IF ours(d0) THEN OrZero(d1) ELSE d0
                    ELSE IF ours(l1) THEN 0 ELSE OrZero(l1)
ExtBid(m) == External("B", m.bid, m.depth_bid_0, m.depth_bid_1)
ExtAsk(m) == External("S", m.ask, m.depth_ask_0, m.depth_ask_1)

\* A jump ahead of the incumbent, if it keeps the edge.
Jump(s, t, theo, m) ==
    LET j == IF s = "B" THEN ExtBid(m) + TickSize ELSE ExtAsk(m) - TickSize
        there == IF s = "B" THEN ExtBid(m) > 0 ELSE ExtAsk(m) > 0
    IN  IF there /\ Signed(s) * (j - t) > 0 /\ Signed(s) * (theo - j) >= Edge
        THEN j ELSE t

Crosses(s, t, m) ==
    IF s = "B" THEN ExtAsk(m) > 0 /\ t >= ExtAsk(m) ELSE ExtBid(m) > 0 /\ t <= ExtBid(m)

\* Mutant: the target is theo's alone.
CapNone(s, t, m) == t

\* At least the edge away from the middle of the market as well.
Cap(s, t, m) ==
    LET c == (m.bid + m.ask) \div 2 - Signed(s) * Edge
    IN  IF Signed(s) * (t - c) > 0 THEN c ELSE t

\* The nearest multiple of the tick; in binary fractions a tie goes either way.
Quantized(t) ==
    {q \in {(t \div TickSize) * TickSize, (t \div TickSize + 1) * TickSize} :
        2 * Abs(q - t) <= TickSize}

Targets(s, m) ==
    LET theo == Theo(Greeks)
        t0 == theo - Signed(s) * Edge
        t1 == Jump(s, t0, theo, m)
        t2 == Cap(s, t1, m)
    IN  IF t0 > 0 /\ ~Crosses(s, t1, m) /\ t2 > 0 /\ improving_passes(s, Greeks)
        THEN Quantized(t2) ELSE {}

\* An un-acked order, one in the dead band and not due a refresh, and one just
\* sent are left alone.
LeftAlone(s, q) ==
    /\ our[s] # <<>>
    /\ LET ex == our[s][1]
           age == now - ex.at
       IN  \/ ~ex.acked /\ age < Unack
           \/ Abs(q - ex.price) < DeadBand * TickSize /\ age <= GtdRefresh
           \/ age < Cooldown

\* Mutant: the newer slot is overwritten.
ConsumeNewer(sl) == IF sl[1] <= sl[2] THEN <<sl[1], now>> ELSE <<now, sl[2]>>

\* OutboundLimiter::try_consume: two sends in the window are the limit; else
\* the older slot is taken.
AtCap(sl) == now - sl[1] < Burst /\ now - sl[2] < Burst
Consume(sl) == IF sl[1] <= sl[2] THEN <<now, sl[2]>> ELSE <<sl[1], now>>

\* One side after the other: each adds its order or leaves the outcome alone.
DecideSide(s, m, o) ==
    LET T == Targets(s, m)
        step(q) == IF LeftAlone(s, q) \/ (Burst > 0 /\ AtCap(o.slots)) THEN o
                   ELSE [sends |-> o.sends \union {[side |-> s, price |-> q]},
                         slots |-> IF Burst > 0 THEN Consume(o.slots) ELSE o.slots]
    IN  IF T = {} THEN {o} ELSE {step(q) : q \in T}
Outcomes(m) ==
    UNION {DecideSide("S", m, o) :
             o \in DecideSide("B", m, [sends |-> {}, slots |-> slots])}

-----------------------------------------------------------------------------
(* The trader's hot thread takes the frames in order.                      *)

\* decode_tick: a field that is nil or not on the wire is None.
assign_opt(w, f) == IF f \in DOMAIN w THEN w[f] ELSE Nil
decode_tick(w) == [f \in Field \union DepthField |-> assign_opt(w, f)]

\* on_tick completes the L1 fields from what it knew of the leg.
Merged(t) == [f \in DOMAIN t |-> IF f \in Field THEN Or(t[f], options[f]) ELSE t[f]]

\* Entries change only for the commands that got onto the ring.
Track(sends, written) ==
    [s \in Sides |->
        IF written /\ \E q \in sends : q.side = s
        THEN <<[price |-> (CHOOSE q \in sends : q.side = s).price, at |-> now,
                acked |-> our[s] # <<>> /\ our[s][1].acked]>>
        ELSE our[s]]

\* The latest three of the times st and n sends now.
LastThree(n, st) ==
    LET all == st \o [i \in 1 .. n |-> now]
    IN  IF Len(all) <= 3 THEN all ELSE SubSeq(all, Len(all) - 2, Len(all))

\* Risk says stop: every quote with an order id is cancelled.
CancelAll(written) ==
    /\ our' = [s \in Sides |-> IF written /\ our[s] # <<>> /\ our[s][1].acked
                               THEN <<>> ELSE our[s]]
    /\ last' = {}
    /\ UNCHANGED <<cache, slots, stamps>>

Quote(m, written) ==
    \E o \in Outcomes(m) :
        /\ our' = Track(o.sends, written)
        /\ slots' = o.slots
        /\ last' = IF written THEN o.sends ELSE {}
        /\ stamps' = IF written THEN LastThree(Cardinality(o.sends), stamps) ELSE stamps

Silent == last' = {} /\ UNCHANGED <<our, slots, stamps>>

decide_on_tick(m, written) ==
    IF ~InScope THEN Silent /\ UNCHANGED cache
    ELSE IF BlockAll THEN CancelAll(written)
    ELSE IF ~FitUsable \/ ~Priced THEN Silent /\ UNCHANGED cache
    ELSE /\ cache' = CacheAfter
         /\ IF Quotable(m) THEN Quote(m, written) ELSE Silent

\* The commands ring may be full as well.
on_tick(w) ==
    LET m == Merged(decode_tick(w))
    IN  /\ options' = [f \in Field |-> m[f]]
        /\ \/ decide_on_tick(m, TRUE) /\ UNCHANGED left
           \/ Spend("loss") /\ decide_on_tick(m, FALSE)
        /\ UNCHANGED <<spot, halted, surf, risk>>

Take(ty) == ring # <<>> /\ ring[1].ty = ty /\ ring' = Tail(ring)

HandleTick ==
    /\ Take("tick")
    /\ on_tick(ring[1].val)
    /\ UNCHANGED <<sc, now, broker, routed, fresh>>

Received(r) == [delta |-> r.delta, theta |-> r.theta, over |-> r.over, at |-> now]

HandleState ==
    /\ \/ /\ Take("underlying_tick") /\ spot' = ring[1].val
          /\ UNCHANGED <<halted, surf, risk>>
       \/ /\ Take("vol_surface") /\ surf' = <<ring[1].val>>
          /\ UNCHANGED <<spot, halted, risk>>
       \/ /\ Take("risk_state") /\ risk' = <<Received(ring[1].val)>>
          /\ UNCHANGED <<spot, halted, surf>>
       \/ /\ Take("halt") /\ halted' = ring[1].val
          /\ UNCHANGED <<spot, surf, risk>>
    /\ last' = {}
    /\ UNCHANGED <<sc, left, now, broker, options, cache, our, slots, history>>

\* The ack of an order, or its end.
OrderEvent(s) ==
    /\ our[s] # <<>>
    /\ Spend("ours")
    /\ \/ ~our[s][1].acked /\ our' = [our EXCEPT ![s] = <<[@[1] EXCEPT !.acked = TRUE]>>]
       \/ our' = [our EXCEPT ![s] = <<>>]
    /\ last' = {}
    /\ UNCHANGED <<sc, now, broker, ring, options, spot, halted, surf, cache, risk,
                   slots, history>>

Elapse(d) ==
    /\ d \in sc.steps
    /\ Spend("step")
    /\ now' = now + d
    /\ last' = {}
    /\ UNCHANGED <<sc, broker, ring, trader, history>>

\* A new broker process subscribes again and starts from empty caches, and
\* creates the ring anew; a new trader process starts from nothing.
BrokerRestart ==
    /\ Spend("crash")
    /\ book' = NoTick /\ und' = 0 /\ fast' = FALSE /\ entry' = <<>>
    /\ ticks' = <<>> /\ md' = NoData /\ ring' = <<>>
    /\ routed' = {} /\ fresh' = FALSE /\ last' = {}
    /\ UNCHANGED <<sc, now, trader, stamps>>

TraderRestart ==
    /\ Spend("crash")
    /\ options' = NoTick /\ spot' = 0 /\ halted' = FALSE
    /\ surf' = <<>> /\ cache' = {} /\ risk' = <<>>
    /\ our' = [s \in Sides |-> <<>>] /\ slots' = <<0, 0>>
    /\ fresh' = FALSE /\ last' = {} /\ stamps' = <<>>
    /\ UNCHANGED <<sc, now, broker, ring, routed>>

\* Boot, or, in a scenario that is about what follows, a trader and a broker
\* that have exchanged the spot, a fit, a risk state and the leg's L1.
Cold ==
    /\ book = NoTick /\ und = 0 /\ fast = FALSE /\ entry = <<>>
    /\ md = NoData /\ routed = {} /\ fresh = FALSE
    /\ options = NoTick /\ spot = 0 /\ halted = FALSE
    /\ surf = <<>> /\ cache = {} /\ risk = <<>>
    /\ our = [s \in Sides |-> <<>>] /\ slots = <<0, 0>>

Warm(w) ==
    /\ book = w.l1 /\ und = w.und /\ fast = TRUE /\ entry = <<w.l1>>
    /\ md = [f \in DOMAIN NoData |-> IF f = "und" THEN w.und ELSE w.l1[f]]
    /\ routed = Field /\ fresh = TRUE
    /\ options = w.l1 /\ spot = w.und /\ halted = FALSE
    /\ surf = <<[fit |-> w.fit, spot_at_fit |-> w.und, fit_ts_ns |-> now]>>
    /\ cache = {} /\ risk = <<[delta |-> 0, theta |-> 0, over |-> FALSE, at |-> now]>>
    /\ our = [s \in Sides |-> <<>>] /\ slots = <<0, 0>>

Init ==
    /\ sc \in Scenarios /\ left = sc.left
    /\ now = Burst
    /\ ticks = <<>> /\ ring = <<>>
    /\ IF sc.warm = {} THEN Cold ELSE \E w \in sc.warm : Warm(w)
    /\ last = {} /\ stamps = <<>>

Next ==
    \/ \E f \in Field : \E v \in sc.px \union sc.sz : RouteTick(f, v)
    \/ \E p \in sc.und : RouteUnderlying(p)
    \/ install_tick_fastpath
    \/ pump_ticks
    \/ \E g \in sc.fits : fit_and_publish(g)
    \/ \E r \in sc.risks : Announce("risk", "risk_state", r)
    \/ \E b \in BOOLEAN : Announce("halt", "halt", b)
    \/ HandleTick
    \/ HandleState
    \/ \E s \in Sides : OrderEvent(s)
    \/ \E d \in sc.steps : Elapse(d)
    \/ BrokerRestart
    \/ TraderRestart

Spec == Init /\ [][Next]_vars

-----------------------------------------------------------------------------
(* Properties.                                                             *)

Middle == (options.bid + options.ask) \div 2

\* Whatever was dropped, merged or restarted in between, once the latest tick
\* of the leg has been handled the trader's view of each field the publisher
\* was given is what IBKR streamed last, and a side that went empty is seen
\* empty.
FeedFollowed ==
    fresh /\ (\A i \in DOMAIN ring : ring[i].ty # "tick")
        => \A f \in routed : options[f] = book[f]

\* on_tick sends every order with the configured edge, less the rounding to a
\* tick, to the theoretical price of the fit in force, repriced from the spot of
\* that fit to the trader's spot.
EdgeToTheo ==
    \A q \in last :
        2 * Signed(q.side) * (Theo(Fit.greeks) - q.price) >= 2 * Edge - TickSize

\* However wrong the theoretical price is, on_tick sends every order with that
\* edge to the middle of the market as well, and crosses no market that is not
\* crossed itself.
EdgeToMarket ==
    \A q \in last :
        /\ 2 * Signed(q.side) * (Middle - q.price) >= 2 * Edge - TickSize
        /\ options.bid <= options.ask =>
               IF q.side = "B" THEN q.price < options.ask ELSE q.price > options.bid

\* on_tick sends no order on a risk state that is old or says stop; one under a
\* breach of theta or delta brings that greek back, were it filled.
BreachNeverWorsened ==
    \A q \in last :
        LET theta == risk[1].theta + Signed(q.side) * Fit.greeks.theta
            delta == 2 * risk[1].delta + Signed(q.side) * Fit.greeks.delta
        IN  /\ now - risk[1].at <= RiskStale /\ ~risk[1].over
            /\ ThetaKill < 0 /\ risk[1].theta < ThetaKill => theta > risk[1].theta
            /\ Abs(risk[1].delta) > DeltaCeiling => Abs(delta) <= Abs(2 * risk[1].delta)

\* on_tick sends no three orders within the burst window, over both sides and all
\* ticks.
BurstCap == Len(stamps) = 3 => stamps[3] - stamps[1] >= Burst

\* Not so: the edge to theo survives the rounding whole.
FullEdgeToTheo == \A q \in last : Signed(q.side) * (Theo(Fit.greeks) - q.price) >= Edge

\* Not so: what the publisher holds of the leg is what IBKR streamed last.  It
\* is seeded from market_data, which may lag and never learns of an empty side.
SeedCurrent ==
    entry # <<>> => \A f \in Field : entry[1][f] \in {Nil, book[f]}

\* Not so: a leg IBKR quotes on both sides is a point of every fit made while
\* no tick is on its way.  A price tick zeroes the size in market_data.
QuotedLegFits ==
    ticks = <<>> /\ 0 < book.bid /\ book.bid < book.ask
            /\ book.bid_size > 0 /\ book.ask_size > 0
        => md.bid_size > 0 /\ md.ask_size > 0

\* Not so: a quote that would worsen a breach does not stay in the market.
NothingWorseRests ==
    \A s \in Sides :
        our[s] # <<>> /\ surf # <<>> /\ risk # <<>> => improving_passes(s, Fit.greeks)
=============================================================================
