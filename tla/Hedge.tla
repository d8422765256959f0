------------------------------- MODULE Hedge -------------------------------
(***************************************************************************)
(* The delta hedge of one product, in execute mode: the option book        *)
(* (corsair_position/src/portfolio.rs), the HedgeManager                   *)
(* (corsair_hedge/src/manager.rs), and the three broker tasks that work on *)
(* both (corsair_broker/src/tasks.rs): pump_fills, periodic_hedge and      *)
(* periodic_greek_refresh.                                                 *)
(*                                                                         *)
(* The tasks run on several threads: a step is one critical section of the *)
(* portfolio or hedge lock, or one message.  Deltas are integers in units  *)
(* of 1 / Unit of a contract; prices and P&L are left out.  The gateway is *)
(* external: it fills orders, and reports an execution twice, once on the  *)
(* execution stream and once by the position it leads to, in either order. *)
(*                                                                         *)
(* place_order's wait for the gateway's answer is not a step: until it     *)
(* ends, the task simply does not move.                                    *)
(***************************************************************************)
EXTENDS Integers, Sequences, FiniteSets, Functions

CONSTANTS
    Options,         \* option contracts
    HedgeLeg,        \* the futures contract
    Unregistered,    \* options the market data registry does not know
    DeltaOf,         \* delta of one contract once greeks are computed
    Unit,            \* the delta of one futures contract
    Tolerance,       \* tolerance_deltas
    TradeQtys,       \* signed sizes of option executions
    SeedBooks,       \* option positions the gateway may hold at boot
    SeedHedges,      \* futures positions it may hold at boot
    FillCap,         \* FILL_CHANNEL_CAP
    ExecIdsMax,      \* PROCESSED_EXEC_IDS_MAX
    ReconcileEvery,  \* periodic_hedge reconciles on every n-th tick
    MaxTrades,       \* bound: option executions
    MaxFaults,       \* bound: executions reported again, hedge orders filled
                     \* in part, cancelled or refused
    SlowGateway      \* may a tick come before the last order is settled?

Instruments == Options \cup {HedgeLeg}

ASSUME HedgeAssumption ==
    /\ IsFiniteSet(Options) /\ HedgeLeg \notin Options /\ Unregistered \subseteq Options
    /\ DeltaOf \in [Options -> Int] /\ Unit \in Nat \ {0} /\ Tolerance \in Nat
    /\ TradeQtys \subseteq Int \ {0}
    /\ SeedBooks \subseteq [Options -> Int] /\ SeedHedges \subseteq Int
    /\ FillCap \in Nat \ {0} /\ ExecIdsMax \in Nat \ {0}
    /\ ReconcileEvery \in Nat \ {0}
    /\ MaxTrades \in Nat /\ MaxFaults \in Nat
    /\ SlowGateway \in BOOLEAN

VARIABLES
    ibkr,       \* true positions, at the gateway
    exposure,   \* history: their true net delta
    cache,      \* BrokerState::positions
    orders,     \* hedge orders in flight, signed
    fills,      \* the fills channel, one receiver
    lagged,     \* the receiver has missed a fill
    book,       \* PortfolioState: quantity per option, 0 for no position
    greeks,     \* options whose position has its delta; the others show 0
    hedge_qty,  \* HedgeState
    processed,  \* processed_exec_ids, oldest first
    contract,   \* was the hedge contract resolved at boot?
    marks,      \* prices known: "hedge" and "underlying"
    pump,       \* pump_fills: stage, the order to place, positions fetched
    per,        \* periodic_hedge: stage, order, tick_count, snapshot, gate
    used,       \* trades and faults so far
    exact       \* history: no fill missed and no hedge_qty replaced so far

gatewayVars == << ibkr, exposure, cache, orders >>
channelVars == << fills, lagged >>
hedgeVars   == << hedge_qty, processed >>
stateVars   == << book, greeks, hedgeVars, exact >>
envVars     == << contract, marks, used >>
vars == << gatewayVars, channelVars, stateVars, envVars, pump, per >>

NoSnap == [i \in Instruments |-> 0]

ExecIds == 0 .. FillCap + ExecIdsMax + 1
Execs   == [id : ExecIds, on : Instruments, qty : Int]

\* Types of all variables.
TypeOK ==
    /\ ibkr \in [Instruments -> Int] /\ exposure \in Int /\ cache \in [Instruments -> Int]
    /\ orders \in Seq(Int)
    /\ fills \in Seq(Execs) /\ Len(fills) <= FillCap
    /\ lagged \in BOOLEAN
    /\ book \in [Options -> Int] /\ greeks \subseteq Options
    /\ hedge_qty \in Int
    /\ processed \in Seq(ExecIds) /\ Len(processed) <= ExecIdsMax
    /\ contract \in BOOLEAN /\ marks \subseteq {"hedge", "underlying"}
    /\ pump \in [pc : {"recv", "resync", "rebalance", "place"}, order : Int,
                 snap : [Instruments -> Int]]
    /\ per \in [pc : {"tick", "options", "hedge", "rebalance", "place"},
                order : Int, tick_count : 0 .. ReconcileEvery - 1,
                snap : [Instruments -> Int], due : BOOLEAN]
    /\ used \in [trades : 0 .. MaxTrades, faults : 0 .. MaxFaults]
    /\ exact \in BOOLEAN

-----------------------------------------------------------------------------
(* The option book and the hedge decision *)

Abs(x) == IF x < 0 THEN -x ELSE x

\* f64::round of d / Unit: half a contract rounds away from zero.
RoundToContracts(d) ==
    IF d >= 0 THEN (2 * d + Unit) \div (2 * Unit)
              ELSE -((2 * (-d) + Unit) \div (2 * Unit))

Delta(i) == IF i = HedgeLeg THEN Unit ELSE DeltaOf[i]

\* delta_for_product: a position whose greeks are not computed counts as 0.
DeltaForProduct == SumFunction([o \in greeks |-> DeltaOf[o] * book[o]])

\* maybe_rebalance and rebalance: the signed order, 0 for Idle.
Rebalance ==
    IF Abs(DeltaForProduct + hedge_qty * Unit) <= Tolerance
    THEN 0
    ELSE -RoundToContracts(DeltaForProduct) - hedge_qty

\* add_fill: open, merge, flip, or remove at zero.  A new position has no
\* greeks yet; an existing one keeps its own.
add_fill(o, qty) ==
    /\ book' = [book EXCEPT ![o] = @ + qty]
    /\ greeks' = IF book[o] + qty = 0 THEN greeks \ {o} ELSE greeks

\* Mutant of ReconcileOptions: only legs the gateway lists are looked at.
ReconcileListedOptions(positions) ==
    LET listed == {o \in Options : positions[o] # 0}
        same   == \A o \in listed : book[o] = positions[o]
    IN  /\ book' = [o \in Options |-> IF o \in listed THEN positions[o] ELSE book[o]]
        /\ greeks' = IF same THEN greeks ELSE {}

\* reconcile_options_with_broker_positions: on any difference the book is
\* replaced wholesale, and every position in it starts without greeks.
ReconcileOptions(positions) ==
    LET fetched == [o \in Options |-> positions[o]]
    IN  /\ book' = fetched
        /\ greeks' = IF book = fetched THEN greeks ELSE {}

-----------------------------------------------------------------------------
\* seed_positions_from_broker, after the initial snapshot of the gateway.
Init ==
    /\ \E seed \in SeedBooks, h \in SeedHedges :
          ibkr = [i \in Instruments |-> IF i = HedgeLeg THEN h ELSE seed[i]]
    /\ exposure = SumFunction([i \in Instruments |-> Delta(i) * ibkr[i]])
    /\ cache = ibkr
    /\ orders = << >> /\ fills = << >> /\ lagged = FALSE
    /\ book = [o \in Options |-> ibkr[o]] /\ greeks = {}
    /\ hedge_qty = ibkr[HedgeLeg] /\ processed = << >>
    /\ contract \in BOOLEAN /\ marks = {}
    /\ pump = [pc |-> "recv", order |-> 0, snap |-> NoSnap]
    /\ per = [pc |-> "tick", order |-> 0, tick_count |-> 0, snap |-> NoSnap, due |-> TRUE]
    /\ used = [trades |-> 0, faults |-> 0]
    /\ exact = TRUE

-----------------------------------------------------------------------------
(* The gateway and the market *)

RangeOf(s) == {s[i] : i \in 1 .. Len(s)}

\* An id nobody remembers: exec ids are only ever compared for equality.
FreshId == CHOOSE id \in ExecIds :
    /\ id \notin RangeOf(processed)
    /\ \A e \in RangeOf(fills) : e.id # id

\* One broadcast send: a full channel loses its oldest entry.
SendFill(e) ==
    /\ fills' = Append(IF Len(fills) = FillCap THEN Tail(fills) ELSE fills, e)
    /\ lagged' = (lagged \/ Len(fills) = FillCap)
    /\ exact' = (exact /\ Len(fills) < FillCap)

Report(i, qty) ==
    LET e == [id |-> FreshId, on |-> i, qty |-> qty]
    IN  /\ ibkr' = [ibkr EXCEPT ![i] = @ + qty]
        /\ exposure' = exposure + qty * Delta(i)
        /\ SendFill(e)

\* One of the trader's quotes is filled.
OptionTrade(o, qty) ==
    /\ used.trades < MaxTrades
    /\ used' = [used EXCEPT !.trades = @ + 1]
    /\ Report(o, qty)
    /\ UNCHANGED << cache, orders, book, greeks, hedgeVars, contract, marks, pump, per >>

\* n contracts of the oldest hedge order are filled; a rest stays in flight.
FillOrder(n) ==
    /\ LET qty  == IF Head(orders) > 0 THEN n ELSE -n
           rest == Head(orders) - qty
       IN  /\ \/ rest = 0 /\ orders' = Tail(orders) /\ UNCHANGED used
              \/ /\ rest # 0 /\ used.faults < MaxFaults
                 /\ orders' = << rest >> \o Tail(orders)
                 /\ used' = [used EXCEPT !.faults = @ + 1]
           /\ Report(HedgeLeg, qty)
    /\ UNCHANGED << cache, book, greeks, hedgeVars, contract, marks, pump, per >>

FillOldestOrder ==
    /\ orders # << >>
    /\ \E n \in 1 .. Abs(Head(orders)) : FillOrder(n)

\* The remainder of an immediate-or-cancel order is cancelled.
MissOrder ==
    /\ orders # << >> /\ used.faults < MaxFaults
    /\ orders' = Tail(orders)
    /\ used' = [used EXCEPT !.faults = @ + 1]
    /\ UNCHANGED << ibkr, exposure, cache, channelVars, stateVars, contract, marks, pump, per >>

\* The gateway reports its last execution again.
RepeatFill ==
    /\ fills # << >> /\ used.faults < MaxFaults
    /\ used' = [used EXCEPT !.faults = @ + 1]
    /\ SendFill(fills[Len(fills)])
    /\ UNCHANGED << gatewayVars, book, greeks, hedgeVars, contract, marks, pump, per >>

\* route(Position): the cache follows the gateway; a flat leg leaves it.
PositionMsg(i) ==
    /\ cache[i] # ibkr[i]
    /\ cache' = [cache EXCEPT ![i] = ibkr[i]]
    /\ UNCHANGED << ibkr, exposure, orders, channelVars, stateVars, envVars, pump, per >>

MarkArrives(m) ==
    /\ m \notin marks
    /\ marks' = marks \cup {m}
    /\ UNCHANGED << gatewayVars, channelVars, stateVars, contract, used, pump, per >>

\* periodic_greek_refresh
RefreshGreeks ==
    /\ "underlying" \in marks
    /\ greeks' = {o \in Options : book[o] # 0}
    /\ UNCHANGED << gatewayVars, channelVars, book, hedgeVars, exact, envVars, pump, per >>

-----------------------------------------------------------------------------
(* pump_fills *)

\* RecvError::Lagged: the receiver reports the loss before the next fill,
\* and the positions are fetched ...
PumpLagged ==
    /\ pump.pc = "recv" /\ lagged
    /\ lagged' = FALSE
    /\ pump' = [pump EXCEPT !.pc = "resync", !.snap = cache]
    /\ UNCHANGED << gatewayVars, fills, stateVars, envVars, per >>

\* ... to re-sync the option book, and not the hedge.
PumpResync ==
    /\ pump.pc = "resync"
    /\ ReconcileOptions(pump.snap)
    /\ pump' = [pump EXCEPT !.pc = "recv", !.snap = NoSnap]
    /\ UNCHANGED << gatewayVars, channelVars, hedgeVars, exact, envVars, per >>

\* HedgeState::apply_fill: the quantity; entry price and P&L are left out.
apply_fill(qty) == hedge_qty' = hedge_qty + qty

\* Mutant of apply_broker_fill: exec ids are not compared.
ApplyEveryFill(e) == apply_fill(e.qty) /\ UNCHANGED processed

\* apply_broker_fill, for a fill on the hedge leg: each exec id once; at the
\* limit the oldest id is forgotten.  Without a resolved contract the fill is
\* taken for an option's and ignored.
apply_broker_fill(e) ==
    IF contract /\ e.id \notin RangeOf(processed)
    THEN /\ apply_fill(e.qty)
         /\ processed' = Append(IF Len(processed) >= ExecIdsMax THEN Tail(processed)
                                                                ELSE processed, e.id)
    ELSE UNCHANGED hedgeVars

\* handle_fill on the hedge leg.
PumpHedgeFill ==
    /\ pump.pc = "recv" /\ ~lagged
    /\ fills # << >> /\ Head(fills).on = HedgeLeg
    /\ fills' = Tail(fills)
    /\ apply_broker_fill(Head(fills))
    /\ UNCHANGED << gatewayVars, lagged, book, greeks, exact, envVars, pump, per >>

\* handle_fill on an option: unknown instruments are ignored; the exec id is
\* not looked at.
PumpOptionFill ==
    /\ pump.pc = "recv" /\ ~lagged
    /\ fills # << >> /\ Head(fills).on \in Options
    /\ fills' = Tail(fills)
    /\ IF Head(fills).on \in Unregistered
       THEN UNCHANGED << book, greeks, pump >>
       ELSE /\ add_fill(Head(fills).on, Head(fills).qty)
            /\ pump' = [pump EXCEPT !.pc = "rebalance"]
    /\ UNCHANGED << gatewayVars, lagged, hedgeVars, exact, envVars, per >>

\* rebalance_on_fill, under the portfolio and hedge locks.
PumpRebalance ==
    /\ pump.pc = "rebalance"
    /\ pump' = [pump EXCEPT !.pc = IF Rebalance = 0 THEN "recv" ELSE "place",
                             !.order = Rebalance]
    /\ UNCHANGED << gatewayVars, channelVars, stateVars, envVars, per >>

\* place_hedge_order: skipped without a contract or a price; may fail.
place_hedge_order(order) ==
    \/ /\ contract /\ marks # {}
       /\ orders' = Append(orders, order)
       /\ UNCHANGED used
    \/ /\ ~contract \/ marks = {}
       /\ UNCHANGED << orders, used >>
    \/ /\ contract /\ marks # {} /\ used.faults < MaxFaults
       /\ used' = [used EXCEPT !.faults = @ + 1]
       /\ UNCHANGED orders

PumpPlace ==
    /\ pump.pc = "place"
    /\ place_hedge_order(pump.order)
    /\ pump' = [pump EXCEPT !.pc = "recv", !.order = 0]
    /\ UNCHANGED << ibkr, exposure, cache, channelVars, stateVars, contract, marks, per >>

-----------------------------------------------------------------------------
(* periodic_hedge *)

Settled == orders = << >> /\ fills = << >> /\ cache = ibkr

\* The 30 s tick; on every n-th the positions are fetched first.
Tick ==
    /\ per.pc = "tick"
    /\ SlowGateway \/ Settled
    /\ LET n == (per.tick_count + 1) % ReconcileEvery
       IN  per' = [per EXCEPT !.pc = IF n = 0 THEN "options" ELSE "rebalance",
                              !.tick_count = n,
                              !.snap = IF n = 0 THEN cache ELSE @]
    /\ UNCHANGED << gatewayVars, channelVars, stateVars, envVars, pump >>

PeriodicReconcileOptions ==
    /\ per.pc = "options"
    /\ ReconcileOptions(per.snap)
    /\ per' = [per EXCEPT !.pc = "hedge"]
    /\ UNCHANGED << gatewayVars, channelVars, hedgeVars, exact, envVars, pump >>

\* Mutant of PeriodicReconcileHedge: the hedge is not reconciled.
PeriodicKeepHedge ==
    /\ per.pc = "hedge"
    /\ per' = [per EXCEPT !.pc = "rebalance", !.snap = NoSnap]
    /\ UNCHANGED << gatewayVars, channelVars, stateVars, envVars, pump >>

\* reconcile_with_position: the broker's number wins.
reconcile_with_position(broker_qty) == hedge_qty' = broker_qty

\* reconcile_with_position for every futures position in the list, which has
\* no entry for a leg that is flat.
PeriodicReconcileHedge ==
    /\ per.pc = "hedge"
    /\ IF per.snap[HedgeLeg] # 0 THEN reconcile_with_position(per.snap[HedgeLeg])
                                 ELSE UNCHANGED hedge_qty
    /\ exact' = (exact /\ hedge_qty' = hedge_qty)
    /\ per' = [per EXCEPT !.pc = "rebalance", !.snap = NoSnap]
    /\ UNCHANGED << gatewayVars, channelVars, book, greeks, processed, envVars, pump >>

\* rebalance_periodic: a tick that is early against the cadence is idle, and
\* the next one is then due.
PeriodicRebalance ==
    /\ per.pc = "rebalance"
    /\ \/ per' = [per EXCEPT !.pc = IF Rebalance = 0 THEN "tick" ELSE "place",
                             !.order = Rebalance, !.due = FALSE]
       \/ ~per.due /\ per' = [per EXCEPT !.pc = "tick", !.due = TRUE]
    /\ UNCHANGED << gatewayVars, channelVars, stateVars, envVars, pump >>

PeriodicPlace ==
    /\ per.pc = "place"
    /\ place_hedge_order(per.order)
    /\ per' = [per EXCEPT !.pc = "tick", !.order = 0]
    /\ UNCHANGED << ibkr, exposure, cache, channelVars, stateVars, contract, marks, pump >>

-----------------------------------------------------------------------------
Gateway ==
    \/ \E o \in Options, qty \in TradeQtys : OptionTrade(o, qty)
    \/ FillOldestOrder
    \/ MissOrder \/ RepeatFill
    \/ \E i \in Instruments : PositionMsg(i)
    \/ \E m \in {"hedge", "underlying"} : MarkArrives(m)

Pump ==
    \/ PumpLagged \/ PumpResync \/ PumpHedgeFill \/ PumpOptionFill \/ PumpRebalance \/ PumpPlace

Periodic ==
    \/ Tick \/ PeriodicReconcileOptions \/ PeriodicReconcileHedge
    \/ PeriodicRebalance \/ PeriodicPlace

Next == Gateway \/ Pump \/ Periodic \/ RefreshGreeks

\* The three tasks run; the gateway answers orders and reports positions, and
\* the market ticks.  Nobody has to trade.
Fairness ==
    /\ WF_vars(Pump) /\ WF_vars(Periodic) /\ WF_vars(RefreshGreeks)
    /\ WF_vars(FillOldestOrder)
    /\ \A i \in Instruments : WF_vars(PositionMsg(i))
    /\ \A m \in {"hedge", "underlying"} : WF_vars(MarkArrives(m))

Spec == Init /\ [][Next]_vars
FairSpec == Spec /\ Fairness

-----------------------------------------------------------------------------
(* Properties *)

\* Quantity of the hedge executions still in the channel, each id once and
\* none that was applied.
HedgeInFlight ==
    LET new == {e \in RangeOf(fills) : e.on = HedgeLeg /\ e.id \notin RangeOf(processed)}
    IN  SumFunction([e \in new |-> e.qty])

\* As long as no fill was missed and no reconcile replaced it, hedge_qty is
\* the gateway's position short of the executions on their way: an execution
\* reported twice counts once, also after processed_exec_ids has overflowed.
HedgeConserved ==
    contract /\ exact => hedge_qty + HedgeInFlight = ibkr[HedgeLeg]

\* However many fills were missed, repeated or on unknown instruments, once
\* trading stops the books agree with the gateway again and stay so.  A hedge
\* leg that is flat at the gateway is the exception: see FlatLegReconciled.
BooksSettle ==
    <>[](/\ \A o \in Options : book[o] = ibkr[o]
         /\ hedge_qty = ibkr[HedgeLeg] \/ ibkr[HedgeLeg] = 0)

\* With a hedge contract, once trading stops the true net delta comes into
\* the tolerance band and stays there, whatever the two tasks ordered on the
\* way; again unless the manager believes in a hedge that the gateway lacks.
DeltaSettles ==
    <>[](\/ Abs(exposure) <= Tolerance
         \/ ~contract
         \/ ibkr[HedgeLeg] = 0 /\ hedge_qty # 0)

\* What HedgeState::touch_freshness is called to assert after a reconcile:
\* the quantity held matches the broker's.
FlatLegReconciled == <>[](hedge_qty = ibkr[HedgeLeg])

\* No two hedge orders at once for one exposure.
OneOrderPerExposure == Len(orders) <= 1

\* A hedge order is sized from a book whose positions all have their delta.
OrdersSeeGreeks ==
    \A t \in {pump, per} : t.pc = "place" => \A o \in Options : book[o] # 0 => o \in greeks
=============================================================================
