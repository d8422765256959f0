# A TLA+ verification project for corsair

Corsair is an options market maker in Rust. Two processes share two
memory-mapped rings:

* the **broker daemon** (`corsair_broker`) holds the IBKR connection, the
  positions, the risk monitor and the hedge, and runs about twenty tokio tasks;
* the **trader** (`corsair_trader`) holds the quotes. Its hot thread decides on
  every tick, and a 10 Hz staleness task refreshes or pulls resting orders.

Source paths below are relative to `src/rust/`.

## 1. Inventory

| Part | State | Operations | Talks to | Hard behaviour |
|---|---|---|---|---|
| Ring and frames (`corsair_ipc/src/ring.rs`, `protocol.rs`) | two offsets, data region, notify FIFO, per-reader buffer | write, read, notify, drain, unpack | every message between the processes | SPSC interleaving, wrap-around, overflow, restart of either side |
| SHM server (`corsair_ipc/src/server.rs`) | both rings | create, publish, command pump | bridge | re-creates the files under a live trader |
| Kill switch (`corsair_risk/src/*`, `corsair_broker/src/tasks.rs`) | the active kill, sentinels, which breach | check, fire, clear, sweep | bridge, adapter, trader | four tasks fire; check and fire sit in different critical sections; a kill overwrites another |
| Bridge (`corsair_broker/src/ipc.rs`) | contract and status caches | dispatch, handle_place/cancel/modify, forward_*, publish_kill, publish_hello | both processes | one task per command, so commands reorder |
| Native adapter (`corsair_broker_ibkr_native/src/broker.rs`) | pending acks and contract requests, tick and depth routes, open-order and position caches, seeding flags | place, cancel, modify, route, qualify, subscribe | IBKR | ack by whichever message comes first, timeouts, answers that come too late |
| Client and codec (`client.rs`, `codec.rs`, `decoder.rs`, `requests.rs`) | socket, next order id, bounded channel to the dispatcher | connect, send, receive | IBKR | EOF is only logged; a full channel drops frames |
| Trader (`corsair_trader/src/main.rs`, `decision.rs`, `state.rs`) | `our_orders`, `orderid_to_key`, `kills`, option and risk state, fits, theo cache, burst limiter | process_event, on_tick, decide_on_tick, staleness_check | rings | two threads on the same maps; unacked orders; prices, fits and risk of different ages in one decision |
| Hedge (`corsair_hedge/src/*`) | hedge quantity, seen exec ids | rebalance, apply fill, reconcile | adapter, portfolio | places again before its fill is known |
| Positions (`corsair_position/src/*`) | positions, realized P&L | add_fill, refresh, reset, replace | hedge, risk | P&L resync across three locks; missed and repeated fills |
| Constraint checker (`corsair_constraint/src/*`) | margin scale | update; its check has no caller | - | floating point |
| Market data (`corsair_market_data/src/*`) | quotes, depth books, underlying | tick, depth, register | all | depth updates by position; a second copy of the feed, behind the trader's |
| Subscriptions (`corsair_broker/src/subscriptions.rs`) | subscribed window, depth rotation | subscribe at boot, recenter, rotate | adapter | partial failure of a batch; few depth lines |
| Snapshot, notify, jsonl, latency | output files | write | - | I/O |
| Vol surface (`corsair_broker/src/vol_surface.rs`) | - | fit and publish once a minute | market data, trader | which legs are points of a fit |
| Pricing, calibration, SPAN | - | pure functions | - | floating point |
| Boot and locks (`runtime.rs`, `main.rs`) | the mutexes of all tasks | seed, resolve, spawn | all | positions still streaming; nested mutexes |

What makes each part correct:

* *ring*: no unread byte is overwritten, frames arrive whole, once, in order,
  and eventually; a restart of one side does not corrupt the other;
* *kill switch*: an active kill reaches the trader; a sticky kill stays; orders
  that rest when it fires are pulled; a standing breach ends in a kill;
* *order flow*: one quote per key; an entry is tied to the order it stands for;
  an entry without an answer does not keep its key; a cancel ends its order;
* *hedge and positions*: each execution counts once; the books converge to
  IBKR's, and the true net delta to the tolerance band;
* *session*: answers reach their own callers, the seed is whole, order ids are
  fresh, each leg of the window has a line, and only one;
* *depth*: never more requests than IBKR allows, books that follow IBKR's, a
  turn for every leg;
* *tick path*: the trader sees what IBKR streamed last; every quote keeps its
  edge to theo and to the market; a breach is never made worse; no bursts;
* *locks*: no cycle of waiting tasks.

`PROJECT.json` lists the hazards at their source lines, with the properties
that cover them or the reason none does.

## 2. Modules

| Module | Models | Checked by | Proved in |
|---|---|---|---|
| `FrameProtocol` | `pack_frame`, `try_unpack_frame`, `unpack_all_frames` | `MCTickPath` | `ShmRingProofs` |
| `FrameBuffer` | a receive buffer with any bytes in it, put to both unpackers | `MCTickPath` | `ShmRingProofs` |
| `FrameQueue` | abstract: a FIFO of bodies bounded in bytes that refuses only a body that is oversize or does not fit | through `ShmRing` | `ShmRingProofs` |
| `ShmRing` | one ring and its FIFO, byte by byte | `MCShmRing` | `ShmRingProofs` |
| `ShmRestart` | `ShmRing` plus trader deaths and broker restarts | `MCShmRestart` | `ShmRingProofs` |
| `KillSwitch` | risk monitor, firing tasks, sweep, rollover, kill and hello messages, the trader's kill map | `MCKillSwitch`, `MCKillLive` | `KillSwitchProofs` |
| `OrderFlow` | the quotes of one key, through trader, bridge, adapter and IBKR | `MCOrderFlow`, `MCOrderThreads` | `OrderFlowProofs` |
| `Hedge` | option book and delta hedge of one product: fills, rebalances, placement, reconcile | `MCHedge` | `HedgeProofs` |
| `Session` | connection, order ids, contract requests, boot sequence, subscriptions and recentering | `MCSession` | `SessionProofs` |
| `MarketDepth` | depth rotation, depth routes, the depth channel, the books | `MCMarketDepth` | `MarketDepthProofs` |
| `TickPath` | one leg from IBKR's tick over publisher, market data, fit and ring to the trader's orders | `MCTickPath` | `TickPathProofs` |
| `LockOrder` | the nested mutexes of all broker tasks | `MCLockOrder` | `LockOrderProofs` |

Definitions whose comment starts with *Mutant* are not part of the model: each
is a plausible bug that the property named beside it must catch.

### FrameProtocol, FrameBuffer, FrameQueue, ShmRing, ShmRestart

Bytes are digits below `ByteBase`, and a length prefix has two of them (the
code has four of base 256), so that a short string can hold complete,
incomplete, empty and oversize frames. `unpack_all_frames` is translated as its
cursor loop; `FrameBuffer` compares it with repeated `try_unpack_frame`
(`OneByOne`) on every buffer, well-formed or not. Recursion is written with
recursive functions.

`ShmRing` has one action per load, byte copied, store and notify. Offsets grow
without bound, as the `u64`s do for any lifetime of the process, and are
reduced modulo `Capacity` only to address `mem`. The release/acquire pairs of
the code justify treating the offset loads and stores as atomic and ordered;
weaker memory models are out of scope. Writers of one ring hold a mutex, hence
a single producer. `log`, `sent`, `refused`, `got`, `delivered` are history variables.

`ShmRestart` picks at start whether the broker is the ring's producer (events)
or consumer (commands). `ClientRestart` loses the trader's locals at any step.
`TruncateFile`, `ZeroWriteOffset`, `ZeroReadOffset` are the stages of
`create_owner`; the trader may keep running against the same inode. The window
in which the truncated file is shorter than the trader's mapping (a SIGBUS) is
left out: it ends the trader, which `ClientRestart` covers.

### KillSwitch

A step is one critical section of the `risk` mutex or one channel or ring
operation. Tasks `risk_check`, `fill`, `errors`, `watchdog` go through
*fire - publish - query - cancel*; `errors` and `watchdog` decide under one lock
and fire under another (`pc = "fire"`), as the code does. Dollar amounts are
reduced to which limits are breached, prices and contracts to order slots. The
sweep works from the adapter's cache, including orders that have just ended.
`AnnouncesReconnect` distinguishes the native adapter (which announces
`Connected` once, at boot) from what the `Broker` trait permits.

### OrderFlow

One key is enough: keys share only the rings, and ring pressure is a fault. The
hot thread (`hot`) alternates *decide - write - track* with the handling of
events; the staleness thread (`stale`) does *scan - write - apply* at any time
in between. `cmds` is a bag, because `dispatch_commands` spawns a task per
command. A cancel is the set of fields that the trader's hand-written encoder
gives it (`encode_cancel_into`), and `handle_cancel` goes on only if the fields
of `CancelOrderCmd` are among them, which they are not; the field names of place
and modify agree and are not modelled. The one-off cancels of a trader that shuts
down have the same fields. IBKR is external: it accepts, amends, cancels, fills
and expires. The
`Faults` constant switches on dropped frames, refusals, timeouts and late acks
one by one. `our_orders` and `orderid_to_key` are updated in one step, which
hides only the moment between two statements (`main.rs:887-896`). The risk
gates, theo and dead band that choose a decision are a free choice here and
modelled in `TickPath`. `MCOrderThreads` adds a history variable, `clean`, that
turns false on the steps the code is known not to make up for (section 4).

### Hedge

A step is one critical section of the `portfolio` or `hedge` mutex, or one
message. `pump` is `pump_fills` with `handle_fill` (*recv - rebalance - place*,
or *resync* after `Lagged`), `per` is `periodic_hedge` (*tick - options - hedge -
rebalance - place*, the two middle stages on every `ReconcileEvery`-th tick), and
`RefreshGreeks` is `periodic_greek_refresh`. `book` is the quantity per option;
`greeks` the options whose `Position` carries a delta, all others counting as 0
in `delta_for_product`, as a new, seeded or replaced `Position` does. `contract`
says whether `resolve_hedge_contracts` found the contract at boot: its log line
speaks of a retry (`runtime.rs:452`) but nothing retries. Deltas are integers in
fractions of a contract and do not move with the market.

IBKR is external. It changes `ibkr` and reports the change twice, through the
fills channel (`fills`, which drops its oldest entry when full) and through
position messages (`cache`), in either order. Exec ids are only ever compared,
so an id that nobody remembers may be used again. `exposure` (the true net
delta) and `exact` (nothing missed or replaced so far) are history variables.
`SlowGateway = FALSE` says that within the 30 s between two ticks of
`periodic_hedge` IBKR settles the orders it holds and the fills are consumed; a
slower gateway would be ordered from again on each tick.

Left out: entry price and P&L, observe mode, the second futures month,
executions without an id, expired options, and a seed cut short by the adapter's snapshot timeout.

### Session

One connection and one product, from the handshake on. `main` is the boot of
`Runtime::new` and `subscribe_product`, step by step with its waits; `recenter`
is `run_window_recenter`. Both call the adapter: a call makes a pending entry,
sends, waits, and ends by the answer, an error or its timeout. What the gateway
will still send is a set of jobs, so that answers overtake each other and come
after the timeout; `chan` is the bounded channel to the dispatcher, which drops
what does not fit. A planned leg carries the bits of its strike: the strike
as a number, and whether it is the grid's product of the increment or the literal
of a position. They differ for the strikes in `Drifting` (117 x 0.05 is not
5.85). What is planned and what is missing is told by the bits, what is
registered by the strike rounded to four places (`strike_key`), and the first
bits registered are kept; `Leg` forgets them. `MaxLines` ends the recentering
of a leg that gets one more line in each pass. `Budgets` bounds faults, one record per kind of trouble, so
that each is explored alone with everything else interleaved.

Met on the way, without a run: when no tick comes within 10 s of the boot no
option is ever subscribed, since the recentering starts from registered legs;
`Eof` announces nothing to anyone; `client.rs:133` says that the oldest message
is dropped on overflow, `try_send` drops the newest; `qualify_future` and
`recent_fills` have no caller.

### MarketDepth

A leg is its strike, a level its price, and one side of the book is kept. The
rotator's cycle is planned in one step and carried out request by request.
IBKR's messages pass the socket (`wire`), the dispatcher with `depth_routes`,
and the broadcast (`chan`), which may lag. `iter` is the iteration order of the
options map, which decides between legs at the same distance. `synced` and
`missed` are history variables. An always-on leg whose request was turned down
is not asked for again as long as it is always-on. A leg once quoted stays
quoted: that one loses both prices and with them its place in the pool is left
out.

### TickPath

A tick goes two ways in the broker: into the publisher's `ConsolidatedTick` and
from there to the ring (`FastPath`), and through the broadcast to `market_data`
(`pump_ticks`), from which the fit is made and a new publisher entry is seeded.
In the trader `HandleTick` is one step of the hot thread: decoding, merging,
every gate of `decide_on_tick` in its order, both sides with the limiter, and
the tracking of what was sent. `last` holds what that step sent and is empty
after any other, so an invariant over `last` is about every order that a tick
sends. `staleness_check` sends orders too: it amends an acked order to a new theo
less the edge and renews its GTD (`main.rs:1530-1612`), without the cap to the
market, the risk gates or the limiter. Its interleaving with the hot thread is in
`OrderFlow`; its prices are not modelled, and no property here is about them.

Simplifications that no property depends on: `pump_ticks` waits where the
broadcast would tell it `Lagged`; the frames of both sides of a tick are written
or lost together; the gates for an expired leg and for a missing theta are left
out, so that a side they would stop may go on.

Prices are integers of which `TickSize` make a tick, so that rounding is real
rounding (a tie goes either way, as binary fractions decide); times are ordered
as the thresholds of the code are. Theo and greeks come with the fit and are a
free choice, because calibration and pricing are floating point; the shift by
delta, the cache per fit and the floor are translated. A scenario fixes the
values the environment may take and how often it may act.

Two facts seen on the way: the tick jump of `decide_on_tick` can never fire (a
jump above `theo - edge` that keeps the edge to theo is a contradiction), and
the limiter's comment speaks of the staleness loop, which does not call it.

### LockOrder

A task runs sections, each a chain of nested locks, and every chain of every
task is listed. Data are left out, and with them the order of sections of a
task: between two sections it holds nothing.

## 3. Runs

| Run | Properties | What it shows | Bounds |
|---|---|---|---|
| `tick_path` | `FeedFollowed`, `EdgeToTheo`, `EdgeToMarket`, `BreachNeverWorsened`, `BurstCap`; `CursorWalkAgrees`, `CutsMakeNoDifference` | the feed reaches the trader and every order keeps its edge, risk and rate limits; parsing does not depend on how bytes arrive | a put; 16 markets around each of four theos, then changed, with and without depth; in other scenarios up to four ticks, two fits, three spots, five risk states, one restart, one lost frame; every string of up to 7 digits with every cut |
| `shm_ring` | `RingInv`, `StreamIntact`, `DeliveredInOrder`, `WholeFramesOnly`, `EventuallyDelivered`, `ImplementsFrameQueue` | the ring is a byte-bounded FIFO | 9 bytes, frames of 3 to 5 bytes, one oversize, 5 writes: every alignment of a wrap, overflow, FIFO full |
| `ring_restart` | `NoTornFrame`, `CommandsSurvive`, `RestartHarmlessOutsideOps` | deaths at any step of either ring | same ring, 4 writes, 2 deaths |
| `kill_safety` | `KillsFired`, `KillReachesTrader`, `StickyKillStays` | the kill is known to the trader, who knows of no other, and sticky kills stay | the P&L limit, one crash, one link loss, one rollover, one-frame ring |
| `kill_live` | `SweepCancelsResting`, `StandingBreachKilled` | overlapping sweeps pull what rests; a breach that stands is killed again after a clear | the margin limit; two orders on one day; and with a trader that died the `daily_pnl` sentinel, one link loss, two days |
| `order_threads` | `NoDoubleQuoteYet`, `ModifyTargetsTracked`, `EntryIndexed` | at most one quote per key until a fault the code does not make up for; the two threads do not corrupt the maps | two orders, every fault |
| `hedge` | `HedgeConserved`, `BooksSettle`, `DeltaSettles` | executions count once; books and net delta converge whatever was lost, repeated or ordered twice | a call and a put of delta +-0.5, the put unknown to market data; one trade of +-3, one fault, channel of 2, id set of 1 |
| `session` | `AnswersOwn`, `PendingAwaited`, `SeedWhole`, `OrderIdsFresh`, `LinesPerLeg`, `WindowCovered` | requests and answers of boot and recentering do not get mixed up, and what failed is made up for | two futures, four listed legs, channel of 3, windows of three strikes around two prices, one held leg on a strike that drifts; three lines per leg; one early timeout with one refusal or one break, two order ids |
| `market_depth` | `DepthWithinLimit`, `BookFollows`, `RoutesOwned`, `EveryLegCovered` | the rotation respects the limit and is fair; books follow across re-subscriptions | three legs on two lines, books of two rows, one move across a strike, one rejection, a lag and a break |
| `lock_order` | `NoCircularWait` | no deadlock although the tasks disagree about the order | every task, once each |
| `resting_after_kill` | `KillLeavesNothingResting` (violated) | a place in flight rests after the sweep | one order |
| `cancel_dropped` | `CancelEndsOrder` (violated) | no cancel of the trader reaches IBKR | one order, no fault |

Beside the runs, `MCOrderLive.cfg` (`MCOrderFlow`) checks `UnackedResolves`: with
fair threads and tasks and the 2 s of `UNACK_INFLIGHT_NS`, an entry whose ack was
lost or refused does not keep its key for good.

`kill_safety` and `ring_restart` use a state constraint that cuts behaviours off
where the properties say nothing any more (a frame has been dropped; a restart
caught the trader inside an operation). `kill_live` uses an action constraint
that keeps its two parts of the world apart; it leaves out only steps of which
no fairness is assumed. The runs of `OrderFlow`, `Session` and
`TickPath` do not check deadlock: at the bound on orders, requests or inputs the
model has nothing left to do. Most scenarios of `tick_path` start from a trader
that has a quote, a fit and a risk state, the state that
a boot, a fit and a risk message lead to; the boot itself is in `Feed`.

The bounds are where the mechanisms have their limits: two slots in the burst
limiter and three sends, a cache of one theo and two fits, two depth lines and
three legs, a dispatch channel that the boot can fill.

**Fairness.** Weak fairness of each thread's and task's next step: the consumer
loop polls, including its 100 ms timeout; tokio polls every woken task; the
intervals tick. Nothing is assumed of the market, of IBKR's fills, of the link,
of crashes, or of the trader's decisions, except in `hedge`: there IBKR
eventually fills or cancels each market order and reports positions, and both
futures tick. `EveryLegCovered` needs no fairness: it counts cycles. `SweepCancelsResting` and
`StandingBreachKilled` assume that broker calls do not fail (`BrokerMayFail`);
the adapter's cancel is a socket write.

## 4. Deviations met while modelling

Two are runs (`resting_after_kill`, `cancel_dropped`) and findings in
`PROJECT.json`. The others are reproduced by the configuration named here, in
which TLC reports the property as violated.

| Configuration | Property | What happens |
|---|---|---|
| `MCBrokerRestart.cfg` (`MCShmRestart`) | `CleanAfterRestart` | A trader inside `read_available_into` stores its old read offset after `create_owner` zeroed the header; `ring.rs:109-112` promises a clean (0, 0). |
| `MCPoisonedBuffer.cfg` (`MCShmRestart`) | `BadDrainSkipped` | `main.rs:639-640` says a bad drain is skipped; the buffer is kept, so each later drain fails too. |
| `MCStickyKillLost.cfg` (`MCKillSwitch`) | `StickyKillStays` | With an adapter that announces reconnects, a disconnect kill overwrites a sticky one and is then cleared; `kill.rs:30` asks for a restart. |
| `MCRestartedTrader.cfg` | `RestartedTraderBlocked` | A dropped hello leaves a restarted trader without the kill; `tasks.rs:109-111` says it inherits it. |
| `MCDisconnectStays.cfg` | `DisconnectKillClears` | The native adapter never announces a reconnect, so the kill that `kill.rs:32` says is cleared stays. |
| `MCTraderNeverResumes.cfg` | `TraderResumes` | The broker clears a daily halt and publishes no resume; `state.rs:339-340` expects one. |
| `MCCancelDropped.cfg` (`MCOrderFlow`) with `MaxOrders = 2`, this invariant in place of its property | `NoDoubleQuote` | The risk gates cancel, the trader forgets the order, the broker drops the cancel: the next tick places a second quote beside the first. |
| `MCDeadEntry.cfg` | `DeadEntryCleared` | A terminal status before the place_ack is ignored; the ack then makes an entry of a dead order (`ipc.rs:929-931` says it is cleared). |
| `MCPrices.cfg` | `PricesAgree` | Two amends run as two tasks and reach IBKR in either order. |
| `MCFlatLeg.cfg` (`MCHedge`) | `FlatLegReconciled` | `positions()` has no entry for a flat leg, so a hedge that is flat at IBKR is never put right: after a stale reconcile the manager goes on believing in a contract it does not have, marked fresh each time although `state.rs:101-102` (`corsair_hedge`) says the caller has seen it match the broker. `BooksSettle` and `DeltaSettles` except exactly this case. |
| `MCHedge.cfg`, this property in place of its own | `OneOrderPerExposure` | The fill-driven and the periodic rebalance both order before the first fill is known. `DeltaSettles` shows that the surplus is worked off. |
| `MCHedge.cfg`, likewise | `OrdersSeeGreeks` | A hedge order is sized while positions still show delta 0; `docs/hg_spec_v1.4.md:230` hedges a new position's delta on its fill, and `tasks.rs:675-684` avoids the same race for the risk check only. |
| `MCMarketDepth.cfg`, this property in place of its own | `DepthOnlyWhileSubscribed` | Nothing clears a depth book, so the levels of an ended subscription are still sent with every tick; `TickEvent` says they are None then. |
| `MCSession.cfg`, this property in place of its own | `NothingLeaks` | A contract request whose frame cannot be sent leaves its pending entry, one per leg and pass once the connection is gone. |
| `MCRecenterAdds.cfg` (`MCSession`) | `OnlyMissingAdded` | `subscriptions.rs:226-227` says that a pass only adds missing strikes. It looks for the grid's strike bits; a held leg is registered with those of its position (`register_option` keeps the first), so that every pass opens one more line for it. |
| `MCSession.cfg` with `Held <- HeldBack` and `Budgets <- TwoRefusals`, this property in place of its own | `WindowOnFront` | The recentering takes the earliest registered expiry for the front; it is that of a held back-month leg when no front leg was qualified at boot. |
| `MCHedgeRetry.cfg` (`MCSession`) | `HedgeResolvedYet` | `runtime.rs:452` logs "hedge will retry on next periodic"; nothing does. |
| `MCTickPath.cfg` with `Scenarios <- MarketScenario`, this property in place of its own | `FullEdgeToTheo` | `decision.rs:466` rules out a quote with less than `edge` of edge to theo; rounding to the nearest tick gives away up to half a tick. `EdgeToTheo` states what is left. |
| `MCStaleSeed.cfg` (`MCTickPath`) | `SeedCurrent` | The publisher is installed after the first subscriptions and seeds its entry from `market_data`, which lags and keeps the price of a side that went empty. `FeedFollowed` is about the fields streamed since. |
| `MCWorseRests.cfg` (`MCTickPath`) | `NothingWorseRests` | On a theta or delta breach the gate only stops new orders of the worsening side; the one that rests stays until its GTD, which an amend of `staleness_check` renews. |
| `MCZeroedSize.cfg` (`MCTickPath`) | `QuotedLegFits` | A price tick zeroes the size of its side in `market_data` until the size tick comes, and the fit leaves out legs without size. |

`InDocumentedOrder` (`LockOrder`) is the convention of `runtime.rs:59-63`; the
fill path and the snapshot do not follow it, and `NoCircularWait` shows that
they still cannot block each other, since both take `portfolio` first.

`NoDoubleQuote` holds only until one of a few things happens (`Damage` in
`MCOrderThreads`): a cancel of either thread is written, since the broker drops
it; a frame of the staleness thread, whose entry it removes all the same, or a
place_ack is lost; or an ack is later than the 500 ms of the adapter or the 2 s
of the trader (the code accepts that orphan and bounds it by the 5 s GTD).

## 5. Proofs

TLAPS proves the following for every value of the constants, under the named
assumptions of the modules that declare them; TLC evaluates those assumptions
on every run. Each proof module has one lemma per action and invariant, and a
theorem that combines them.

**`ShmRingProofs`** (`RingAssumption`, `ProtocolAssumption`,
`FrameLimitAssumption`, `RestartAssumption`)

* `RingInvariant`: `Spec => []RingInv`. `RingInv` is inductive as it stands.
  Besides types it says that the offsets are ordered and at most `Capacity`
  apart, that every byte between them is the published one (`UnreadOK`), that
  the bytes copied so far of a frame being written lie in the free part
  (`WritingOK`), and that a read in progress has copied what was published
  (`ReadingOK`). The last two make it inductive: without them nothing is known
  of memory that a copy has half changed. The arithmetic heart is
  `DistinctPositions`: two offsets less than `Capacity` apart have different
  places in the ring. `StreamIntactHolds` follows.
* `MsgInvariant` adds `MsgInv`: the published stream is a concatenation of whole
  frames and both offsets lie between two of them. `DeliveredInOrderAlways` and
  `WholeFramesOnlyAlways` follow from it and from what `unpack_all_frames`
  returns on a concatenation of frames.
* `RingImplementsQueue`: the ring, byte by byte, implements `FrameQueue`: the
  publishing store is `Accept`, a dropped frame `Refuse`, the store that releases
  the bytes read `TakeAvailable`, every other step a stutter.
* `NoTornFrameAlways`, `CommandsSurviveAlways`, `RestartHarmlessAlways`: the
  restart properties, for any number of trader deaths and broker restarts. By
  `RestartInv`, as long as no restart caught the trader inside an operation the
  ring invariant holds, but for the sides a booting owner has yet to reset
  (`Undisturbed`); and while no broker has died the message invariant holds too
  (`FirstBroker`).
* `CursorWalkAgreesAlways`, `CutsMakeNoDifferenceAlways` (`BufferAssumption`): for
  every buffer, whatever its bytes. Both rest on three facts about the cursor
  walk: it has a solution, the walk over a tail is the walk from there on
  (`WalkTail`), and where the walk over a part from the front stops, the walk
  over the whole passes with the same frames so far (`WalkFront`). The second
  theorem is what entitles both sides to unpack whatever a read of the ring
  happens to return.

**`KillSwitchProofs`** (`KillAssumption`)

* `TypeCorrect`, `KillReachesTraderHolds`: one case per action. The second is
  inductive given the types: a fire leaves a publication pending, a publication
  puts the frame in the ring or records its loss, a read moves it into the
  trader's map, a restart puts a welcome in flight that a hello answers with a
  snapshot taken under the lock.
* `KillsFiredAlways`: by `FiredInv` every key on its way to the trader, in a task,
  in the hello being made or in the ring, is a spelling of a kill that fired.
* `StickyKillStaysNative`: assumes `AnnouncesReconnect = FALSE`. The property is
  not inductive: a sticky kill may be overwritten by a disconnect kill.
  `StickyInv` says that this is the only overwriting there is, that no
  `Connected` event is queued, and that a pending fire is of a kind the rollover
  does not clear.

**`OrderFlowProofs`** (`FlowAssumption`)

* `TypeOKAlways`, `EntryIndexedAlways` and from it `ModifyTargetsTrackedAlways`,
  the `debug_assert` of `on_tick`, for every interleaving of the two trader
  threads, the bridge, the adapter and the gateway.
* `NoDoubleQuoteYetAlways` (of `ThreadsSpec`). The invariant says, while there
  was no `Damage`: a place is in exactly one of its stages from the hot loop to
  the ack (`StageInv`); when the trader has an acked order or is free to place,
  nothing is on its way (`FreeInv`); every live order is the one the trader
  knows (`KnownInv`). Terminal statuses are only
  ever of orders that are done (`DeadInv`).

**`HedgeProofs`** (`HedgeAssumption`)

* `TypeOKAlways`, `HedgeConservedAlways`. The invariant adds `IdsOK`: repeats of
  an execution lie side by side in the channel, and an id that was applied can
  only be in front. That is why a bounded `processed_exec_ids` is enough. The
  sums of quantities need lemmas about `SumFunction` over finite sets.

**`SessionProofs`** (`SessionAssumption`, `FuturesAssumption`)

* `OrderIdsFreshAlways`, whatever repeats `nextValidId`.
* `AnswersOwnAlways`: `OwnInv` extends the property to every answer the gateway
  is going to send and every message that waits for dispatch.
* `PendingAwaitedAlways`: `AwaitInv` ties each pending entry to the call that
  waits for it, and main's call to the boot stages that make one.
* `SeedWholeAlways`: by `QueueInv` the positions stay in front of `positionEnd`
  wherever they are.
* `LinesPerLegAlways`, `WindowCoveredAlways`: `StrikeInv` says which bits of a
  strike can be planned or registered, `LegLines` that a second line is taken for
  the bits a held leg is not registered with; `TurnInv`, `LineInv` and
  `PassInv` say where each leg of a pass is: still to be asked about, being asked
  about, or registered with its line.

**`MarketDepthProofs`** (`DepthAssumption`)

* `DepthInvariant` (types, the work list of a rotation, the count of lines, the
  request ids), from it `DepthWithinLimitAlways` and `RoutesOwnedAlways`.
* `BookFollowsAlways`: the invariant follows the updates of a leg through their
  stages: the book, plus what is in the channel, plus what is on the wire, is
  the gateway's book, for every number of rows and prices.
* `EveryLegCoveredAlways`: for a leg that waits, the rotations it missed times
  the slots of a rotation, plus its distance from the cursor, stay below the
  length of the pool. The proof attempt showed that the bound `Patience` had to
  allow for the case that every leg is always-on; it was corrected.

**`TickPathProofs`** (`TickPathAssumption`, `ScenarioAssumption`)

* `EdgeToTheoAlways`, `EdgeToMarketAlways`, `BreachNeverWorsenedAlways`: for
  every scenario of feeds, fits and risk states. `FitInv` says that two copies of
  a fit with one time stamp are the same fit.
* `JumpNeverMoves`: the jump ahead of the incumbent in `decide_on_tick` never
  changes the price.
* `BurstCapAlways`: by `SentInv` the two slots of the limiter cover the last two
  sends.
* `FeedFollowedAlways`: by `FeedInv` the newest tick frame on the ring says what
  the publisher holds.

**`LockOrderProofs`** (`TasksAssumption`)

* `NoCircularWaitEver`. `LockInv`: a task's stack of locks is that of a section
  it has started, and a lock has one holder. Four facts about the chains of
  locks in the code (`ChainOK`) then exclude every circle, for every set of
  running tasks.

Where a fact about data needs induction (sums, the walk over frames, a path
through a sequence), it is stated of a set of naturals and proved by its least
counterexample.

Only model-checked: the liveness properties (fairness and `ENABLED` are beyond
the prover). Every invariant and action property of the passing runs is proved.

## 6. Plan

1. *(done)* ring, restart, kill switch, order flow, hedge and option book; proofs
   for the first and third.
2. *(done)* locks, session and subscriptions, depth rotation, tick path with the
   decision gates.
3. *(done)* proofs of every safety invariant of those modules and of the
   refinement of `FrameQueue`.
4. `Accounting`: cost basis and realized P&L, the resync from IBKR and the daily
   reset across their locks, a second futures month; worth it only with amounts
   that are not floating point.

## 7. Not modelled

* Calibration, SPAN, pricing and greeks, and the P&L sums of positions, hedge and
  account poll: floating point, and what they compute is compared with limits
  only (a free choice in `KillSwitch` and `TickPath`). So it is open whether the
  daily halt can fire again on yesterday's loss, between the reset of realized P&L
  and the clearing of the halt (`tasks.rs:1271`).
* The constraint checker: its check has no caller.
* The IBKR and msgpack field tables beyond the tick message and the cancel. Those
  of place and modify were compared by hand with the broker's structs and agree.
* Volume, open interest, last trades, tick ages; account values and commissions.
* Configuration, notification, JSONL, latency and snapshot output; CPU affinity;
  tick replay, benchmarks, scripts and dashboards.
* The cancel sweep of a graceful trader shutdown, and process supervision.
* Rust and tokio internals, and memory orderings weaker than the code's
  release/acquire pairs.
