----------------------------- MODULE KillSwitch -----------------------------
(***************************************************************************)
(* The kill switch of corsair: the broker's RiskMonitor                    *)
(* (corsair_risk/src/monitor.rs, kill.rs, sentinel.rs), the five broker    *)
(* tasks that fire or clear it (corsair_broker/src/tasks.rs), the sweep    *)
(* that cancels resting orders, the kill and hello events that carry the   *)
(* kill over the events ring (corsair_broker/src/ipc.rs), and the trader's *)
(* own map of kills (corsair_trader/src/main.rs).                          *)
(*                                                                         *)
(* The broker runs its tasks on a multi-threaded tokio runtime, so a step  *)
(* here is one critical section of the `risk` lock (or one channel or ring *)
(* operation) and everything between two of them can interleave.           *)
(*                                                                         *)
(* Data is cut down to what the properties tell apart: the risk check sees *)
(* which limits are breached, not the dollar amounts; an order is a slot   *)
(* with a stage; a frame of the events ring is a tick, a kill or a hello.  *)
(***************************************************************************)
EXTENDS Naturals, Sequences, FiniteSets

CONSTANTS
    Orders,             \* order slots the trader may use, once each
    RingSlots,          \* frames the events ring holds before it drops
    Limits,             \* limits the market may push the account over
    SentinelFiles,      \* induced-kill files the operator may have left
    MaxCrashes,         \* bound: trader process deaths
    MaxLinkDrops,       \* bound: gateway connectivity losses
    MaxDay,             \* bound: CT days whose 17:00 comes to pass
    BrokerMayFail,      \* may open_orders() and cancel_order() return Err?
    AnnouncesReconnect  \* does the adapter send Connected after boot?

(***************************************************************************)
(* The INDUCED_SENTINELS table has these two keys.  NativeBroker calls     *)
(* connect() once, before pump_connection subscribes, so for it            *)
(* AnnouncesReconnect is FALSE; the Broker trait allows TRUE.              *)
(***************************************************************************)
ASSUME KillAssumption ==
    /\ RingSlots \in Nat /\ MaxCrashes \in Nat
    /\ MaxLinkDrops \in Nat /\ MaxDay \in Nat
    /\ Limits \subseteq {"margin", "pnl"}
    /\ SentinelFiles \subseteq {"daily_pnl", "margin"}
    /\ BrokerMayFail \in BOOLEAN /\ AnnouncesReconnect \in BOOLEAN

VARIABLES
    killed,          \* RiskMonitor::killed, the source of the active kill
    task,            \* stage of each task that can fire, and its event
    sweep,           \* order ids a task's cancel_all_resting still holds
    roll,            \* daily_halt_rollover: 0, or the day it is rolling
    last_fired_day,  \* daily_halt_rollover::last_fired_day, 0 for None
    hello,           \* publish_hello: <<>> or <<active_kills>> taken
    heard,           \* last_trader_msg_ns: never, fresh, or over the gap
    breach,          \* limits the account is over right now
    sentinels,       \* sentinel files present
    link,            \* gateway connectivity
    drops,           \* connectivity losses so far
    errs,            \* disconnect-class errors queued for pump_errors
    conns,           \* Connected events queued for pump_connection
    day, past,       \* CT date, and whether it is past 17:00
    events,          \* the events ring
    lost,            \* history: the kinds of frame full rings have dropped
    fired,           \* history: the kills that have fired
    trader,          \* is the trader process up
    crashes,         \* trader deaths so far
    kills,           \* trader: keys of SharedState::kills
    welcome,         \* welcome frames waiting in the commands ring
    order            \* stage of each order

monitorVars == <<killed, fired>>
taskVars    == <<task, sweep>>
clockVars   == <<day, past, roll, last_fired_day>>
linkVars    == <<link, drops, errs, conns>>
marketVars  == <<breach, sentinels>>
ringVars    == <<events, lost>>
traderVars  == <<trader, crashes, kills, welcome, hello, heard>>
vars == <<monitorVars, taskVars, clockVars, linkVars, marketVars, ringVars,
          traderVars, order>>

-----------------------------------------------------------------------------
(* Kill sources, named by KillSource::label().  Operational is never       *)
(* constructed by the runtime.                                             *)

NoKill == "none"
KillSource == {"risk", "disconnect", "daily_halt", "trader_silent",
               "induced_daily_halt", "induced_risk"}

\* Mutant: the rollover clears disconnect kills as well.
is_clearable_or_disconnect(s) ==
    s \in {"daily_halt", "induced_daily_halt", "disconnect"}

is_daily_clearable(s) == s \in {"daily_halt", "induced_daily_halt"}
is_disconnect(s) == s = "disconnect"

\* The sources that only an operator's restart of the broker may end.
Sticky == {"risk", "trader_silent", "induced_risk"}

\* publish_kill names the source by its lower-cased Debug form, which is not
\* its label.
DebugLower ==
    [risk |-> "risk", disconnect |-> "disconnect",
     daily_halt |-> "dailyhalt", trader_silent |-> "tradersilent",
     induced_daily_halt |-> "induced(dailyhalt)",
     induced_risk |-> "induced(risk)"]

KillKey == KillSource \union {DebugLower[s] : s \in KillSource}

\* INDUCED_SENTINELS is scanned in order: daily_pnl first.
FirstSentinel == IF "daily_pnl" \in sentinels THEN "daily_pnl" ELSE "margin"
InducedSource == [daily_pnl |-> "induced_daily_halt", margin |-> "induced_risk"]

\* The keys under which a kill message or a hello reaches the trader.
Tick == [kind |-> "tick", keys |-> {}]
Frame == {Tick} \union [kind : {"kill", "hello"}, keys : SUBSET KillKey]
KillFrame(s) == [kind |-> "kill", keys |-> {DebugLower[s]}]
HelloFrame(active) == [kind |-> "hello", keys |-> active]

Tasks == {"risk_check", "fill", "errors", "watchdog"}
Idle == [pc |-> "idle", ev |-> NoKill]

\* server.publish: a full ring drops the frame, and only a log line says so.
PublishFrame(f) ==
    IF Len(events) < RingSlots
    THEN events' = Append(events, f) /\ UNCHANGED lost
    ELSE lost' = lost \union {f.kind} /\ UNCHANGED events

-----------------------------------------------------------------------------
(* RiskMonitor::fire: overwrite whatever kill is active.  The task then    *)
(* publishes the kill and sweeps the resting orders.                       *)

fire(t, s) ==
    /\ killed' = s
    /\ fired' = fired \union {s}
    /\ task' = [task EXCEPT ![t] = [pc |-> "publish", ev |-> s]]

(* RiskMonitor::check under periodic_risk_check.  A sentinel is removed    *)
(* before its kill fires.                                                  *)
CheckSentinel ==
    /\ task["risk_check"] = Idle
    /\ killed = NoKill
    /\ sentinels # {}
    /\ sentinels' = sentinels \ {FirstSentinel}
    /\ fire("risk_check", InducedSource[FirstSentinel])
    /\ UNCHANGED <<sweep, breach, clockVars, linkVars, ringVars, traderVars,
                   order>>

\* Mutant: the check latches, and fires the margin kill once per process.
CheckLimitsLatched ==
    /\ task["risk_check"] = Idle
    /\ killed = NoKill
    /\ \/ "margin" \in breach /\ "risk" \notin fired /\ fire("risk_check", "risk")
       \/ breach = {"pnl"} /\ fire("risk_check", "daily_halt")
    /\ UNCHANGED <<sweep, clockVars, linkVars, marketVars, ringVars,
                   traderVars, order>>

(* The rest of check: margin, then daily P&L.  It is reached when no       *)
(* sentinel is there, and also when removing one fails.                    *)
CheckLimits ==
    /\ task["risk_check"] = Idle
    /\ killed = NoKill
    /\ \/ "margin" \in breach /\ fire("risk_check", "risk")
       \/ breach = {"pnl"} /\ fire("risk_check", "daily_halt")
    /\ UNCHANGED <<sweep, clockVars, linkVars, marketVars, ringVars,
                   traderVars, order>>

(* handle_fill's check_daily_pnl_only; a fill that finds no breach, or a   *)
(* kill already active, changes nothing here.                              *)
FillCheck ==
    /\ task["fill"] = Idle
    /\ killed = NoKill
    /\ "pnl" \in breach
    /\ fire("fill", "daily_halt")
    /\ UNCHANGED <<sweep, clockVars, linkVars, marketVars, ringVars,
                   traderVars, order>>

(* pump_errors reads the active kill under one lock, and fires under the   *)
(* next (FirePending).                                                     *)
PumpErrors ==
    /\ task["errors"] = Idle
    /\ errs > 0
    /\ errs' = errs - 1
    /\ task' = IF is_disconnect(killed) THEN task
               ELSE [task EXCEPT !["errors"] =
                        [pc |-> "fire", ev |-> "disconnect"]]
    /\ UNCHANGED <<monitorVars, sweep, clockVars, link, drops, conns,
                   marketVars, ringVars, traderVars, order>>

(* trader_watchdog, once a second: the same two locks.                     *)
WatchdogCheck ==
    /\ task["watchdog"] = Idle
    /\ heard = "silent"
    /\ killed # "trader_silent"
    /\ task' = [task EXCEPT !["watchdog"] =
                    [pc |-> "fire", ev |-> "trader_silent"]]
    /\ UNCHANGED <<monitorVars, sweep, clockVars, linkVars, marketVars,
                   ringVars, traderVars, order>>

FirePending(t) ==
    /\ task[t].pc = "fire"
    /\ fire(t, task[t].ev)
    /\ UNCHANGED <<sweep, clockVars, linkVars, marketVars, ringVars,
                   traderVars, order>>

publish_kill(t) ==
    /\ task[t].pc = "publish"
    /\ PublishFrame(KillFrame(task[t].ev))
    /\ task' = [task EXCEPT ![t].pc = "query"]
    /\ UNCHANGED <<monitorVars, sweep, clockVars, linkVars, marketVars,
                   traderVars, order>>

-----------------------------------------------------------------------------
(* cancel_all_resting: open_orders() is the adapter's cache of the orders  *)
(* IBKR has acknowledged; the cancels then go out concurrently.            *)

\* Mutant: the sweep asks the runtime's own order table, which the broker
\* never fills.
QueryRuntimeOrders(t) ==
    /\ task[t].pc = "query"
    /\ task' = [task EXCEPT ![t] = Idle]
    /\ UNCHANGED <<monitorVars, sweep, clockVars, linkVars, marketVars,
                   ringVars, traderVars, order>>

\* The cache keeps the entries of orders that ended, and remaining_qty is only
\* refreshed by a later OpenOrder, so the sweep may cancel some of those too.
QueryOpenOrders(t) ==
    /\ task[t].pc = "query"
    /\ \/ \E actionable \in SUBSET {o \in Orders : order[o] \in {"open", "gone"}} :
             /\ {o \in Orders : order[o] = "open"} \subseteq actionable
             /\ sweep' = [sweep EXCEPT ![t] = actionable]
             /\ task' = IF actionable = {} THEN [task EXCEPT ![t] = Idle]
                        ELSE [task EXCEPT ![t].pc = "cancel"]
       \/ /\ BrokerMayFail
          /\ task' = [task EXCEPT ![t] = Idle]
          /\ UNCHANGED sweep
    /\ UNCHANGED <<monitorVars, clockVars, linkVars, marketVars, ringVars,
                   traderVars, order>>

\* cancel_order only hands the frame to the socket; IBKR ends the order.
CancelResting(t, o) ==
    /\ task[t].pc = "cancel"
    /\ o \in sweep[t]
    /\ \/ order' = [order EXCEPT ![o] = "gone"]
       \/ BrokerMayFail /\ UNCHANGED order
    /\ sweep' = [sweep EXCEPT ![t] = @ \ {o}]
    /\ task' = IF sweep[t] = {o} THEN [task EXCEPT ![t] = Idle] ELSE task
    /\ UNCHANGED <<monitorVars, clockVars, linkVars, marketVars, ringVars,
                   traderVars>>

-----------------------------------------------------------------------------
(* Clearing: pump_connection, and the two lock sections of                 *)
(* daily_halt_rollover.                                                    *)

PumpConnection ==
    /\ conns > 0
    /\ conns' = conns - 1
    /\ killed' = IF is_disconnect(killed) THEN NoKill ELSE killed
    /\ UNCHANGED <<fired, taskVars, clockVars, link, drops, errs,
                   marketVars, ringVars, traderVars, order>>

\* Resetting the realized P&L may or may not lift the breach: the open
\* positions are still marked to market.
RolloverReset ==
    /\ roll = 0
    /\ past /\ last_fired_day # day
    /\ roll' = day
    /\ breach' \in {breach, breach \ {"pnl"}}
    /\ UNCHANGED <<monitorVars, taskVars, day, past, last_fired_day,
                   linkVars, sentinels, ringVars, traderVars, order>>

RolloverClear ==
    /\ roll # 0
    /\ killed' = IF is_daily_clearable(killed) THEN NoKill ELSE killed
    /\ last_fired_day' = roll
    /\ roll' = 0
    /\ UNCHANGED <<fired, taskVars, day, past, linkVars, marketVars,
                   ringVars, traderVars, order>>

-----------------------------------------------------------------------------
(* The commands the broker receives.  dispatch_commands handles one frame  *)
(* at a time and stamps last_trader_msg_ns for each.                       *)

\* Mutant: the hello forgets the active kills.
SnapshotNothing ==
    /\ welcome > 0 /\ hello = <<>>
    /\ welcome' = welcome - 1
    /\ heard' = "fresh"
    /\ hello' = <<{}>>
    /\ UNCHANGED <<monitorVars, taskVars, clockVars, linkVars, marketVars,
                   ringVars, trader, crashes, kills, order>>

\* Mutant: the hello lists the source although no kill is active.
SnapshotAlways ==
    /\ welcome > 0 /\ hello = <<>>
    /\ welcome' = welcome - 1
    /\ heard' = "fresh"
    /\ hello' = <<{killed}>>
    /\ UNCHANGED <<monitorVars, taskVars, clockVars, linkVars, marketVars,
                   ringVars, trader, crashes, kills, order>>

\* publish_hello, first half: the active kill, read under the risk lock.
SnapshotKills ==
    /\ welcome > 0 /\ hello = <<>>
    /\ welcome' = welcome - 1
    /\ heard' = "fresh"
    /\ hello' = <<IF killed = NoKill THEN {} ELSE {killed}>>
    /\ UNCHANGED <<monitorVars, taskVars, clockVars, linkVars, marketVars,
                   ringVars, trader, crashes, kills, order>>

publish_hello ==
    /\ hello # <<>>
    /\ PublishFrame(HelloFrame(Head(hello)))
    /\ hello' = <<>>
    /\ UNCHANGED <<monitorVars, taskVars, clockVars, linkVars, marketVars,
                   trader, crashes, kills, welcome, heard, order>>

Heartbeat ==
    /\ trader = "up" /\ hello = <<>>
    /\ heard # "fresh"
    /\ heard' = "fresh"
    /\ UNCHANGED <<monitorVars, taskVars, clockVars, linkVars, marketVars,
                   ringVars, trader, crashes, kills, welcome, hello, order>>

\* handle_place in live mode: it does not look at the kill switch.  A frame
\* that does not parse, a contract that is not cached or an order that cannot
\* be sent is the end of it.
handle_place(o) ==
    /\ order[o] = "command" /\ hello = <<>>
    /\ \E stage \in {"sent", "refused"} : order' = [order EXCEPT ![o] = stage]
    /\ heard' = "fresh"
    /\ UNCHANGED <<monitorVars, taskVars, clockVars, linkVars, marketVars,
                   ringVars, trader, crashes, kills, welcome, hello>>

\* IBKR's OpenOrder reaches the dispatcher, which caches the order.
OrderAcknowledged(o) ==
    /\ order[o] = "sent"
    /\ order' = [order EXCEPT ![o] = "open"]
    /\ UNCHANGED <<monitorVars, taskVars, clockVars, linkVars, marketVars,
                   ringVars, traderVars>>

-----------------------------------------------------------------------------
(* The trader.                                                             *)

\* process_event of a kill or a hello: only ever adds keys.  Nothing in the
\* broker publishes the "resume" that would remove one.
ReadKill ==
    /\ trader = "up" /\ events # <<>>
    /\ Head(events).kind # "tick"
    /\ kills' = kills \union Head(events).keys
    /\ events' = Tail(events)
    /\ UNCHANGED <<monitorVars, taskVars, clockVars, linkVars, marketVars,
                   lost, trader, crashes, welcome, hello, heard, order>>

\* on_tick: with kills_count = 0 the decision may place a fresh order.
ReadTick ==
    /\ trader = "up" /\ events # <<>>
    /\ Head(events).kind = "tick"
    /\ events' = Tail(events)
    /\ \/ UNCHANGED order
       \/ /\ kills = {}
          /\ \E o \in Orders : /\ order[o] = "unused"
                               /\ order' = [order EXCEPT ![o] = "command"]
    /\ UNCHANGED <<monitorVars, taskVars, clockVars, linkVars, marketVars,
                   lost, traderVars>>

\* A death loses the kills map; the rings outlive the process.
TraderCrash ==
    /\ trader = "up" /\ crashes < MaxCrashes
    /\ trader' = "down"
    /\ crashes' = crashes + 1
    /\ kills' = {}
    /\ UNCHANGED <<monitorVars, taskVars, clockVars, linkVars, marketVars,
                   ringVars, welcome, hello, heard, order>>

\* Start-up writes the welcome frame before the first read of the ring; when
\* the commands ring has no room for it, a log line is all that says so.
TraderStart ==
    /\ trader = "down"
    /\ trader' = "up"
    /\ \/ welcome' = welcome + 1 /\ UNCHANGED lost
       \/ lost' = lost \union {"welcome"} /\ UNCHANGED welcome
    /\ UNCHANGED <<monitorVars, taskVars, clockVars, linkVars, marketVars,
                   events, crashes, kills, hello, heard, order>>

-----------------------------------------------------------------------------
(* The outside world.                                                      *)

MarketMoves ==
    /\ \E b \in SUBSET Limits : b # breach /\ breach' = b
    /\ UNCHANGED <<monitorVars, taskVars, clockVars, linkVars, sentinels,
                   ringVars, traderVars, order>>

\* Any other frame the broker forwards: ticks, fills, status, risk state.
PublishTick ==
    /\ Len(events) < RingSlots
    /\ events' = Append(events, Tick)
    /\ UNCHANGED <<monitorVars, taskVars, clockVars, linkVars, marketVars,
                   lost, traderVars, order>>

\* No frame from the trader for longer than the watchdog timeout.
TraderFallsSilent ==
    /\ heard = "fresh"
    /\ heard' = "silent"
    /\ UNCHANGED <<monitorVars, taskVars, clockVars, linkVars, marketVars,
                   ringVars, trader, crashes, kills, welcome, hello, order>>

\* IBKR code 1100.
LinkDrops ==
    /\ link = "up" /\ drops < MaxLinkDrops
    /\ link' = "down"
    /\ drops' = drops + 1
    /\ errs' = errs + 1
    /\ UNCHANGED <<monitorVars, taskVars, clockVars, conns, marketVars,
                   ringVars, traderVars, order>>

\* IBKR code 1102, "connectivity restored": error_to_broker_error makes it
\* a ConnectionLost as well.
LinkRestored ==
    /\ link = "down"
    /\ link' = "up"
    /\ errs' = errs + 1
    /\ conns' = IF AnnouncesReconnect THEN conns + 1 ELSE conns
    /\ UNCHANGED <<monitorVars, taskVars, clockVars, drops, marketVars,
                   ringVars, traderVars, order>>

\* The order fills, or its GTD lifetime ends.
OrderEnds(o) ==
    /\ order[o] = "open"
    /\ order' = [order EXCEPT ![o] = "gone"]
    /\ UNCHANGED <<monitorVars, taskVars, clockVars, linkVars, marketVars,
                   ringVars, traderVars>>

ClockPasses17 ==
    /\ ~past /\ day <= MaxDay
    /\ past' = TRUE
    /\ UNCHANGED <<monitorVars, taskVars, day, roll, last_fired_day,
                   linkVars, marketVars, ringVars, traderVars, order>>

Midnight ==
    /\ past /\ day < MaxDay
    /\ past' = FALSE
    /\ day' = day + 1
    /\ UNCHANGED <<monitorVars, taskVars, roll, last_fired_day, linkVars,
                   marketVars, ringVars, traderVars, order>>

-----------------------------------------------------------------------------
Init ==
    /\ killed = NoKill /\ fired = {}
    /\ task = [t \in Tasks |-> Idle]
    /\ sweep = [t \in Tasks |-> {}]
    /\ roll = 0 /\ last_fired_day = 0 /\ day = 1 /\ past = FALSE
    /\ link = "up" /\ drops = 0 /\ errs = 0 /\ conns = 0
    /\ breach = {} /\ sentinels \in SUBSET SentinelFiles
    /\ events = <<>> /\ lost = {}
    /\ trader = "down" /\ crashes = 0 /\ kills = {}
    /\ welcome = 0 /\ hello = <<>> /\ heard = "never"
    /\ order = [o \in Orders |-> "unused"]

TaskStep(t) ==
    \/ FirePending(t)
    \/ publish_kill(t)
    \/ QueryOpenOrders(t)
    \/ \E o \in Orders : CancelResting(t, o)

Broker ==
    \/ CheckSentinel \/ CheckLimits \/ FillCheck
    \/ PumpErrors \/ WatchdogCheck
    \/ \E t \in Tasks : TaskStep(t)
    \/ PumpConnection \/ RolloverReset \/ RolloverClear
    \/ SnapshotKills \/ publish_hello \/ Heartbeat
    \/ \E o \in Orders : handle_place(o)

Trader == ReadKill \/ ReadTick \/ TraderCrash \/ TraderStart

World ==
    \/ MarketMoves \/ PublishTick \/ TraderFallsSilent
    \/ LinkDrops \/ LinkRestored \/ ClockPasses17 \/ Midnight
    \/ \E o \in Orders : OrderAcknowledged(o) \/ OrderEnds(o)

Next == Broker \/ Trader \/ World

Spec == Init /\ [][Next]_vars

(***************************************************************************)
(* tokio polls every woken task again, the intervals keep ticking and the  *)
(* trader's loop keeps reading its ring; nothing is assumed of the market, *)
(* of the link, or of crashes.                                             *)
(***************************************************************************)
Fairness ==
    /\ \A t \in Tasks : WF_vars(TaskStep(t))
    /\ WF_vars(CheckLimits)
    /\ WF_vars(PumpErrors) /\ WF_vars(WatchdogCheck)
    /\ WF_vars(PumpConnection)
    /\ WF_vars(RolloverReset) /\ WF_vars(RolloverClear)
    /\ WF_vars(SnapshotKills) /\ WF_vars(publish_hello)
    /\ WF_vars(ReadKill) /\ WF_vars(ReadTick)
    /\ \A o \in Orders : WF_vars(handle_place(o))

FairSpec == Spec /\ Fairness

-----------------------------------------------------------------------------
(* Properties.                                                             *)

TaskState == [pc : {"idle", "fire", "publish", "query", "cancel"},
              ev : KillSource \union {NoKill}]

\* Every variable keeps the type its Rust declaration gives it; only a kill
\* event in hand lets a task fire or publish.
TypeOK ==
    /\ killed \in KillSource \union {NoKill}
    /\ fired \subseteq KillSource /\ lost \subseteq {"kill", "hello", "welcome"}
    /\ task \in [Tasks -> TaskState]
    /\ \A t \in Tasks : task[t].pc \in {"fire", "publish"} =>
                           task[t].ev # NoKill
    /\ sweep \in [Tasks -> SUBSET Orders]
    /\ roll \in Nat /\ last_fired_day \in Nat /\ day \in Nat
    /\ past \in BOOLEAN
    /\ link \in {"up", "down"} /\ drops \in Nat
    /\ errs \in Nat /\ conns \in Nat
    /\ breach \subseteq Limits /\ sentinels \subseteq SentinelFiles
    /\ events \in Seq(Frame)
    /\ trader \in {"up", "down"} /\ crashes \in Nat
    /\ kills \subseteq KillKey
    /\ welcome \in Nat /\ hello \in Seq(SUBSET KillSource)
    /\ heard \in {"never", "fresh", "silent"}
    /\ order \in [Orders -> {"unused", "command", "refused", "sent", "open", "gone"}]

\* The trader holds the kill under either of the names it can arrive by.
Knows(s) == s \in kills \/ DebugLower[s] \in kills

\* Where the news of the active kill can be on its way to the trader.
Carries(f, s) == s \in f.keys \/ DebugLower[s] \in f.keys
InFlight(s) ==
    \/ \E t \in Tasks : task[t].pc = "publish" /\ task[t].ev = s
    \/ \E i \in 1..Len(events) : Carries(events[i], s)
    \/ welcome > 0
    \/ hello # <<>> /\ s \in Head(hello)

\* However the fires, overwrites, publishes, crashes and hellos of the tasks
\* interleave, a running trader holds the broker's active kill or the news
\* of it is still on its way, as long as no kill, hello or welcome frame was
\* dropped.
KillReachesTrader ==
    killed # NoKill /\ trader = "up" /\ lost = {} =>
        InFlight(killed) \/ Knows(killed)

\* kill.rs: a risk, trader_silent or induced_risk kill needs an operator's
\* restart, so once one has fired the broker is never un-killed again.
StickyKillStays == fired \intersect Sticky # {} => killed # NoKill

\* The trader's map of kills only grows, so a key that should not be there
\* stops its quoting for good.  Whichever kills, hellos, crashes and spellings
\* brought it, every key it holds names a kill that the monitor did fire.
KillsFired == \A k \in kills : \E s \in fired : k \in {s, DebugLower[s]}

\* A margin breach that persists leaves the broker killed for good, whatever
\* disconnect kills overwrite the risk kill and whatever is cleared by a
\* reconnect or a rollover meanwhile: the 30 s check fires again.
StandingBreachKilled ==
    <>[]("margin" \in breach) => <>[](killed # NoKill)

\* An acknowledged order that rests when a task fires a kill is cancelled by
\* that task's sweep or ends by itself, even when several sweeps overlap.
SweepCancelsResting ==
    \A o \in Orders :
        (order[o] = "open" /\ \E t \in Tasks : task[t].pc = "publish")
            ~> order[o] # "open"

\* tasks.rs: "every kill must cancel all resting orders".  When a kill is
\* active, every task has finished its sweep and no order is in flight,
\* nothing rests.
KillLeavesNothingResting ==
    /\ killed # NoKill
    /\ \A t \in Tasks : task[t] = Idle
    /\ \A o \in Orders : order[o] \notin {"command", "sent"}
    => \A o \in Orders : order[o] # "open"

\* tasks.rs, trader_watchdog: a restarted trader inherits the active kill via
\* the hello and stays quoting-blocked; so a trader that is up holds some
\* kill even if a hello was dropped, provided the other frames were accepted.
RestartedTraderBlocked ==
    killed # NoKill /\ trader = "up" /\ lost \subseteq {"hello"} =>
        InFlight(killed) \/ kills # {}

\* kill.rs: a disconnect kill is "Cleared by watchdog after reconnect".
DisconnectKillClears ==
    <>[](link = "up") => []<>(~is_disconnect(killed))

\* state.rs: the broker emits resume events, so a trader does not stay
\* killed after the broker's own kill has cleared for good.
TraderResumes ==
    <>[](killed = NoKill /\ trader = "up") => []<>(kills = {})

=============================================================================
