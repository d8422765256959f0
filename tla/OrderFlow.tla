----------------------------- MODULE OrderFlow -----------------------------
(***************************************************************************)
(* The life of the quotes at one key (strike, expiry, right, side): the    *)
(* trader's hot thread and its 10 Hz staleness thread share our_orders     *)
(* (corsair_trader/src/main.rs, decision.rs); the broker runs every order  *)
(* command as a task of its own (corsair_broker/src/ipc.rs); NativeBroker  *)
(* matches IBKR's answers to the waiting tasks and broadcasts order status *)
(* to pump_status and forward_status (corsair_broker_ibkr_native, tasks.rs,*)
(* ipc.rs).  Keys share nothing but the rings, whose pressure appears as   *)
(* frames that may be dropped.                                             *)
(*                                                                         *)
(* our_orders and orderid_to_key are two maps; an update of both is one    *)
(* step here, as every path that removes an id removes its entry first or  *)
(* next.  A command's dispatch is merged with its execution.               *)
(*                                                                         *)
(* Abstracted: prices to a small set, the theo that chooses them to a free *)
(* choice, clocks to what they decide (an entry un-acked for 2 s).         *)
(***************************************************************************)
EXTENDS Naturals, Sequences, FiniteSets

CONSTANTS
    Prices,         \* limit prices the decision may choose
    MaxOrders,      \* bound: order ids the gateway hands out
    MaxSame,        \* bound: equal commands in flight at once
    StaleCancels,   \* may the book at this key go dark?
    Faults          \* what may go wrong

FaultKinds ==
    {"hot_drop",      \* commands ring full for a frame of on_tick
     "stale_drop",    \* commands ring full for a frame of staleness_check
     "ack_drop",      \* events ring full for a place_ack
     "status_drop",   \* events ring full for an order_status
     "ack_timeout",   \* no answer from IBKR within place_order's 500 ms
     "slow_ack",      \* place_ack takes more than UNACK_INFLIGHT_NS (2 s)
     "refuse"}        \* no cached contract, failed send, IBKR rejection

ASSUME FlowAssumption ==
    /\ Prices \subseteq Nat \ {0}
    /\ MaxOrders \in Nat /\ MaxSame \in Nat
    /\ StaleCancels \in BOOLEAN
    /\ Faults \subseteq FaultKinds

Oid == 1 .. MaxOrders
NoOid == 0

VARIABLES
    our,        \* our_orders at the key: <<>> or <<entry>>
    map,        \* ids in orderid_to_key, all of them for this key
    hot,        \* on_tick: the decision being carried out
    stale,      \* staleness_check: the action being carried out
    cmds,       \* order commands written and not yet executed
    events,     \* place_acks and terminal order_status frames to the trader
    next_id,    \* next order id
    pend,       \* handle_place of each order: its wait for the ack
    limit,      \* price of each order at IBKR
    ibkr,       \* each order at IBKR
    wire,       \* IBKR's messages to the dispatcher
    open_orders,          \* the adapter's cache
    pumping, forwarding,  \* the two receivers of the status broadcast
    recently_terminated   \* ids pump_status has seen end

traderVars == <<our, map>>
brokerVars == <<next_id, pend, open_orders, recently_terminated>>
feedVars   == <<wire, pumping, forwarding>>
ibkrVars   == <<ibkr, limit>>
vars == <<traderVars, hot, stale, cmds, events, brokerVars, feedVars, ibkrVars>>

-----------------------------------------------------------------------------
Place(p) == [kind |-> "place", oid |-> NoOid, price |-> p]
Modify(o, p) == [kind |-> "modify", oid |-> o, price |-> p]
Cancel(o) == [kind |-> "cancel", oid |-> o, price |-> 0]
Cmd == {Place(p) : p \in Prices} \union {Cancel(o) : o \in Oid}
          \union {Modify(o, p) : o \in Oid, p \in Prices}

Quiet == [pc |-> "idle", cmd |-> Cancel(NoOid), ok |-> FALSE]
Doing(c) == [pc |-> "write", cmd |-> c, ok |-> FALSE]

Entry(p, o) == [price |-> p, order_id |-> o, late |-> FALSE]
Acked == our # <<>> /\ our[1].order_id # NoOid
Unacked == our # <<>> /\ our[1].order_id = NoOid
Ack(o, p) == [kind |-> "place_ack", oid |-> o, price |-> p]
Status(o) == [kind |-> "order_status", oid |-> o, price |-> 0]

Send(c) == cmds' = [cmds EXCEPT ![c] = @ + 1]
Take(c) == cmds[c] > 0 /\ cmds' = [cmds EXCEPT ![c] = @ - 1]

-----------------------------------------------------------------------------
(* The hot thread: process_event and on_tick never overlap.                *)

\* Mutant: a dead-band break re-places although the entry is not late.
DecidePlaceUnacked(p) ==
    /\ hot = Quiet
    /\ ~Acked
    /\ hot' = Doing(Place(p))
    /\ UNCHANGED <<traderVars, stale, cmds, events, brokerVars, feedVars,
                   ibkrVars>>

\* decide_on_tick with nothing at the key, or with an entry un-acked for
\* longer than UNACK_INFLIGHT_NS.
DecidePlace(p) ==
    /\ hot = Quiet
    /\ our = <<>> \/ (Unacked /\ our[1].late)
    /\ hot' = Doing(Place(p))
    /\ UNCHANGED <<traderVars, stale, cmds, events, brokerVars, feedVars,
                   ibkrVars>>

\* An acked entry is amended when it leaves the dead band, or at the same
\* price to refresh its GTD.
DecideModify(p) ==
    /\ hot = Quiet
    /\ Acked
    /\ hot' = Doing(Modify(our[1].order_id, p))
    /\ UNCHANGED <<traderVars, stale, cmds, events, brokerVars, feedVars,
                   ibkrVars>>

\* The all-blocking risk gate pulls every acked order.
DecideCancelAll ==
    /\ hot = Quiet
    /\ Acked
    /\ hot' = Doing(Cancel(our[1].order_id))
    /\ UNCHANGED <<traderVars, stale, cmds, events, brokerVars, feedVars,
                   ibkrVars>>

\* The ring write of on_tick; frame_ok remembers whether it succeeded.
HotWrite ==
    /\ hot.pc = "write"
    /\ \/ /\ cmds[hot.cmd] < MaxSame
          /\ Send(hot.cmd)
          /\ hot' = [hot EXCEPT !.pc = "track", !.ok = TRUE]
       \/ /\ "hot_drop" \in Faults
          /\ hot' = [hot EXCEPT !.pc = "track"]
          /\ UNCHANGED cmds
    /\ UNCHANGED <<traderVars, stale, events, brokerVars, feedVars, ibkrVars>>

\* Mutant: incumbency is updated whether or not the frame was written.
HotTrackAlways ==
    /\ hot.pc = "track"
    /\ hot' = Quiet
    /\ LET c == hot.cmd
       IN  \/ /\ c.kind = "place"
              /\ our' = <<Entry(c.price, NoOid)>>
              /\ UNCHANGED map
           \/ /\ c.kind = "modify"
              /\ our' = IF our = <<>> THEN our
                        ELSE <<Entry(c.price, our[1].order_id)>>
              /\ UNCHANGED map
           \/ /\ c.kind = "cancel"
              /\ our' = IF c.oid \in map THEN <<>> ELSE our
              /\ map' = map \ {c.oid}
    /\ UNCHANGED <<stale, cmds, events, brokerVars, feedVars, ibkrVars>>

\* Mutant: an amend is tracked by inserting, not by updating what is there.
HotTrackReinserts ==
    /\ hot.pc = "track"
    /\ hot' = Quiet
    /\ LET c == hot.cmd
       IN  \/ ~hot.ok /\ UNCHANGED traderVars
           \/ /\ hot.ok /\ c.kind = "place"
              /\ our' = <<Entry(c.price, NoOid)>>
              /\ UNCHANGED map
           \/ /\ hot.ok /\ c.kind = "modify"
              /\ our' = <<Entry(c.price, c.oid)>>
              /\ UNCHANGED map
           \/ /\ hot.ok /\ c.kind = "cancel"
              /\ our' = IF c.oid \in map THEN <<>> ELSE our
              /\ map' = map \ {c.oid}
    /\ UNCHANGED <<stale, cmds, events, brokerVars, feedVars, ibkrVars>>

\* The incumbency updates at the end of on_tick.
HotTrack ==
    /\ hot.pc = "track"
    /\ hot' = Quiet
    /\ LET c == hot.cmd
       IN  \/ ~hot.ok /\ UNCHANGED traderVars
           \/ /\ hot.ok /\ c.kind = "place"
              /\ our' = <<Entry(c.price, NoOid)>>
              /\ UNCHANGED map
           \/ /\ hot.ok /\ c.kind = "modify"
              /\ our' = IF our = <<>> THEN our
                        ELSE <<Entry(c.price, our[1].order_id)>>
              /\ UNCHANGED map
           \/ /\ hot.ok /\ c.kind = "cancel"
              /\ our' = IF c.oid \in map THEN <<>> ELSE our
              /\ map' = map \ {c.oid}
    /\ UNCHANGED <<stale, cmds, events, brokerVars, feedVars, ibkrVars>>

\* Mutant: place_ack is handled by a thread of its own.
ReadAckConcurrently ==
    /\ events # <<>> /\ Head(events).kind = "place_ack"
    /\ LET e == Head(events)
       IN  /\ our' = <<Entry(IF our = <<>> THEN e.price ELSE our[1].price, e.oid)>>
           /\ map' = map \union {e.oid}
    /\ events' = Tail(events)
    /\ UNCHANGED <<hot, stale, cmds, brokerVars, feedVars, ibkrVars>>

\* process_event of a place_ack: the entry's id is overwritten, or the entry
\* is made.
ReadAck ==
    /\ hot = Quiet
    /\ events # <<>> /\ Head(events).kind = "place_ack"
    /\ LET e == Head(events)
       IN  /\ our' = <<Entry(IF our = <<>> THEN e.price ELSE our[1].price, e.oid)>>
           /\ map' = map \union {e.oid}
    /\ events' = Tail(events)
    /\ UNCHANGED <<hot, stale, cmds, brokerVars, feedVars, ibkrVars>>

\* A terminal order_status removes the entry of the key its id maps to.
ReadStatus ==
    /\ hot = Quiet
    /\ events # <<>> /\ Head(events).kind = "order_status"
    /\ our' = IF Head(events).oid \in map THEN <<>> ELSE our
    /\ map' = map \ {Head(events).oid}
    /\ events' = Tail(events)
    /\ UNCHANGED <<hot, stale, cmds, brokerVars, feedVars, ibkrVars>>

-----------------------------------------------------------------------------
(* The staleness thread: a scan that collects actions, then for each one   *)
(* the ring write and the update of our_orders.                            *)

ScanModify(p) ==
    /\ stale = Quiet
    /\ Acked /\ p # our[1].price
    /\ stale' = Doing(Modify(our[1].order_id, p))
    /\ UNCHANGED <<traderVars, hot, cmds, events, brokerVars, feedVars,
                   ibkrVars>>

ScanCancel ==
    /\ StaleCancels
    /\ stale = Quiet
    /\ Acked
    /\ stale' = Doing(Cancel(our[1].order_id))
    /\ UNCHANGED <<traderVars, hot, cmds, events, brokerVars, feedVars,
                   ibkrVars>>

\* A dropped modify is given up; a dropped cancel is only counted.
StaleWrite ==
    /\ stale.pc = "write"
    /\ \/ /\ cmds[stale.cmd] < MaxSame
          /\ Send(stale.cmd)
          /\ stale' = [stale EXCEPT !.pc = "track"]
       \/ /\ "stale_drop" \in Faults
          /\ stale' = IF stale.cmd.kind = "modify" THEN Quiet
                      ELSE [stale EXCEPT !.pc = "track"]
          /\ UNCHANGED cmds
    /\ UNCHANGED <<traderVars, hot, events, brokerVars, feedVars, ibkrVars>>

\* Both updates go by the key, whatever order the entry now stands for.
StaleApply ==
    /\ stale.pc = "track"
    /\ stale' = Quiet
    /\ LET c == stale.cmd
       IN  \/ /\ c.kind = "modify"
              /\ our' = IF our = <<>> THEN our
                        ELSE <<Entry(c.price, our[1].order_id)>>
              /\ UNCHANGED map
           \/ /\ c.kind = "cancel"
              /\ our' = <<>>
              /\ map' = map \ {c.oid}
    /\ UNCHANGED <<hot, cmds, events, brokerVars, feedVars, ibkrVars>>

-----------------------------------------------------------------------------
(* The broker.  dispatch_commands spawns a task per command, so commands   *)
(* are executed in any order.                                              *)

\* NativeBroker::place_order: a fresh id, a waiter, the frame.  IBKR either
\* accepts (an OpenOrder, with or without an OrderStatus before it) ...
handle_place(p) ==
    /\ next_id \in Oid
    /\ Take(Place(p))
    /\ next_id' = next_id + 1
    /\ pend' = [pend EXCEPT ![next_id] = "waiting"]
    /\ ibkr' = [ibkr EXCEPT ![next_id] = "live"]
    /\ limit' = [limit EXCEPT ![next_id] = p]
    /\ LET msg(k) == [kind |-> k, oid |-> next_id]
       IN  \/ wire' = Append(wire, msg("open"))
           \/ wire' = wire \o <<msg("accept"), msg("open")>>
    /\ UNCHANGED <<traderVars, hot, stale, events, open_orders,
                   recently_terminated, pumping, forwarding>>

\* ... or there will be no order: an early return, a failed send, or an
\* order error that fails the waiter.  The trader hears nothing of it.
PlaceRefused(p) ==
    /\ "refuse" \in Faults
    /\ Take(Place(p))
    /\ UNCHANGED <<traderVars, hot, stale, events, brokerVars, feedVars,
                   ibkrVars>>

PlaceAckTimeout(o) ==
    /\ "ack_timeout" \in Faults
    /\ pend[o] = "waiting"
    /\ pend' = [pend EXCEPT ![o] = "done"]
    /\ UNCHANGED <<traderVars, hot, stale, cmds, events, next_id, open_orders,
                   recently_terminated, feedVars, ibkrVars>>

\* handle_place publishes the place_ack with the price it placed at: nobody
\* can amend an order before its id is known.
PublishAck(o) ==
    /\ pend[o] = "acked"
    /\ pend' = [pend EXCEPT ![o] = "done"]
    /\ \/ events' = Append(events, Ack(o, limit[o]))
       \/ "ack_drop" \in Faults /\ UNCHANGED events
    /\ UNCHANGED <<traderVars, hot, stale, cmds, next_id, open_orders,
                   recently_terminated, feedVars, ibkrVars>>

\* The names of a cancel frame's fields: those the trader writes, and those
\* the broker has to find to take the frame for a cancel.
encode_cancel_into == {"type", "ts_ns", "orderId"}
CancelOrderCmd == {"type", "order_id"}
CancelParses == CancelOrderCmd \subseteq encode_cancel_into

\* A frame that does not parse is logged and dropped, and so is the cancel of
\* an order that has ended.  Otherwise IBKR cancels the order if it is live.
handle_cancel(o) ==
    /\ Take(Cancel(o))
    /\ IF CancelParses /\ o \notin recently_terminated /\ ibkr[o] = "live"
       THEN /\ ibkr' = [ibkr EXCEPT ![o] = "done"]
            /\ wire' = Append(wire, [kind |-> "end", oid |-> o])
       ELSE UNCHANGED <<ibkr, wire>>
    /\ UNCHANGED <<traderVars, hot, stale, events, brokerVars, limit, pumping,
                   forwarding>>

\* The limits at IBKR after the adapter's amend, which goes out only for an
\* order of its open-order cache and finds that order live or not.  What comes
\* back, or the 500 ms without an answer, is only logged.
modify_order(o, p) ==
    IF o \in open_orders /\ ibkr[o] = "live"
    THEN [limit EXCEPT ![o] = p] ELSE limit

\* An amend of an order known to be terminated is dropped.
handle_modify(o, p) ==
    /\ Take(Modify(o, p))
    /\ limit' = IF o \in recently_terminated THEN limit ELSE modify_order(o, p)
    /\ UNCHANGED <<traderVars, hot, stale, events, brokerVars, feedVars, ibkr>>

\* The dispatcher's route(): resolve the waiter, fill the cache, broadcast
\* the status.  A non-terminal status is left out of the broadcast, both
\* receivers ignore it.
Route ==
    /\ wire # <<>>
    /\ LET m == Head(wire)
       IN  /\ pend' = IF pend[m.oid] = "waiting"
                      THEN [pend EXCEPT ![m.oid] = "acked"] ELSE pend
           /\ open_orders' = IF m.kind = "open"
                             THEN open_orders \union {m.oid} ELSE open_orders
           /\ IF m.kind = "end"
              THEN /\ pumping' = Append(pumping, m.oid)
                   /\ forwarding' = Append(forwarding, m.oid)
              ELSE UNCHANGED <<pumping, forwarding>>
    /\ wire' = Tail(wire)
    /\ UNCHANGED <<traderVars, hot, stale, cmds, events, next_id,
                   recently_terminated, ibkrVars>>

pump_status ==
    /\ pumping # <<>>
    /\ pumping' = Tail(pumping)
    /\ recently_terminated' = recently_terminated \union {Head(pumping)}
    /\ UNCHANGED <<traderVars, hot, stale, cmds, events, next_id, pend,
                   open_orders, wire, forwarding, ibkrVars>>

\* periodic_terminated_evict, 60 s later.
EvictTerminated(o) ==
    /\ o \in recently_terminated
    /\ recently_terminated' = recently_terminated \ {o}
    /\ UNCHANGED <<traderVars, hot, stale, cmds, events, next_id, pend,
                   open_orders, feedVars, ibkrVars>>

forward_status ==
    /\ forwarding # <<>>
    /\ forwarding' = Tail(forwarding)
    /\ \/ events' = Append(events, Status(Head(forwarding)))
       \/ "status_drop" \in Faults /\ UNCHANGED events
    /\ UNCHANGED <<traderVars, hot, stale, cmds, brokerVars, wire, pumping,
                   ibkrVars>>

-----------------------------------------------------------------------------
(* IBKR and the clock.                                                     *)

\* The order fills or its GTD lifetime ends.
OrderEnds(o) ==
    /\ ibkr[o] = "live"
    /\ ibkr' = [ibkr EXCEPT ![o] = "done"]
    /\ wire' = Append(wire, [kind |-> "end", oid |-> o])
    /\ UNCHANGED <<traderVars, hot, stale, cmds, events, brokerVars, pumping,
                   forwarding, limit>>

\* A place is on its way: written, waiting at IBKR, or acked to the trader.
AckOnItsWay ==
    \/ \E p \in Prices : cmds[Place(p)] > 0
    \/ \E o \in Oid : pend[o] \in {"waiting", "acked"}
    \/ \E i \in 1 .. Len(events) : events[i].kind = "place_ack"

\* Two seconds pass for an un-acked entry.  place_order gives up after 0.5 s,
\* so only a slow_ack lets this overtake an answer.
UnackExpires ==
    /\ Unacked /\ ~our[1].late
    /\ AckOnItsWay => "slow_ack" \in Faults
    /\ our' = <<[our[1] EXCEPT !.late = TRUE]>>
    /\ UNCHANGED <<map, hot, stale, cmds, events, brokerVars, feedVars,
                   ibkrVars>>

-----------------------------------------------------------------------------
Init ==
    /\ our = <<>> /\ map = {} /\ hot = Quiet /\ stale = Quiet
    /\ cmds = [c \in Cmd |-> 0] /\ events = <<>>
    /\ next_id = 1 /\ pend = [o \in Oid |-> "none"]
    /\ open_orders = {} /\ recently_terminated = {}
    /\ ibkr = [o \in Oid |-> "none"] /\ limit = [o \in Oid |-> 0]
    /\ wire = <<>> /\ pumping = <<>> /\ forwarding = <<>>

Hot ==
    \/ \E p \in Prices : DecidePlace(p) \/ DecideModify(p)
    \/ DecideCancelAll \/ HotWrite \/ HotTrack \/ ReadAck \/ ReadStatus

Staleness ==
    \/ \E p \in Prices : ScanModify(p)
    \/ ScanCancel \/ StaleWrite \/ StaleApply

Broker ==
    \/ \E p \in Prices : handle_place(p) \/ PlaceRefused(p)
    \/ \E o \in Oid : PlaceAckTimeout(o) \/ PublishAck(o) \/ handle_cancel(o)
    \/ \E o \in Oid, p \in Prices : handle_modify(o, p)
    \/ Route \/ pump_status \/ forward_status
    \/ \E o \in Oid : EvictTerminated(o)

Next == Hot \/ Staleness \/ Broker \/ UnackExpires \/ \E o \in Oid : OrderEnds(o)

Spec == Init /\ [][Next]_vars

(***************************************************************************)
(* Threads and tasks that have work keep doing it, and time passes for an  *)
(* entry that waits.  Nothing is assumed of the market: no decision, fill  *)
(* or end of an order has to happen.                                       *)
(***************************************************************************)
Fairness ==
    /\ WF_vars(HotWrite) /\ WF_vars(HotTrack)
    /\ WF_vars(ReadAck \/ ReadStatus)
    /\ WF_vars(StaleWrite) /\ WF_vars(StaleApply)
    /\ \A p \in Prices : WF_vars(handle_place(p))
    /\ \A o \in Oid : WF_vars(PublishAck(o)) /\ WF_vars(handle_cancel(o))
    /\ \A o \in Oid, p \in Prices : WF_vars(handle_modify(o, p))
    /\ WF_vars(Route) /\ WF_vars(pump_status) /\ WF_vars(forward_status)
    /\ WF_vars(UnackExpires)

FairSpec == Spec /\ Fairness

-----------------------------------------------------------------------------
(* Properties.                                                             *)

Act == [pc : {"idle", "write", "track"}, cmd : Cmd \union {Cancel(NoOid)},
        ok : BOOLEAN]
EntryType == [price : Prices, order_id : Oid \union {NoOid}, late : BOOLEAN]

\* Types of the trader's maps, the broker's tables and the channels.
TypeOK ==
    /\ our \in {<<>>} \union {<<e>> : e \in EntryType}
    /\ map \subseteq Oid
    /\ hot \in Act /\ stale \in Act
    /\ cmds \in [Cmd -> Nat]
    /\ events \in Seq([kind : {"place_ack", "order_status"}, oid : Oid,
                       price : Prices \union {0}])
    /\ next_id \in 1 .. MaxOrders + 1
    /\ pend \in [Oid -> {"none", "waiting", "acked", "done"}]
    /\ ibkr \in [Oid -> {"none", "live", "done"}]
    /\ limit \in [Oid -> Prices \union {0}]
    /\ wire \in Seq([kind : {"accept", "open", "end"}, oid : Oid])
    /\ open_orders \subseteq Oid /\ recently_terminated \subseteq Oid
    /\ pumping \in Seq(Oid) /\ forwarding \in Seq(Oid)

\* The orders that rest at IBKR.
Quoting == {o \in Oid : ibkr[o] = "live"}
PlacesInFlight == {p \in Prices : cmds[Place(p)] > 0}

\* At most one quote rests or is on its way at a key.
NoDoubleQuote ==
    /\ Cardinality(Quoting) + Cardinality(PlacesInFlight) <= 1
    /\ \A p \in Prices : cmds[Place(p)] <= 1

\* The debug_assert of on_tick: when an amend is tracked, the entry still
\* carries the order the amend was decided for, although the staleness
\* thread works on the same map.
ModifyTargetsTracked ==
    hot.pc = "track" /\ hot.ok /\ hot.cmd.kind = "modify" /\ our # <<>> =>
        our[1].order_id = hot.cmd.oid

\* The reverse index covers every acked entry: without it no order_status
\* could ever remove the entry.  Two threads update the two maps.
EntryIndexed == Acked => our[1].order_id \in map

\* Known to fail: the trader's cancel names the order in the field `orderId`,
\* which "matches the broker's `CancelOrderCmd`" (msgpack_encode.rs).  So a
\* cancel that handle_cancel takes up, for an order it has not seen end,
\* leaves nothing resting.
CancelEndsOrder ==
    [][\A o \in Oid :
          cmds'[Cancel(o)] < cmds[Cancel(o)] /\ o \notin recently_terminated
              => ibkr'[o] # "live"]_vars

\* No key stays blocked by an entry nobody will answer: whatever was dropped,
\* refused or given up on the way, an un-acked entry is acked, removed, or so
\* late that decide_on_tick places again (or its place waits for an id beyond
\* the bound).
UnackedResolves ==
    Unacked ~> \/ ~Unacked \/ our[1].late
               \/ next_id \notin Oid /\ \E p \in Prices : cmds[Place(p)] > 0

\* ipc.rs, handle_cancel: the trader's entry of a terminated order is
\* cleared by its own order_status handler.
DeadEntryCleared ==
    \A o \in Oid : (ibkr[o] = "done" /\ Acked /\ our[1].order_id = o)
                       ~> ~(Acked /\ our[1].order_id = o)

\* No command, message or half-done action concerns the key.
Settled ==
    /\ hot = Quiet /\ stale = Quiet
    /\ \A c \in Cmd : cmds[c] = 0
    /\ events = <<>> /\ wire = <<>> /\ forwarding = <<>>

\* main.rs: "keeps the trader's view consistent with what's actually
\* resting": once nothing is on its way, the price the trader has for its
\* live order is the price it rests at.
PricesAgree ==
    Settled /\ Acked /\ ibkr[our[1].order_id] = "live" =>
        limit[our[1].order_id] = our[1].price
=============================================================================
