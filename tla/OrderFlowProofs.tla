-------------------------- MODULE OrderFlowProofs --------------------------
(***************************************************************************)
(* The quotes of one key, for every set of prices, every set of faults and *)
(* every bound on orders and on equal commands.                            *)
(***************************************************************************)
EXTENDS MCOrderThreads, FiniteSetTheorems, SequenceTheorems, TLAPS

-----------------------------------------------------------------------------
(* Types.                                                                  *)

Event == [kind : {"place_ack", "order_status"}, oid : Oid, price : Prices \union {0}]
Wire == [kind : {"accept", "open", "end"}, oid : Oid]

\* An order that was placed has a price, and so has its ack.
TypeInv ==
    /\ TypeOK
    /\ \A o \in Oid : pend[o] # "none" => limit[o] \in Prices
    /\ \A i \in DOMAIN events : events[i].kind = "place_ack" => events[i].price \in Prices

\* A command, by its kind.
LEMMA CmdKinds ==
    ASSUME NEW c \in Cmd \union {Cancel(NoOid)}
    PROVE  /\ c.kind = "place" => c.price \in Prices /\ c = Place(c.price)
           /\ c.kind = "modify" => c.oid \in Oid /\ c.price \in Prices /\ c = Modify(c.oid, c.price)
           /\ c.kind = "cancel" => c = Cancel(c.oid)
           /\ c.kind \in {"place", "modify", "cancel"}
<1>1. CASE \E p \in Prices : c = Place(p)
  BY <1>1 DEF Place
<1>2. CASE \E o \in Oid : c = Cancel(o)
  BY <1>2 DEF Cancel
<1>3. CASE \E o \in Oid, p \in Prices : c = Modify(o, p)
  BY <1>3 DEF Modify
<1>4. CASE c = Cancel(NoOid)
  BY <1>4 DEF Cancel
<1> QED
  BY <1>1, <1>2, <1>3, <1>4 DEF Cmd

\* The three constructors, apart from each other.
LEMMA CmdFields ==
    /\ \A p : Place(p).kind = "place" /\ Place(p).price = p
    /\ \A o, p : Modify(o, p).kind = "modify" /\ Modify(o, p).oid = o
    /\ \A o : Cancel(o).kind = "cancel" /\ Cancel(o).oid = o
    /\ \A p \in Prices : Place(p) \in Cmd
    /\ \A o \in Oid : Cancel(o) \in Cmd
    /\ \A o \in Oid, p \in Prices : Modify(o, p) \in Cmd
<1>1. \A p : Place(p).kind = "place" /\ Place(p).price = p
  BY DEF Place
<1>2. \A o, p : Modify(o, p).kind = "modify" /\ Modify(o, p).oid = o
  BY DEF Modify
<1>3. \A o : Cancel(o).kind = "cancel" /\ Cancel(o).oid = o
  BY DEF Cancel
<1>4. \A p \in Prices : Place(p) \in Cmd
  BY DEF Cmd
<1>5. \A o \in Oid : Cancel(o) \in Cmd
  BY DEF Cmd
<1>6. \A o \in Oid, p \in Prices : Modify(o, p) \in Cmd
  BY DEF Cmd
<1> QED
  BY <1>1, <1>2, <1>3, <1>4, <1>5, <1>6

\* An action of a thread.
LEMMA ActFields ==
    /\ Quiet \in Act /\ Quiet.pc = "idle" /\ Quiet.cmd = Cancel(NoOid) /\ Quiet.ok = FALSE
    /\ \A c \in Cmd : Doing(c) \in Act
    /\ \A c : Doing(c).pc = "write" /\ Doing(c).cmd = c /\ Doing(c).ok = FALSE
<1>1. Quiet \in Act /\ Quiet.pc = "idle" /\ Quiet.cmd = Cancel(NoOid) /\ Quiet.ok = FALSE
  BY DEF Quiet, Act
<1>2. \A c \in Cmd : Doing(c) \in Act
  BY DEF Doing, Act
<1>3. \A c : Doing(c).pc = "write" /\ Doing(c).cmd = c /\ Doing(c).ok = FALSE
  BY DEF Doing
<1> QED
  BY <1>1, <1>2, <1>3

\* The entry at the key.
LEMMA OurCases ==
    ASSUME TypeOK
    PROVE  our = <<>> \/ (our # <<>> /\ our[1] \in EntryType /\ our = <<our[1]>>)
  BY DEF TypeOK

LEMMA EntryFields ==
    /\ \A p \in Prices : \A o \in Oid \union {NoOid} : Entry(p, o) \in EntryType
    /\ \A p, o : Entry(p, o).order_id = o /\ Entry(p, o).late = FALSE /\ Entry(p, o).price = p
    /\ \A p, o : <<Entry(p, o)>> # <<>> /\ <<Entry(p, o)>>[1] = Entry(p, o)
  BY DEF Entry, EntryType

LEMMA InitTypes == Init => TypeInv
<1> SUFFICES ASSUME Init PROVE TypeInv
  OBVIOUS
<1>1. 1 \in 1 .. MaxOrders + 1 /\ cmds \in [Cmd -> Nat]
  BY FlowAssumption DEF Init
<1>2. DOMAIN events = {}
  BY DEF Init
<1> QED
  BY <1>1, <1>2, ActFields DEF Init, TypeInv, TypeOK

\* The conjuncts of TypeInv, by the variables they are about.
TraderTypes == our \in {<<>>} \union {<<e>> : e \in EntryType} /\ map \subseteq Oid
EventTypes ==
    /\ events \in Seq(Event)
    /\ \A i \in DOMAIN events : events[i].kind = "place_ack" => events[i].price \in Prices
OrderTypes ==
    /\ next_id \in 1 .. MaxOrders + 1
    /\ pend \in [Oid -> {"none", "waiting", "acked", "done"}]
    /\ limit \in [Oid -> Prices \union {0}]
    /\ \A o \in Oid : pend[o] # "none" => limit[o] \in Prices
FeedTypes ==
    /\ wire \in Seq(Wire) /\ pumping \in Seq(Oid) /\ forwarding \in Seq(Oid)
    /\ open_orders \subseteq Oid /\ recently_terminated \subseteq Oid

LEMMA TypeParts ==
    TypeInv <=> /\ TraderTypes /\ EventTypes /\ OrderTypes /\ FeedTypes
                /\ hot \in Act /\ stale \in Act /\ cmds \in [Cmd -> Nat]
                /\ ibkr \in [Oid -> {"none", "live", "done"}]
  BY DEF TypeInv, TypeOK, TraderTypes, EventTypes, OrderTypes, FeedTypes, Event, Wire

LEMMA TypePartsNext ==
    TypeInv' <=> /\ TraderTypes' /\ EventTypes' /\ OrderTypes' /\ FeedTypes'
                 /\ hot' \in Act /\ stale' \in Act /\ cmds' \in [Cmd -> Nat]
                 /\ ibkr' \in [Oid -> {"none", "live", "done"}]
  BY DEF TypeInv, TypeOK, TraderTypes, EventTypes, OrderTypes, FeedTypes, Event, Wire

LEMMA SendTake ==
    ASSUME cmds \in [Cmd -> Nat], NEW c
    PROVE  /\ Send(c) => cmds' \in [Cmd -> Nat] /\ \A d \in Cmd : cmds'[d] = IF d = c THEN cmds[d] + 1 ELSE cmds[d]
           /\ c \in Cmd /\ Take(c) => /\ cmds' \in [Cmd -> Nat] /\ cmds[c] > 0
                                      /\ \A d \in Cmd : cmds'[d] = IF d = c THEN cmds[d] - 1 ELSE cmds[d]
  BY DEF Send, Take

\* What the hot thread does to its own variables keeps their types.
LEMMA HotTypes == TypeInv /\ Hot => TypeInv'
<1> SUFFICES ASSUME TypeInv, Hot PROVE TypeInv'
  OBVIOUS
<1>0. /\ TraderTypes /\ EventTypes /\ OrderTypes /\ FeedTypes
      /\ hot \in Act /\ stale \in Act /\ cmds \in [Cmd -> Nat]
      /\ ibkr \in [Oid -> {"none", "live", "done"}]
  BY TypeParts
<1>1. UNCHANGED <<brokerVars, feedVars, ibkrVars, stale>>
  BY DEF Hot, DecidePlace, DecideModify, DecideCancelAll, HotWrite, HotTrack, ReadAck, ReadStatus
<1>2. OrderTypes' /\ FeedTypes' /\ ibkr' \in [Oid -> {"none", "live", "done"}] /\ stale' \in Act
  BY <1>0, <1>1 DEF brokerVars, feedVars, ibkrVars, OrderTypes, FeedTypes
<1>3. ASSUME TraderTypes', EventTypes', hot' \in Act, cmds' \in [Cmd -> Nat] PROVE TypeInv'
  BY <1>2, <1>3, TypePartsNext
<1>4. UNCHANGED traderVars => TraderTypes'
  BY <1>0 DEF traderVars, TraderTypes
<1>5. UNCHANGED events => EventTypes'
  BY <1>0 DEF EventTypes
<1>6. Acked => our[1].order_id \in Oid
  BY OurCases DEF Acked, TypeInv, EntryType
<1>7. \A p \in Prices : DecidePlace(p) \/ DecideModify(p) => TypeInv'
  BY <1>0, <1>3, <1>4, <1>5, <1>6, ActFields, CmdFields DEF DecidePlace, DecideModify
<1>8. DecideCancelAll => TypeInv'
  BY <1>0, <1>3, <1>4, <1>5, <1>6, ActFields, CmdFields DEF DecideCancelAll
<1>9. ASSUME HotWrite PROVE TypeInv'
  <2>1. hot' \in Act
    BY <1>0, <1>9 DEF HotWrite, Act
  <2>2. cmds' \in [Cmd -> Nat]
    BY <1>0, <1>9, SendTake DEF HotWrite
  <2> QED
    BY <1>3, <1>4, <1>5, <1>9, <2>1, <2>2 DEF HotWrite
<1>10. ASSUME HotTrack PROVE TypeInv'
  <2>1. hot.cmd \in Cmd \union {Cancel(NoOid)}
    BY <1>0 DEF Act
  <2>2. hot.cmd.kind \in {"place", "modify"} => hot.cmd.price \in Prices
    BY <2>1, CmdKinds
  <2>3. our # <<>> => our[1].order_id \in Oid \union {NoOid}
    BY OurCases DEF TypeInv, EntryType
  <2>4. TraderTypes'
    BY <1>0, <1>10, <2>2, <2>3, EntryFields DEF HotTrack, traderVars, TraderTypes, NoOid
  <2> QED
    BY <1>0, <1>3, <1>5, <1>10, <2>4, ActFields DEF HotTrack
<1>11. ASSUME ReadAck PROVE TypeInv'
  <2>1. /\ events \in Seq(Event) /\ events # <<>> /\ Head(events).kind = "place_ack"
        /\ events' = Tail(events) /\ UNCHANGED <<hot, cmds>>
    BY <1>0, <1>11 DEF ReadAck, EventTypes
  <2>2. Head(events) = events[1] /\ 1 \in DOMAIN events /\ events[1] \in Event
    BY <2>1
  <2>3. Head(events).price \in Prices /\ Head(events).oid \in Oid
    BY <1>0, <2>1, <2>2 DEF EventTypes, Event
  <2>4. our # <<>> => our[1].price \in Prices
    BY OurCases DEF TypeInv, EntryType
  <2>5. TraderTypes'
    BY <1>0, <1>11, <2>3, <2>4, EntryFields DEF ReadAck, TraderTypes
  <2>6. EventTypes'
    BY <1>0, <2>1 DEF EventTypes
  <2> QED
    BY <1>0, <1>3, <2>1, <2>5, <2>6
<1>12. ASSUME ReadStatus PROVE TypeInv'
  <2>1. /\ events \in Seq(Event) /\ events # <<>> /\ events' = Tail(events) /\ UNCHANGED <<hot, cmds>>
    BY <1>0, <1>12 DEF ReadStatus, EventTypes
  <2>2. TraderTypes'
    BY <1>0, <1>12 DEF ReadStatus, TraderTypes
  <2>3. EventTypes'
    BY <1>0, <2>1 DEF EventTypes
  <2> QED
    BY <1>0, <1>3, <2>1, <2>2, <2>3
<1> QED
  BY <1>7, <1>8, <1>9, <1>10, <1>11, <1>12 DEF Hot

LEMMA StalenessTypes == TypeInv /\ (Staleness \/ UnackExpires) => TypeInv'
<1> SUFFICES ASSUME TypeInv, Staleness \/ UnackExpires PROVE TypeInv'
  OBVIOUS
<1>0. /\ TraderTypes /\ EventTypes /\ OrderTypes /\ FeedTypes
      /\ hot \in Act /\ stale \in Act /\ cmds \in [Cmd -> Nat]
      /\ ibkr \in [Oid -> {"none", "live", "done"}]
  BY TypeParts
<1>1. UNCHANGED <<brokerVars, feedVars, ibkrVars, hot, events>>
  BY DEF Staleness, ScanModify, ScanCancel, StaleWrite, StaleApply, UnackExpires
<1>2. /\ OrderTypes' /\ FeedTypes' /\ ibkr' \in [Oid -> {"none", "live", "done"}] /\ hot' \in Act
      /\ EventTypes'
  BY <1>0, <1>1 DEF brokerVars, feedVars, ibkrVars, OrderTypes, FeedTypes, EventTypes
<1>3. ASSUME TraderTypes', stale' \in Act, cmds' \in [Cmd -> Nat] PROVE TypeInv'
  BY <1>2, <1>3, TypePartsNext
<1>4. UNCHANGED traderVars => TraderTypes'
  BY <1>0 DEF traderVars, TraderTypes
<1>5. Acked => our[1].order_id \in Oid
  BY OurCases DEF Acked, TypeInv, EntryType
<1>6. \A p \in Prices : ScanModify(p) => TypeInv'
  BY <1>0, <1>3, <1>4, <1>5, ActFields, CmdFields DEF ScanModify
<1>7. ScanCancel => TypeInv'
  BY <1>0, <1>3, <1>4, <1>5, ActFields, CmdFields DEF ScanCancel
<1>8. ASSUME StaleWrite PROVE TypeInv'
  <2>1. [stale EXCEPT !.pc = "track"] \in Act
    BY <1>0 DEF Act
  <2>2. stale' \in Act
    BY <1>8, <2>1, ActFields DEF StaleWrite
  <2>3. cmds' \in [Cmd -> Nat]
    BY <1>0, <1>8, SendTake DEF StaleWrite
  <2> QED
    BY <1>3, <1>4, <1>8, <2>2, <2>3 DEF StaleWrite
<1>9. ASSUME StaleApply PROVE TypeInv'
  <2>1. stale.cmd \in Cmd \union {Cancel(NoOid)}
    BY <1>0 DEF Act
  <2>2. stale.cmd.kind \in {"place", "modify"} => stale.cmd.price \in Prices
    BY <2>1, CmdKinds
  <2>3. our # <<>> => our[1].order_id \in Oid \union {NoOid}
    BY OurCases DEF TypeInv, EntryType
  <2>4. TraderTypes'
    BY <1>0, <1>9, <2>2, <2>3, EntryFields DEF StaleApply, TraderTypes
  <2> QED
    BY <1>0, <1>3, <1>9, <2>4, ActFields DEF StaleApply
<1>10. ASSUME UnackExpires PROVE TypeInv'
  <2>1. our # <<>> /\ our[1] \in EntryType
    BY <1>10, OurCases DEF UnackExpires, Unacked, TypeInv
  <2>2. [our[1] EXCEPT !.late = TRUE] \in EntryType
    BY <2>1 DEF EntryType
  <2>3. TraderTypes'
    BY <1>0, <1>10, <2>2 DEF UnackExpires, TraderTypes
  <2> QED
    BY <1>0, <1>3, <1>10, <2>3 DEF UnackExpires
<1> QED
  BY <1>6, <1>7, <1>8, <1>9, <1>10 DEF Staleness

LEMMA BrokerTypes == TypeInv /\ (Broker \/ \E o \in Oid : OrderEnds(o)) => TypeInv'
<1> SUFFICES ASSUME TypeInv, Broker \/ \E o \in Oid : OrderEnds(o) PROVE TypeInv'
  OBVIOUS
<1>0. /\ TraderTypes /\ EventTypes /\ OrderTypes /\ FeedTypes
      /\ hot \in Act /\ stale \in Act /\ cmds \in [Cmd -> Nat]
      /\ ibkr \in [Oid -> {"none", "live", "done"}]
  BY TypeParts
<1>1. UNCHANGED <<traderVars, hot, stale>>
  BY DEF Broker, handle_place, PlaceRefused, PlaceAckTimeout, PublishAck, handle_cancel,
         handle_modify, Route, pump_status, forward_status, EvictTerminated, OrderEnds
<1>2. TraderTypes' /\ hot' \in Act /\ stale' \in Act
  BY <1>0, <1>1 DEF traderVars, TraderTypes
<1>3. ASSUME EventTypes', OrderTypes', FeedTypes', cmds' \in [Cmd -> Nat],
             ibkr' \in [Oid -> {"none", "live", "done"}]
      PROVE TypeInv'
  BY <1>2, <1>3, TypePartsNext
<1>4. /\ UNCHANGED events => EventTypes'
      /\ UNCHANGED <<next_id, pend, limit>> => OrderTypes'
      /\ UNCHANGED <<feedVars, open_orders, recently_terminated>> => FeedTypes'
  BY <1>0 DEF EventTypes, OrderTypes, FeedTypes, feedVars
<1>5. ASSUME NEW p \in Prices, handle_place(p) PROVE TypeInv'
  <2>1. next_id \in Oid /\ next_id \in Nat /\ MaxOrders \in Nat /\ next_id <= MaxOrders
    BY <1>5, FlowAssumption DEF handle_place, Oid
  <2>2. OrderTypes'
    BY <1>0, <1>5, <2>1 DEF handle_place, OrderTypes
  <2>3. \A k \in {"accept", "open", "end"} : [kind |-> k, oid |-> next_id] \in Wire
    BY <2>1 DEF Wire
  <2>4. wire' \in Seq(Wire)
    <3>1. wire \in Seq(Wire)
      BY <1>0 DEF FeedTypes
    <3> DEFINE a == [kind |-> "accept", oid |-> next_id]
               b == [kind |-> "open", oid |-> next_id]
    <3>2. a \in Wire /\ b \in Wire
      BY <2>3
    <3>3. wire' = Append(wire, b) \/ wire' = wire \o <<a, b>>
      BY <1>5 DEF handle_place
    <3> HIDE DEF a, b
    <3>4. <<a, b>> \in Seq(Wire)
      BY <3>2
    <3>5. wire \o <<a, b>> \in Seq(Wire)
      BY <3>1, <3>4, ConcatProperties
    <3>6. Append(wire, b) \in Seq(Wire)
      BY <3>1, <3>2
    <3> QED
      BY <3>3, <3>5, <3>6
  <2>5. FeedTypes'
    BY <1>0, <1>5, <2>4 DEF handle_place, FeedTypes
  <2>6. cmds' \in [Cmd -> Nat]
    BY <1>0, <1>5, SendTake, CmdFields DEF handle_place
  <2>7. ibkr' \in [Oid -> {"none", "live", "done"}] /\ UNCHANGED events
    BY <1>0, <1>5 DEF handle_place
  <2> QED
    BY <1>3, <1>4, <2>2, <2>5, <2>6, <2>7
<1>6. ASSUME NEW p \in Prices, PlaceRefused(p) PROVE TypeInv'
  <2>1. cmds' \in [Cmd -> Nat]
    BY <1>0, <1>6, SendTake, CmdFields DEF PlaceRefused
  <2> QED
    BY <1>0, <1>3, <1>4, <1>6, <2>1 DEF PlaceRefused, brokerVars, ibkrVars
<1>7. ASSUME NEW o \in Oid, PlaceAckTimeout(o) PROVE TypeInv'
  <2>1. OrderTypes'
    BY <1>0, <1>7 DEF PlaceAckTimeout, OrderTypes, ibkrVars
  <2> QED
    BY <1>0, <1>3, <1>4, <1>7, <2>1 DEF PlaceAckTimeout, ibkrVars
<1>8. ASSUME NEW o \in Oid, PublishAck(o) PROVE TypeInv'
  <2>1. OrderTypes' /\ limit[o] \in Prices
    BY <1>0, <1>8 DEF PublishAck, OrderTypes, ibkrVars
  <2> DEFINE a == Ack(o, limit[o])
  <2>2. a \in Event /\ a.price \in Prices
    BY <2>1 DEF Ack, Event
  <2> HIDE DEF a
  <2>3. events' = Append(events, a) => EventTypes'
    <3>1. events \in Seq(Event)
      BY <1>0 DEF EventTypes
    <3> QED
      BY <1>0, <2>2, <3>1 DEF EventTypes
  <2>4. EventTypes'
    BY <1>4, <1>8, <2>3 DEF PublishAck, a
  <2> QED
    BY <1>0, <1>3, <1>4, <1>8, <2>1, <2>4 DEF PublishAck, ibkrVars
<1>9. ASSUME NEW o \in Oid, handle_cancel(o) \/ OrderEnds(o) PROVE TypeInv'
  <2>1. cmds' \in [Cmd -> Nat]
    BY <1>0, <1>9, SendTake, CmdFields DEF handle_cancel, OrderEnds
  <2>2. ibkr' \in [Oid -> {"none", "live", "done"}]
    BY <1>0, <1>9 DEF handle_cancel, OrderEnds
  <2> DEFINE m == [kind |-> "end", oid |-> o]
  <2>3. m \in Wire
    BY DEF Wire
  <2>4. wire' = wire \/ wire' = Append(wire, m)
    BY <1>9 DEF handle_cancel, OrderEnds
  <2> HIDE DEF m
  <2>5. FeedTypes'
    <3>1. wire' \in Seq(Wire)
      <4>1. wire \in Seq(Wire)
        BY <1>0 DEF FeedTypes
      <4>2. Append(wire, m) \in Seq(Wire)
        BY <2>3, <4>1
      <4> QED
        BY <2>4, <4>1, <4>2
    <3> QED
      BY <1>0, <1>9, <3>1 DEF FeedTypes, handle_cancel, OrderEnds, brokerVars
  <2> QED
    BY <1>3, <1>4, <1>9, <2>1, <2>2, <2>5 DEF handle_cancel, OrderEnds, brokerVars
<1>10. ASSUME NEW o \in Oid, NEW p \in Prices, handle_modify(o, p) PROVE TypeInv'
  <2>1. cmds' \in [Cmd -> Nat]
    BY <1>0, <1>10, SendTake, CmdFields DEF handle_modify
  <2>2. OrderTypes'
    BY <1>0, <1>10 DEF handle_modify, modify_order, OrderTypes, brokerVars
  <2> QED
    BY <1>0, <1>3, <1>4, <1>10, <2>1, <2>2 DEF handle_modify, brokerVars
<1>11. ASSUME Route PROVE TypeInv'
  <2>1. wire \in Seq(Wire) /\ wire # <<>> /\ Head(wire) \in Wire /\ Tail(wire) \in Seq(Wire)
    BY <1>0, <1>11 DEF Route, FeedTypes
  <2>2. Head(wire).oid \in Oid
    BY <2>1 DEF Wire
  <2>3. OrderTypes'
    BY <1>0, <1>11, <2>2 DEF Route, OrderTypes, ibkrVars
  <2>4. FeedTypes'
    <3>1. pumping \in Seq(Oid) /\ forwarding \in Seq(Oid)
      BY <1>0 DEF FeedTypes
    <3>2. Append(pumping, Head(wire).oid) \in Seq(Oid) /\ Append(forwarding, Head(wire).oid) \in Seq(Oid)
      BY <2>2, <3>1
    <3>3. pumping' \in Seq(Oid) /\ forwarding' \in Seq(Oid) /\ wire' \in Seq(Wire)
      BY <1>11, <2>1, <3>1, <3>2 DEF Route
    <3>4. open_orders' \subseteq Oid /\ recently_terminated' \subseteq Oid
      BY <1>0, <1>11, <2>2 DEF Route, FeedTypes
    <3> QED
      BY <3>3, <3>4 DEF FeedTypes
  <2> QED
    BY <1>0, <1>3, <1>4, <1>11, <2>3, <2>4 DEF Route, ibkrVars
<1>12. ASSUME pump_status PROVE TypeInv'
  <2>1. Head(pumping) \in Oid /\ Tail(pumping) \in Seq(Oid)
    BY <1>0, <1>12 DEF pump_status, FeedTypes
  <2>2. FeedTypes'
    BY <1>0, <1>12, <2>1 DEF pump_status, FeedTypes
  <2> QED
    BY <1>0, <1>3, <1>4, <1>12, <2>2 DEF pump_status, ibkrVars
<1>13. ASSUME forward_status PROVE TypeInv'
  <2>1. Head(forwarding) \in Oid /\ Tail(forwarding) \in Seq(Oid)
    BY <1>0, <1>13 DEF forward_status, FeedTypes
  <2>2. FeedTypes'
    BY <1>0, <1>13, <2>1 DEF forward_status, FeedTypes, brokerVars
  <2> DEFINE a == Status(Head(forwarding))
  <2>3. a \in Event /\ a.kind = "order_status"
    BY <2>1 DEF Status, Event
  <2> HIDE DEF a
  <2>4. events' = Append(events, a) => EventTypes'
    <3>1. events \in Seq(Event)
      BY <1>0 DEF EventTypes
    <3> QED
      BY <1>0, <2>3, <3>1 DEF EventTypes
  <2>5. EventTypes'
    BY <1>4, <1>13, <2>4 DEF forward_status, a
  <2> QED
    BY <1>0, <1>3, <1>4, <1>13, <2>2, <2>5 DEF forward_status, brokerVars, ibkrVars
<1>14. ASSUME NEW o \in Oid, EvictTerminated(o) PROVE TypeInv'
  <2>1. FeedTypes'
    BY <1>0, <1>14 DEF EvictTerminated, FeedTypes, feedVars
  <2> QED
    BY <1>0, <1>3, <1>4, <1>14, <2>1 DEF EvictTerminated, ibkrVars
<1> QED
  BY <1>5, <1>6, <1>7, <1>8, <1>9, <1>10, <1>11, <1>12, <1>13, <1>14 DEF Broker

LEMMA TypeInvInductive == TypeInv /\ [Next]_vars => TypeInv'
<1>1. TypeInv /\ UNCHANGED vars => TypeInv'
  BY DEF TypeInv, TypeOK, vars, traderVars, brokerVars, feedVars, ibkrVars
<1> QED
  BY <1>1, HotTypes, StalenessTypes, BrokerTypes DEF Next

LEMMA TypeInvHolds == Spec => []TypeInv
  BY InitTypes, TypeInvInductive, PTL DEF Spec

\* The trader's maps, the broker's tables and the channels hold what they
\* are meant to hold.
THEOREM TypeOKAlways == Spec => []TypeOK
<1>1. TypeInv => TypeOK
  BY DEF TypeInv
<1> QED
  BY <1>1, TypeInvHolds, PTL

-----------------------------------------------------------------------------
(* The two maps and the two threads.                                       *)

TrackInv ==
    /\ EntryIndexed
    /\ hot.pc # "idle" /\ hot.cmd.kind = "modify" /\ our # <<>> =>
          our[1].order_id = hot.cmd.oid

\* The steps that leave the trader's maps alone.
LEMMA MapSteps ==
    ASSUME [Next]_vars
    PROVE  \/ HotTrack \/ ReadAck \/ ReadStatus
           \/ (StaleApply \/ UnackExpires) /\ UNCHANGED hot
           \/ /\ UNCHANGED traderVars
              /\ \/ UNCHANGED hot
                 \/ HotWrite \/ DecideCancelAll
                 \/ \E p \in Prices : DecidePlace(p) \/ DecideModify(p)
<1>1. Staleness => \/ StaleApply /\ UNCHANGED hot
                   \/ UNCHANGED <<traderVars, hot>>
  BY DEF Staleness, ScanModify, ScanCancel, StaleWrite, StaleApply
<1>2. Broker \/ (\E o \in Oid : OrderEnds(o)) => UNCHANGED <<traderVars, hot>>
  BY DEF Broker, handle_place, PlaceRefused, PlaceAckTimeout, PublishAck, handle_cancel,
         handle_modify, Route, pump_status, forward_status, EvictTerminated, OrderEnds
<1>3. UnackExpires => UNCHANGED hot
  BY DEF UnackExpires
<1>4. HotWrite \/ DecideCancelAll \/ (\E p \in Prices : DecidePlace(p) \/ DecideModify(p))
        => UNCHANGED traderVars
  BY DEF HotWrite, DecideCancelAll, DecidePlace, DecideModify
<1>5. UNCHANGED vars => UNCHANGED <<traderVars, hot>>
  BY DEF vars
<1> QED
  BY <1>1, <1>2, <1>3, <1>4, <1>5 DEF Next, Hot

LEMMA TrackInvInductive == TypeInv /\ TrackInv /\ [Next]_vars => TrackInv'
<1> SUFFICES ASSUME TypeInv, TrackInv, [Next]_vars PROVE TrackInv'
  OBVIOUS
<1>0. /\ our = <<>> \/ (our # <<>> /\ our[1] \in EntryType)
      /\ hot \in Act /\ Quiet.pc = "idle"
  BY OurCases, ActFields DEF TypeInv, TypeOK
<1> DEFINE M == hot'.pc # "idle" /\ hot'.cmd.kind = "modify" /\ our' # <<>> =>
                    our'[1].order_id = hot'.cmd.oid
<1>1. ASSUME EntryIndexed', M PROVE TrackInv'
  BY <1>1 DEF TrackInv
<1>2. CASE HotTrack
  <2>1. hot'.pc = "idle"
    BY <1>0, <1>2 DEF HotTrack
  <2>2. EntryIndexed'
    BY <1>0, <1>2, EntryFields DEF HotTrack, TrackInv, EntryIndexed, Acked, traderVars
  <2> QED
    BY <1>1, <2>1, <2>2
<1>3. CASE ReadAck
  <2>1. hot'.pc = "idle"
    BY <1>0, <1>3 DEF ReadAck
  <2>2. EntryIndexed'
    BY <1>0, <1>3, EntryFields DEF ReadAck, TrackInv, EntryIndexed, Acked
  <2> QED
    BY <1>1, <2>1, <2>2
<1>4. CASE ReadStatus
  <2>1. hot'.pc = "idle"
    BY <1>0, <1>4 DEF ReadStatus
  <2>2. EntryIndexed'
    BY <1>0, <1>4 DEF ReadStatus, TrackInv, EntryIndexed, Acked
  <2> QED
    BY <1>1, <2>1, <2>2
<1>5. CASE StaleApply /\ UNCHANGED hot
  <2>1. our' = <<>> \/ /\ our # <<>> /\ our' # <<>> /\ our'[1].order_id = our[1].order_id
                       /\ UNCHANGED map
    BY <1>5, EntryFields DEF StaleApply
  <2> QED
    BY <1>1, <1>5, <2>1 DEF TrackInv, EntryIndexed, Acked
<1>6. CASE UnackExpires /\ UNCHANGED hot
  <2>1. our # <<>> /\ our[1] \in EntryType /\ our' = <<[our[1] EXCEPT !.late = TRUE]>>
    BY <1>0, <1>6 DEF UnackExpires, Unacked
  <2>2. our' # <<>> /\ our'[1].order_id = our[1].order_id /\ UNCHANGED map
    BY <1>6, <2>1 DEF UnackExpires, EntryType
  <2> QED
    BY <1>1, <1>6, <2>1, <2>2 DEF TrackInv, EntryIndexed, Acked
<1>7. CASE UNCHANGED traderVars
  <2>1. EntryIndexed'
    BY <1>7 DEF TrackInv, EntryIndexed, Acked, traderVars
  <2>2. CASE UNCHANGED hot
    BY <1>1, <1>7, <2>1, <2>2 DEF TrackInv, traderVars
  <2>3. CASE HotWrite
    <3>1. hot.pc # "idle" /\ hot'.cmd = hot.cmd
      BY <1>0, <2>3 DEF HotWrite, Act
    <3> QED
      BY <1>1, <1>7, <2>1, <3>1 DEF TrackInv, traderVars
  <2>4. CASE DecideCancelAll
    <3>1. hot'.cmd.kind = "cancel"
      BY <2>4, ActFields, CmdFields DEF DecideCancelAll
    <3> QED
      BY <1>1, <2>1, <3>1
  <2>5. ASSUME NEW p \in Prices, DecidePlace(p) PROVE TrackInv'
    <3>1. hot'.cmd.kind = "place"
      BY <2>5, ActFields, CmdFields DEF DecidePlace
    <3> QED
      BY <1>1, <2>1, <3>1
  <2>6. ASSUME NEW p \in Prices, DecideModify(p) PROVE TrackInv'
    <3>1. hot'.cmd.oid = our[1].order_id
      BY <2>6, ActFields, CmdFields DEF DecideModify
    <3> QED
      BY <1>1, <1>7, <2>1, <3>1 DEF traderVars
  <2> QED
    BY <1>2, <1>3, <1>4, <1>5, <1>6, <2>2, <2>3, <2>4, <2>5, <2>6, MapSteps
<1> QED
  BY <1>2, <1>3, <1>4, <1>5, <1>6, <1>7, MapSteps

LEMMA TrackInvHolds == Spec => []TrackInv
<1>1. Init => TrackInv
  BY ActFields DEF Init, TrackInv, EntryIndexed, Acked
<1> QED
  BY <1>1, TrackInvInductive, TypeInvHolds, PTL DEF Spec

\* orderid_to_key covers every acked entry of our_orders, although the hot
\* thread and the staleness thread update the two maps.
THEOREM EntryIndexedAlways == Spec => []EntryIndexed
<1>1. TrackInv => EntryIndexed
  BY DEF TrackInv
<1> QED
  BY <1>1, TrackInvHolds, PTL

\* The debug_assert of on_tick: the entry an amend is tracked on still carries
\* the order the amend was decided for.
THEOREM ModifyTargetsTrackedAlways == Spec => []ModifyTargetsTracked
<1>1. TrackInv => ModifyTargetsTracked
  BY DEF TrackInv, ModifyTargetsTracked
<1> QED
  BY <1>1, TrackInvHolds, PTL

-----------------------------------------------------------------------------
(* What ended at IBKR stays ended, and every trace of an end is of an      *)
(* order that ended.                                                       *)

WireDead == \A i \in DOMAIN wire : wire[i].kind = "end" => ibkr[wire[i].oid] = "done"
PumpDead == \A i \in DOMAIN pumping : ibkr[pumping[i]] = "done"
ForwardDead == \A i \in DOMAIN forwarding : ibkr[forwarding[i]] = "done"
StatusDead ==
    \A i \in DOMAIN events : events[i].kind = "order_status" => ibkr[events[i].oid] = "done"
TerminatedDead == \A o \in recently_terminated : ibkr[o] = "done"
FreshIds == \A o \in Oid : o >= next_id => ibkr[o] = "none"

DeadInv == WireDead /\ PumpDead /\ ForwardDead /\ StatusDead /\ TerminatedDead /\ FreshIds

\* A queue that loses its head, and one that gains an element.
LEMMA TailAt ==
    ASSUME NEW S, NEW s \in Seq(S), s # <<>>
    PROVE  /\ 1 \in DOMAIN s /\ Head(s) = s[1] /\ s[1] \in S
           /\ \A i \in DOMAIN Tail(s) : /\ i \in Nat /\ i + 1 \in DOMAIN s
                                        /\ Tail(s)[i] = s[i + 1]
           /\ \A i \in DOMAIN s : i # 1 => i - 1 \in DOMAIN Tail(s)
<1>1. Len(s) \in Nat /\ Len(s) > 0 /\ DOMAIN s = 1 .. Len(s)
  BY EmptySeq, LenProperties
<1>2. Tail(s) \in Seq(S) /\ DOMAIN Tail(s) = 1 .. (Len(s) - 1)
      /\ \A i \in 1 .. (Len(s) - 1) : Tail(s)[i] = s[i + 1]
  BY <1>1, HeadTailProperties, SMTT(30)
<1> QED
  BY <1>1, <1>2, ElementOfSeq

LEMMA AppendAt ==
    ASSUME NEW S, NEW s \in Seq(S), NEW e \in S
    PROVE  /\ \A i \in DOMAIN Append(s, e) : \/ i \in DOMAIN s /\ Append(s, e)[i] = s[i]
                                             \/ i = Len(s) + 1 /\ Append(s, e)[i] = e
           /\ \A i \in DOMAIN s : i \in DOMAIN Append(s, e) /\ Append(s, e)[i] = s[i]
           /\ Len(s) + 1 \in DOMAIN Append(s, e) /\ Append(s, e)[Len(s) + 1] = e
           /\ Len(s) + 1 \notin DOMAIN s /\ Append(s, e) # s
<1>1. Len(s) \in Nat /\ DOMAIN s = 1 .. Len(s)
  BY LenProperties
<1>2. /\ Append(s, e) \in Seq(S) /\ Len(Append(s, e)) = Len(s) + 1
      /\ \A i \in 1 .. Len(s) : Append(s, e)[i] = s[i]
      /\ Append(s, e)[Len(s) + 1] = e
  BY AppendProperties
<1>3. DOMAIN Append(s, e) = 1 .. Len(s) + 1
  BY <1>2, LenProperties
<1> DEFINE a == Append(s, e)
           n == Len(s)
<1>4. /\ n \in Nat /\ DOMAIN s = 1 .. n /\ DOMAIN a = 1 .. n + 1
      /\ \A i \in 1 .. n : a[i] = s[i]
      /\ a[n + 1] = e
  BY <1>1, <1>2, <1>3
<1> HIDE DEF a, n
<1>5. /\ \A i \in DOMAIN a : (i \in DOMAIN s /\ a[i] = s[i]) \/ (i = n + 1 /\ a[i] = e)
      /\ \A i \in DOMAIN s : i \in DOMAIN a /\ a[i] = s[i]
      /\ n + 1 \in DOMAIN a /\ n + 1 \notin DOMAIN s /\ a # s
  BY <1>4
<1> QED
  BY <1>4, <1>5, ZenonT(30) DEF a, n

\* What a step may do to the orders at IBKR and to the queues.
LEMMA OrderSteps ==
    ASSUME TypeInv, [Next]_vars
    PROVE  /\ \/ UNCHANGED <<ibkr, next_id>>
              \/ \E p \in Prices : handle_place(p)
              \/ \E o \in Oid : /\ ibkr[o] = "live" /\ ibkr' = [ibkr EXCEPT ![o] = "done"]
                                /\ UNCHANGED next_id
           /\ \/ UNCHANGED wire \/ Route
              \/ \E p \in Prices : handle_place(p)
              \/ \E o \in Oid : /\ ibkr' = [ibkr EXCEPT ![o] = "done"]
                                /\ wire' = Append(wire, [kind |-> "end", oid |-> o])
           /\ UNCHANGED recently_terminated \/ pump_status \/ \E o \in Oid : EvictTerminated(o)
           /\ UNCHANGED pumping \/ Route \/ pump_status
           /\ UNCHANGED forwarding \/ Route \/ forward_status
           /\ \/ UNCHANGED events \/ ReadAck \/ ReadStatus \/ forward_status
              \/ \E o \in Oid : PublishAck(o)
<1>1. CASE Hot
  BY <1>1 DEF Hot, DecidePlace, DecideModify, DecideCancelAll, HotWrite, HotTrack, ReadAck,
              ReadStatus, brokerVars, feedVars, ibkrVars
<1>2. CASE Staleness \/ UnackExpires
  BY <1>2 DEF Staleness, ScanModify, ScanCancel, StaleWrite, StaleApply, UnackExpires,
              brokerVars, feedVars, ibkrVars
<1>3. CASE \E o \in Oid : OrderEnds(o)
  BY <1>3 DEF OrderEnds, brokerVars
<1>4. CASE \E o \in Oid : handle_cancel(o)
  BY <1>4 DEF handle_cancel, brokerVars
<1>5. CASE \/ \E p \in Prices : handle_place(p)
           \/ Route \/ pump_status \/ forward_status
           \/ \E o \in Oid : EvictTerminated(o)
  BY <1>5 DEF handle_place, Route, pump_status, forward_status, EvictTerminated, brokerVars,
              ibkrVars, feedVars
<1>6. CASE \/ \E p \in Prices : PlaceRefused(p)
           \/ \E o \in Oid : PlaceAckTimeout(o) \/ PublishAck(o)
           \/ \E o \in Oid, p \in Prices : handle_modify(o, p)
  BY <1>6 DEF PlaceRefused, PlaceAckTimeout, PublishAck, handle_modify, brokerVars, feedVars,
              ibkrVars
<1>7. CASE UNCHANGED vars
  BY <1>7 DEF vars, brokerVars, feedVars, ibkrVars
<1> QED
  BY <1>1, <1>2, <1>3, <1>4, <1>5, <1>6, <1>7 DEF Next, Broker

\* The id handle_place uses is fresh, and no ended order comes back.
LEMMA DoneStays ==
    ASSUME TypeInv, DeadInv, [Next]_vars
    PROVE  /\ \A o \in Oid : ibkr[o] = "done" => ibkr'[o] = "done"
           /\ \A o \in Oid : ibkr'[o] = "live" => ibkr[o] = "live" \/ o = next_id
           /\ FreshIds'
<1>0. ibkr \in [Oid -> {"none", "live", "done"}] /\ next_id \in Nat
  BY FlowAssumption DEF TypeInv, TypeOK
<1>1. CASE UNCHANGED <<ibkr, next_id>>
  BY <1>1 DEF DeadInv, FreshIds
<1>2. ASSUME NEW p \in Prices, handle_place(p)
      PROVE  /\ \A o \in Oid : ibkr[o] = "done" => ibkr'[o] = "done"
             /\ \A o \in Oid : ibkr'[o] = "live" => ibkr[o] = "live" \/ o = next_id
             /\ FreshIds'
  <2>1. /\ next_id \in Oid /\ next_id' = next_id + 1
        /\ ibkr' = [ibkr EXCEPT ![next_id] = "live"]
    BY <1>2 DEF handle_place
  <2>2. ibkr[next_id] = "none"
    BY <1>0, <2>1 DEF DeadInv, FreshIds
  <2>3. FreshIds'
    BY <1>0, <2>1 DEF DeadInv, FreshIds, Oid
  <2> QED
    BY <1>0, <2>1, <2>2, <2>3
<1>3. CASE \E o \in Oid : /\ ibkr[o] = "live" /\ ibkr' = [ibkr EXCEPT ![o] = "done"]
                          /\ UNCHANGED next_id
  BY <1>0, <1>3 DEF DeadInv, FreshIds
<1> QED
  BY <1>1, <1>2, <1>3, OrderSteps

\* The elements of the queues.
LEMMA SeqAt ==
    ASSUME NEW S, NEW s \in Seq(S), NEW i \in DOMAIN s PROVE s[i] \in S
  BY ElementOfSeq, LenProperties

LEMMA QueueAt ==
    ASSUME TypeInv
    PROVE  /\ \A i \in DOMAIN wire : wire[i] \in Wire /\ wire[i].oid \in Oid
           /\ \A i \in DOMAIN events : events[i] \in Event /\ events[i].oid \in Oid
           /\ \A i \in DOMAIN pumping : pumping[i] \in Oid
           /\ \A i \in DOMAIN forwarding : forwarding[i] \in Oid
<1>0. /\ wire \in Seq(Wire) /\ events \in Seq(Event)
      /\ pumping \in Seq(Oid) /\ forwarding \in Seq(Oid)
  BY TypeParts DEF FeedTypes, EventTypes
<1>1. ASSUME NEW i \in DOMAIN wire PROVE wire[i] \in Wire /\ wire[i].oid \in Oid
  <2>1. wire[i] \in Wire
    BY <1>0, SeqAt
  <2> QED
    BY <2>1 DEF Wire
<1>2. ASSUME NEW i \in DOMAIN events PROVE events[i] \in Event /\ events[i].oid \in Oid
  <2>1. events[i] \in Event
    BY <1>0, SeqAt
  <2> QED
    BY <2>1 DEF Event
<1>3. ASSUME NEW i \in DOMAIN pumping PROVE pumping[i] \in Oid
  BY <1>0, SeqAt
<1>4. ASSUME NEW i \in DOMAIN forwarding PROVE forwarding[i] \in Oid
  BY <1>0, SeqAt
<1> QED
  BY <1>1, <1>2, <1>3, <1>4

LEMMA WireDeadInductive == TypeInv /\ DeadInv /\ [Next]_vars => WireDead'
<1> SUFFICES ASSUME TypeInv, DeadInv, [Next]_vars PROVE WireDead'
  OBVIOUS
<1>0. /\ wire \in Seq(Wire) /\ ibkr \in [Oid -> {"none", "live", "done"}]
      /\ \A i \in DOMAIN wire : wire[i] \in Wire /\ wire[i].oid \in Oid
  BY TypeParts, QueueAt DEF FeedTypes
<1>1. \A i \in DOMAIN wire : wire[i].kind = "end" => ibkr'[wire[i].oid] = "done"
  BY <1>0, DoneStays DEF DeadInv, WireDead
<1>2. CASE UNCHANGED wire
  BY <1>1, <1>2 DEF WireDead
<1>3. CASE Route
  <2>1. wire # <<>> /\ wire' = Tail(wire)
    BY <1>3 DEF Route
  <2>2. \A i \in DOMAIN wire' : i + 1 \in DOMAIN wire /\ wire'[i] = wire[i + 1]
    BY <1>0, <2>1, TailAt
  <2> QED
    BY <1>1, <2>2 DEF WireDead
<1>4. ASSUME NEW o \in Oid, ibkr' = [ibkr EXCEPT ![o] = "done"],
             wire' = Append(wire, [kind |-> "end", oid |-> o])
      PROVE  WireDead'
  <2> DEFINE e == [kind |-> "end", oid |-> o]
  <2>1. e \in Wire /\ e.oid = o
    BY DEF Wire
  <2>2. wire' = Append(wire, e)
    BY <1>4
  <2> HIDE DEF e
  <2>3. \A i \in DOMAIN wire' : (i \in DOMAIN wire /\ wire'[i] = wire[i]) \/ wire'[i] = e
    BY <1>0, <2>1, <2>2, AppendAt
  <2> QED
    BY <1>0, <1>1, <1>4, <2>1, <2>3 DEF WireDead
<1>5. ASSUME NEW p \in Prices, handle_place(p) PROVE WireDead'
  <2> DEFINE a == [kind |-> "accept", oid |-> next_id]
             e == [kind |-> "open", oid |-> next_id]
  <2>1. a \in Wire /\ e \in Wire /\ e.kind # "end" /\ a.kind # "end"
    BY <1>5 DEF Wire, handle_place
  <2>2. wire' = Append(wire, e) \/ wire' = wire \o <<a, e>>
    BY <1>5 DEF handle_place
  <2> HIDE DEF a, e
  <2>3. CASE wire' = Append(wire, e)
    <3>1. \A i \in DOMAIN wire' : (i \in DOMAIN wire /\ wire'[i] = wire[i]) \/ wire'[i] = e
      BY <1>0, <2>1, <2>3, AppendAt
    <3> QED
      BY <1>1, <2>1, <3>1 DEF WireDead
  <2>4. CASE wire' = wire \o <<a, e>>
    <3>1. \A i \in DOMAIN wire' : \/ i \in DOMAIN wire /\ wire'[i] = wire[i]
                                  \/ wire'[i] = e \/ wire'[i] = a
      <4>1. <<a, e>> \in Seq(Wire) /\ Len(<<a, e>>) = 2
        BY <2>1
      <4>2. /\ wire' \in Seq(Wire) /\ Len(wire') = Len(wire) + 2
            /\ \A i \in 1 .. Len(wire) + 2 :
                  wire'[i] = IF i <= Len(wire) THEN wire[i] ELSE <<a, e>>[i - Len(wire)]
        BY <1>0, <2>4, <4>1, ConcatProperties
      <4>3. DOMAIN wire' = 1 .. Len(wire) + 2 /\ DOMAIN wire = 1 .. Len(wire) /\ Len(wire) \in Nat
        BY <1>0, <4>2, LenProperties
      <4>4. <<a, e>>[1] = a /\ <<a, e>>[2] = e
        OBVIOUS
      <4>5. ASSUME NEW i \in DOMAIN wire', i \notin DOMAIN wire
            PROVE  wire'[i] = e \/ wire'[i] = a
        <5>1. i - Len(wire) \in 1 .. 2 /\ ~(i <= Len(wire))
          BY <4>3, <4>5
        <5>2. wire'[i] = <<a, e>>[i - Len(wire)]
          BY <4>2, <4>3, <5>1
        <5> QED
          BY <4>4, <5>1, <5>2
      <4>6. \A i \in DOMAIN wire : i <= Len(wire)
        BY <4>3
      <4> QED
        BY <4>2, <4>3, <4>5, <4>6
    <3> QED
      BY <1>1, <2>1, <3>1 DEF WireDead
  <2> QED
    BY <2>2, <2>3, <2>4
<1> QED
  BY <1>2, <1>3, <1>4, <1>5, OrderSteps

LEMMA QueuesDeadInductive ==
    TypeInv /\ DeadInv /\ [Next]_vars => PumpDead' /\ ForwardDead' /\ TerminatedDead'
<1> SUFFICES ASSUME TypeInv, DeadInv, [Next]_vars
             PROVE  PumpDead' /\ ForwardDead' /\ TerminatedDead'
  OBVIOUS
<1>0. /\ wire \in Seq(Wire) /\ pumping \in Seq(Oid) /\ forwarding \in Seq(Oid)
      /\ recently_terminated \subseteq Oid
  BY TypeParts DEF FeedTypes
<1>1. /\ \A i \in DOMAIN pumping : ibkr'[pumping[i]] = "done"
      /\ \A i \in DOMAIN forwarding : ibkr'[forwarding[i]] = "done"
      /\ \A o \in recently_terminated : ibkr'[o] = "done"
  BY <1>0, QueueAt, DoneStays DEF DeadInv, PumpDead, ForwardDead, TerminatedDead
<1>2. ASSUME Route PROVE PumpDead' /\ ForwardDead'
  <2>1. CASE UNCHANGED <<pumping, forwarding>>
    BY <1>1, <2>1 DEF PumpDead, ForwardDead
  <2>2. CASE /\ Head(wire).kind = "end"
             /\ pumping' = Append(pumping, Head(wire).oid)
             /\ forwarding' = Append(forwarding, Head(wire).oid)
    <3>1. wire # <<>>
      BY <1>2 DEF Route
    <3>2. 1 \in DOMAIN wire /\ Head(wire) = wire[1]
      BY <1>0, <3>1, TailAt
    <3> DEFINE d == Head(wire).oid
    <3>3. d \in Oid /\ ibkr[d] = "done"
      BY <2>2, <3>2, QueueAt DEF DeadInv, WireDead
    <3>4. pumping' = Append(pumping, d) /\ forwarding' = Append(forwarding, d)
      BY <2>2
    <3> HIDE DEF d
    <3>5. \A i \in DOMAIN pumping' : (i \in DOMAIN pumping /\ pumping'[i] = pumping[i]) \/ pumping'[i] = d
      BY <1>0, <3>3, <3>4, AppendAt
    <3>6. \A i \in DOMAIN forwarding' : \/ i \in DOMAIN forwarding /\ forwarding'[i] = forwarding[i]
                                        \/ forwarding'[i] = d
      BY <1>0, <3>3, <3>4, AppendAt
    <3>7. ibkr'[d] = "done"
      BY <3>3, DoneStays
    <3> QED
      BY <1>1, <3>5, <3>6, <3>7 DEF PumpDead, ForwardDead
  <2> QED
    BY <1>2, <2>1, <2>2 DEF Route
<1>3. ASSUME pump_status PROVE PumpDead' /\ TerminatedDead'
  <2>1. /\ pumping # <<>> /\ pumping' = Tail(pumping)
        /\ recently_terminated' = recently_terminated \union {Head(pumping)}
    BY <1>3 DEF pump_status
  <2>2. /\ 1 \in DOMAIN pumping /\ Head(pumping) = pumping[1]
        /\ \A i \in DOMAIN pumping' : i + 1 \in DOMAIN pumping /\ pumping'[i] = pumping[i + 1]
    BY <1>0, <2>1, TailAt
  <2> QED
    BY <1>1, <2>1, <2>2 DEF PumpDead, TerminatedDead
<1>4. ASSUME forward_status PROVE ForwardDead'
  <2>1. forwarding # <<>> /\ forwarding' = Tail(forwarding)
    BY <1>4 DEF forward_status
  <2>2. \A i \in DOMAIN forwarding' : i + 1 \in DOMAIN forwarding /\ forwarding'[i] = forwarding[i + 1]
    BY <1>0, <2>1, TailAt
  <2> QED
    BY <1>1, <2>1, <2>2 DEF ForwardDead
<1>5. ASSUME NEW o \in Oid, EvictTerminated(o) PROVE TerminatedDead'
  BY <1>1, <1>5 DEF EvictTerminated, TerminatedDead
<1>6. UNCHANGED pumping => PumpDead'
  BY <1>1 DEF PumpDead
<1>7. UNCHANGED forwarding => ForwardDead'
  BY <1>1 DEF ForwardDead
<1>8. UNCHANGED recently_terminated => TerminatedDead'
  BY <1>1 DEF TerminatedDead
<1> QED
  BY <1>2, <1>3, <1>4, <1>5, <1>6, <1>7, <1>8, OrderSteps

LEMMA StatusDeadInductive == TypeInv /\ DeadInv /\ [Next]_vars => StatusDead'
<1> SUFFICES ASSUME TypeInv, DeadInv, [Next]_vars PROVE StatusDead'
  OBVIOUS
<1>0. events \in Seq(Event) /\ forwarding \in Seq(Oid)
  BY TypeParts DEF FeedTypes, EventTypes
<1>1. \A i \in DOMAIN events : events[i].kind = "order_status" => ibkr'[events[i].oid] = "done"
  BY QueueAt, DoneStays DEF DeadInv, StatusDead
<1>2. CASE UNCHANGED events
  BY <1>1, <1>2 DEF StatusDead
<1>3. CASE ReadAck \/ ReadStatus
  <2>1. events # <<>> /\ events' = Tail(events)
    BY <1>3 DEF ReadAck, ReadStatus
  <2>2. \A i \in DOMAIN events' : i + 1 \in DOMAIN events /\ events'[i] = events[i + 1]
    BY <1>0, <2>1, TailAt
  <2> QED
    BY <1>1, <2>2 DEF StatusDead
<1>4. ASSUME forward_status, events' # events PROVE StatusDead'
  <2> DEFINE d == Head(forwarding)
             e == Status(d)
  <2>1. forwarding # <<>> /\ events' = Append(events, e)
    BY <1>4 DEF forward_status
  <2>2. 1 \in DOMAIN forwarding /\ d = forwarding[1]
    BY <1>0, <2>1, TailAt
  <2>3. d \in Oid /\ ibkr'[d] = "done"
    BY <2>2, QueueAt, DoneStays DEF DeadInv, ForwardDead
  <2>4. e \in Event /\ e.oid = d
    BY <2>3 DEF Status, Event
  <2> HIDE DEF e, d
  <2>5. \A i \in DOMAIN events' : (i \in DOMAIN events /\ events'[i] = events[i]) \/ events'[i] = e
    BY <1>0, <2>1, <2>4, AppendAt
  <2> QED
    BY <1>1, <2>3, <2>4, <2>5 DEF StatusDead
<1>5. ASSUME NEW o \in Oid, PublishAck(o), events' # events PROVE StatusDead'
  <2> DEFINE e == Ack(o, limit[o])
  <2>1. events' = Append(events, e)
    BY <1>5 DEF PublishAck
  <2>2. e \in Event /\ e.kind = "place_ack"
    <3>1. limit[o] \in Prices \union {0}
      BY DEF TypeInv, TypeOK
    <3> QED
      BY <3>1 DEF Ack, Event
  <2> HIDE DEF e
  <2>3. \A i \in DOMAIN events' : (i \in DOMAIN events /\ events'[i] = events[i]) \/ events'[i] = e
    BY <1>0, <2>1, <2>2, AppendAt
  <2> QED
    BY <1>1, <2>2, <2>3 DEF StatusDead
<1> QED
  BY <1>2, <1>3, <1>4, <1>5, OrderSteps

LEMMA DeadInvHolds == Spec => []DeadInv
<1>1. Init => DeadInv
  BY DEF Init, DeadInv, WireDead, PumpDead, ForwardDead, StatusDead, TerminatedDead, FreshIds
<1>2. TypeInv /\ DeadInv /\ [Next]_vars => DeadInv'
  BY WireDeadInductive, QueuesDeadInductive, StatusDeadInductive, DoneStays DEF DeadInv
<1> QED
  BY <1>1, <1>2, TypeInvHolds, PTL DEF Spec

-----------------------------------------------------------------------------
(* One quote at the key.  A place is on its way in three stages: written,  *)
(* waited for at the broker, acked to the trader.                          *)

PlaceOut(p) == cmds[Place(p)] > 0
Waits(o) == pend[o] \in {"waiting", "acked"}
AckAt(i) == events[i].kind = "place_ack"
HotPlacing == hot.pc # "idle" /\ hot.cmd.kind = "place"
Free == our = <<>> \/ (Unacked /\ our[1].late)

\* One place is on its way, in one of its stages.
StageInv ==
    /\ \A p \in Prices : cmds[Place(p)] <= 1
    /\ \A p, q \in Prices : PlaceOut(p) /\ PlaceOut(q) => p = q
    /\ \A p \in Prices, o \in Oid : ~(PlaceOut(p) /\ Waits(o))
    /\ \A p \in Prices : \A i \in DOMAIN events : ~(PlaceOut(p) /\ AckAt(i))
    /\ \A o, q \in Oid : Waits(o) /\ Waits(q) => o = q
    /\ \A o \in Oid : \A i \in DOMAIN events : ~(Waits(o) /\ AckAt(i))
    /\ \A i, j \in DOMAIN events : AckAt(i) /\ AckAt(j) => i = j

\* When the trader has an acked order, or is free to place, nothing is on its
\* way, but for the place it is writing down itself.
FreeInv ==
    /\ Acked => ~AckOnItsWay
    /\ Free => ~AckOnItsWay \/ (hot.pc = "track" /\ hot.ok /\ hot.cmd.kind = "place")
    /\ HotPlacing => ~Acked
    /\ HotPlacing /\ hot.pc = "write" => ~AckOnItsWay
    /\ hot.pc = "write" => ~hot.ok

\* An order the trader knows of, or will be told of.
Known(o) ==
    \/ Waits(o)
    \/ \E i \in DOMAIN events : AckAt(i) /\ events[i].oid = o
    \/ Acked /\ our[1].order_id = o

\* Every live order is known, the reverse index holds the entry's order only,
\* and the staleness thread amends.
KnownInv ==
    /\ \A o \in Quoting : Known(o)
    /\ \A o \in map : Acked /\ our[1].order_id = o
    /\ stale.pc # "idle" => stale.cmd.kind = "modify"

QuoteInv == StageInv /\ FreeInv /\ KnownInv

LEMMA OnItsWay ==
    ASSUME TypeInv
    PROVE  AckOnItsWay <=> \/ \E p \in Prices : PlaceOut(p)
                           \/ \E o \in Oid : Waits(o)
                           \/ \E i \in DOMAIN events : AckAt(i)
<1>1. DOMAIN events = 1 .. Len(events)
  BY TypeParts, LenProperties DEF EventTypes
<1> QED
  BY <1>1 DEF AckOnItsWay, PlaceOut, Waits, AckAt

LEMMA OnItsWayNext ==
    ASSUME TypeInv'
    PROVE  AckOnItsWay' <=> \/ \E p \in Prices : PlaceOut(p)'
                            \/ \E o \in Oid : Waits(o)'
                            \/ \E i \in DOMAIN events' : AckAt(i)'
<1>1. DOMAIN events' = 1 .. Len(events')
  BY TypePartsNext, LenProperties DEF EventTypes
<1> QED
  BY <1>1 DEF AckOnItsWay, PlaceOut, Waits, AckAt

\* Nothing of the three stages was added, by index and by order.
NothingAdded ==
    /\ \A p \in Prices : cmds'[Place(p)] <= cmds[Place(p)]
    /\ \A o \in Oid : Waits(o)' => Waits(o)
    /\ \A i \in DOMAIN events' : AckAt(i)' => i \in DOMAIN events /\ AckAt(i)

LEMMA CmdCounts ==
    ASSUME TypeInv
    PROVE  /\ \A p \in Prices : cmds[Place(p)] \in Nat
           /\ \A o \in Oid : cmds[Cancel(o)] \in Nat
  BY CmdFields DEF TypeInv, TypeOK

LEMMA CmdCountsNext ==
    ASSUME TypeInv'
    PROVE  /\ \A p \in Prices : cmds'[Place(p)] \in Nat
           /\ \A o \in Oid : cmds'[Cancel(o)] \in Nat
  BY CmdFields DEF TypeInv, TypeOK

LEMMA TakeCounts ==
    ASSUME TypeInv, NEW c \in Cmd, Take(c)
    PROVE  /\ cmds[c] > 0 /\ cmds'[c] = cmds[c] - 1
           /\ \A d \in Cmd : cmds'[d] <= cmds[d] /\ (d # c => cmds'[d] = cmds[d])
<1>1. cmds \in [Cmd -> Nat]
  BY TypeParts
<1> QED
  BY <1>1 DEF Take

LEMMA StageFrame ==
    ASSUME TypeInv, TypeInv', StageInv, NothingAdded
    PROVE  StageInv' /\ (AckOnItsWay' => AckOnItsWay)
<1>1. /\ \A p \in Prices : PlaceOut(p)' => PlaceOut(p)
      /\ \A p \in Prices : cmds'[Place(p)] <= 1
  BY CmdCounts, CmdCountsNext DEF NothingAdded, PlaceOut, StageInv
<1>2. StageInv'
  BY <1>1 DEF StageInv, NothingAdded
<1>3. AckOnItsWay' => AckOnItsWay
  BY <1>1, OnItsWay, OnItsWayNext DEF NothingAdded
<1> QED
  BY <1>2, <1>3

\* A step that adds nothing, takes no ack away and leaves the trader alone.
LEMMA QuoteFrame ==
    ASSUME TypeInv, TypeInv', QuoteInv, NothingAdded,
           UNCHANGED <<traderVars, hot>>,
           Quoting' \subseteq Quoting,
           \A o \in Quoting' : Waits(o) => Waits(o)',
           \A i \in DOMAIN events : i \in DOMAIN events' /\ events'[i] = events[i],
           stale'.pc # "idle" => stale'.cmd.kind = "modify"
    PROVE  QuoteInv'
<1>1. StageInv' /\ (AckOnItsWay' => AckOnItsWay)
  BY StageFrame DEF QuoteInv
<1>2. UNCHANGED <<our, map, hot>> /\ (Acked' <=> Acked) /\ (Free' <=> Free)
  BY DEF traderVars, Acked, Free, Unacked
<1>3. FreeInv'
  BY <1>1, <1>2 DEF QuoteInv, FreeInv, HotPlacing
<1>4. ASSUME NEW o \in Quoting' PROVE Known(o)'
  <2>1. o \in Quoting /\ Known(o) /\ (Waits(o) => Waits(o)')
    BY <1>4 DEF QuoteInv, KnownInv
  <2> QED
    BY <1>2, <2>1 DEF Known, AckAt
<1>5. KnownInv'
  BY <1>2, <1>4 DEF QuoteInv, KnownInv
<1> QED
  BY <1>1, <1>3, <1>5 DEF QuoteInv

\* The staleness thread and the broker's steps that do not move a place on.
LEMMA QuoteQuiet ==
    ASSUME TypeInv, TypeInv', DeadInv, QuoteInv, ~Damage,
           \/ \E p \in Prices : ScanModify(p) \/ PlaceRefused(p)
           \/ ScanCancel \/ StaleWrite \/ Route \/ pump_status \/ forward_status
           \/ \E o \in Oid : PlaceAckTimeout(o) \/ handle_cancel(o) \/ EvictTerminated(o)
           \/ \E o \in Oid, p \in Prices : handle_modify(o, p)
           \/ \E o \in Oid : OrderEnds(o)
    PROVE  QuoteInv'
<1>0. /\ cmds \in [Cmd -> Nat] /\ ibkr \in [Oid -> {"none", "live", "done"}]
      /\ stale \in Act /\ events \in Seq(Event) /\ forwarding \in Seq(Oid)
      /\ pend \in [Oid -> {"none", "waiting", "acked", "done"}]
  BY TypeParts DEF EventTypes, OrderTypes, FeedTypes
<1>1. stale.pc # "idle" => stale.cmd.kind = "modify"
  BY DEF QuoteInv, KnownInv
<1>2. ASSUME \A p \in Prices : cmds'[Place(p)] <= cmds[Place(p)], UNCHANGED <<pend, events>>
      PROVE  /\ NothingAdded
             /\ \A o \in Oid : Waits(o) => Waits(o)'
             /\ \A i \in DOMAIN events : i \in DOMAIN events' /\ events'[i] = events[i]
  BY <1>2 DEF NothingAdded, Waits, AckAt
<1>3. ASSUME UNCHANGED cmds
      PROVE  \A p \in Prices : cmds'[Place(p)] <= cmds[Place(p)]
  BY <1>3, CmdCounts
<1>5. Quoting' \subseteq Oid
  BY DEF Quoting
<1>6. UNCHANGED stale => (stale'.pc # "idle" => stale'.cmd.kind = "modify")
  BY <1>1
<1>10. ASSUME NEW p \in Prices, ScanModify(p) PROVE QuoteInv'
  <2>1. stale'.cmd.kind = "modify"
    BY <1>10, ActFields, CmdFields DEF ScanModify
  <2>2. UNCHANGED <<traderVars, hot, cmds, events, pend, ibkr>>
    BY <1>10 DEF ScanModify, brokerVars, ibkrVars
  <2>3. Quoting' \subseteq Quoting
    BY <2>2 DEF Quoting
  <2> QED
    BY <1>2, <1>3, <1>5, <2>1, <2>2, <2>3, QuoteFrame
<1>11. ASSUME NEW p \in Prices, PlaceRefused(p) PROVE QuoteInv'
  <2>1. UNCHANGED <<traderVars, hot, stale, events, pend, ibkr>> /\ Take(Place(p))
    BY <1>11 DEF PlaceRefused, brokerVars, ibkrVars
  <2>2. \A q \in Prices : cmds'[Place(q)] <= cmds[Place(q)]
    BY <2>1, TakeCounts, CmdFields
  <2>3. Quoting' \subseteq Quoting
    BY <2>1 DEF Quoting
  <2> QED
    BY <1>2, <1>5, <1>6, <2>1, <2>2, <2>3, QuoteFrame
<1>12. CASE ScanCancel
  <2>1. stale.pc = "idle" /\ stale'.cmd.kind = "cancel" /\ stale'.pc = "write"
    BY <1>12, ActFields, CmdFields DEF ScanCancel
  <2> QED
    BY <2>1 DEF Damage
<1>13. CASE StaleWrite
  <2>1. UNCHANGED <<traderVars, hot, events, pend, ibkr>>
    BY <1>13 DEF StaleWrite, brokerVars, ibkrVars
  <2>2. stale.pc = "write" /\ stale.cmd.kind = "modify"
    BY <1>1, <1>13 DEF StaleWrite
  <2>3. stale'.pc # "idle" => stale'.cmd.kind = "modify"
    BY <1>0, <1>13, <2>2, ActFields DEF StaleWrite, Act
  <2>4. UNCHANGED cmds \/ Send(stale.cmd)
    BY <1>13 DEF StaleWrite
  <2>5. \A q \in Prices : cmds'[Place(q)] <= cmds[Place(q)]
    <3>1. \A q \in Prices : Place(q) # stale.cmd
      BY <2>2, CmdFields
    <3> QED
      BY <1>0, <2>4, <3>1, CmdFields, SendTake, CmdCounts
  <2>6. Quoting' \subseteq Quoting
    BY <2>1 DEF Quoting
  <2> QED
    BY <1>2, <1>5, <2>1, <2>3, <2>5, <2>6, QuoteFrame
<1>14. CASE Route
  <2>1. UNCHANGED <<traderVars, hot, stale, cmds, events, ibkr>>
    BY <1>14 DEF Route, ibkrVars
  <2>2. \A o \in Oid : Waits(o)' <=> Waits(o)
    BY <1>0, <1>14 DEF Route, Waits
  <2>3. NothingAdded
    BY <1>3, <2>1, <2>2 DEF NothingAdded, AckAt
  <2>4. Quoting' \subseteq Quoting
    BY <2>1 DEF Quoting
  <2> QED
    BY <1>5, <1>6, <2>1, <2>2, <2>3, <2>4, QuoteFrame
<1>15. CASE pump_status \/ \E o \in Oid : EvictTerminated(o)
  <2>1. UNCHANGED <<traderVars, hot, stale, cmds, events, pend, ibkr>>
    BY <1>15 DEF pump_status, EvictTerminated, ibkrVars
  <2>2. Quoting' \subseteq Quoting
    BY <2>1 DEF Quoting
  <2> QED
    BY <1>2, <1>3, <1>5, <1>6, <2>1, <2>2, QuoteFrame
<1>16. CASE forward_status
  <2>1. UNCHANGED <<traderVars, hot, stale, cmds, pend, ibkr>>
    BY <1>16 DEF forward_status, brokerVars, ibkrVars
  <2>2. Quoting' \subseteq Quoting
    BY <2>1 DEF Quoting
  <2>3. CASE UNCHANGED events
    BY <1>2, <1>3, <1>5, <1>6, <2>1, <2>2, <2>3, QuoteFrame
  <2>4. CASE events' # events
    <3> DEFINE d == Head(forwarding)
               e == Status(d)
    <3>1. forwarding # <<>> /\ events' = Append(events, e)
      BY <1>16, <2>4 DEF forward_status
    <3>2. d \in Oid
      BY <1>0, <3>1, TailAt
    <3>3. e \in Event /\ e.kind # "place_ack"
      BY <3>2 DEF Status, Event
    <3> HIDE DEF e, d
    <3>4. /\ \A i \in DOMAIN events' : (i \in DOMAIN events /\ events'[i] = events[i]) \/ events'[i] = e
          /\ \A i \in DOMAIN events : i \in DOMAIN events' /\ events'[i] = events[i]
      BY <1>0, <3>1, <3>3, AppendAt
    <3>5. \A o \in Oid : Waits(o)' <=> Waits(o)
      BY <2>1 DEF Waits
    <3>6. NothingAdded
      BY <1>3, <2>1, <3>3, <3>4, <3>5 DEF NothingAdded, AckAt
    <3> QED
      BY <1>5, <1>6, <2>1, <2>2, <3>4, <3>5, <3>6, QuoteFrame
  <2> QED
    BY <2>3, <2>4
<1>17. ASSUME NEW o \in Oid, PlaceAckTimeout(o) PROVE QuoteInv'
  <2>1. pend[o] = "waiting" /\ pend'[o] = "done" /\ wire' = wire
    BY <1>0, <1>17 DEF PlaceAckTimeout, feedVars
  <2> QED
    BY <2>1 DEF Damage
<1>18. ASSUME NEW o \in Oid, handle_cancel(o) PROVE QuoteInv'
  <2>1. UNCHANGED <<traderVars, hot, stale, events, pend>> /\ Take(Cancel(o))
    BY <1>18 DEF handle_cancel, brokerVars
  <2>2. \A q \in Prices : cmds'[Place(q)] <= cmds[Place(q)]
    BY <2>1, TakeCounts, CmdFields
  <2>3. \A q \in Oid : ibkr'[q] = "live" => ibkr[q] = "live"
    BY <1>0, <1>18 DEF handle_cancel
  <2>4. Quoting' \subseteq Quoting
    BY <2>3 DEF Quoting
  <2> QED
    BY <1>2, <1>5, <1>6, <2>1, <2>2, <2>4, QuoteFrame
<1>19. ASSUME NEW o \in Oid, NEW p \in Prices, handle_modify(o, p) PROVE QuoteInv'
  <2>1. UNCHANGED <<traderVars, hot, stale, events, pend, ibkr>> /\ Take(Modify(o, p))
    BY <1>19 DEF handle_modify, brokerVars
  <2>2. \A q \in Prices : cmds'[Place(q)] <= cmds[Place(q)]
    <3>1. \A q \in Prices : Place(q) # Modify(o, p)
      BY CmdFields
    <3> QED
      BY <1>0, <2>1, <3>1, CmdFields, SendTake, CmdCounts
  <2>3. Quoting' \subseteq Quoting
    BY <2>1 DEF Quoting
  <2> QED
    BY <1>2, <1>5, <1>6, <2>1, <2>2, <2>3, QuoteFrame
<1>20. ASSUME NEW o \in Oid, OrderEnds(o) PROVE QuoteInv'
  <2>1. UNCHANGED <<traderVars, hot, stale, events, pend, cmds>>
    BY <1>20 DEF OrderEnds, brokerVars
  <2>2. \A q \in Oid : ibkr'[q] = "live" => ibkr[q] = "live"
    BY <1>0, <1>20 DEF OrderEnds
  <2>3. Quoting' \subseteq Quoting
    BY <2>1, <2>2 DEF Quoting
  <2> QED
    BY <1>2, <1>3, <1>5, <1>6, <2>1, <2>3, QuoteFrame
<1> QED
  BY <1>10, <1>11, <1>12, <1>13, <1>14, <1>15, <1>16, <1>17, <1>18, <1>19, <1>20

\* What a step of the hot thread leaves alone.
LEMMA HotFrame ==
    ASSUME UNCHANGED <<our, map, stale, cmds, events, pend, ibkr>>
    PROVE  /\ StageInv => StageInv'
           /\ AckOnItsWay' <=> AckOnItsWay
           /\ Quoting' = Quoting /\ (Acked' <=> Acked) /\ (Free' <=> Free)
           /\ \A o \in Oid : Known(o) => Known(o)'
<1>1. StageInv => StageInv'
  BY DEF StageInv, PlaceOut, Waits, AckAt
<1>2. AckOnItsWay' <=> AckOnItsWay
  BY DEF AckOnItsWay
<1>3. Quoting' = Quoting
  BY DEF Quoting
<1>4. (Acked' <=> Acked) /\ (Free' <=> Free)
  BY DEF Acked, Free, Unacked
<1>5. \A o \in Oid : Known(o) => Known(o)'
  BY <1>4 DEF Known, Waits, AckAt
<1> QED
  BY <1>1, <1>2, <1>3, <1>4, <1>5

LEMMA QuoteDecide ==
    ASSUME TypeInv, QuoteInv,
           DecideCancelAll \/ \E p \in Prices : DecidePlace(p) \/ DecideModify(p)
    PROVE  QuoteInv'
<1>1. /\ UNCHANGED <<our, map, stale, cmds, events, pend, ibkr>>
      /\ hot.pc = "idle" /\ hot'.pc = "write" /\ ~hot'.ok
  BY ActFields DEF DecideCancelAll, DecidePlace, DecideModify, traderVars, brokerVars, ibkrVars
<1>2. /\ StageInv' /\ (AckOnItsWay' <=> AckOnItsWay)
      /\ Quoting' = Quoting /\ (Acked' <=> Acked) /\ (Free' <=> Free)
      /\ \A o \in Quoting : Known(o)'
  <2>1. Quoting \subseteq Oid
    BY DEF Quoting
  <2> QED
    BY <1>1, <2>1, HotFrame DEF QuoteInv, KnownInv
<1>3. HotPlacing' => Free
  <2>1. CASE DecideCancelAll
    BY <2>1, ActFields, CmdFields DEF DecideCancelAll, HotPlacing
  <2>2. ASSUME NEW p \in Prices, DecidePlace(p) PROVE Free
    BY <2>2 DEF DecidePlace, Free
  <2>3. ASSUME NEW p \in Prices, DecideModify(p) PROVE ~HotPlacing'
    BY <2>3, ActFields, CmdFields DEF DecideModify, HotPlacing
  <2> QED
    BY <2>1, <2>2, <2>3
<1>4. Free => ~AckOnItsWay /\ ~Acked
  BY <1>1 DEF QuoteInv, FreeInv, Free, Unacked, Acked
<1>5. FreeInv'
  BY <1>1, <1>2, <1>3, <1>4 DEF QuoteInv, FreeInv
<1>6. KnownInv'
  BY <1>1, <1>2, <1>3 DEF QuoteInv, KnownInv
<1> QED
  BY <1>2, <1>5, <1>6 DEF QuoteInv

LEMMA QuoteHotWrite ==
    ASSUME TypeInv, TypeInv', QuoteInv, HotWrite
    PROVE  QuoteInv'
<1>0. hot \in Act /\ cmds \in [Cmd -> Nat]
  BY TypeParts
<1>1. /\ UNCHANGED <<our, map, stale, events, pend, ibkr>>
      /\ hot.pc = "write" /\ hot'.pc = "track" /\ hot'.cmd = hot.cmd /\ ~hot.ok
  BY <1>0 DEF HotWrite, traderVars, brokerVars, ibkrVars, Act, QuoteInv, FreeInv
<1>2. HotPlacing' <=> HotPlacing
  BY <1>1 DEF HotPlacing
<1>3. (Acked' <=> Acked) /\ (Free' <=> Free)
  BY <1>1 DEF Acked, Free, Unacked
<1>4. (Free => ~AckOnItsWay) /\ (Acked => ~AckOnItsWay) /\ (HotPlacing => ~Acked /\ ~AckOnItsWay)
  BY <1>1 DEF QuoteInv, FreeInv
<1>5. CASE UNCHANGED cmds /\ hot'.ok = hot.ok
  <2>1. /\ StageInv' /\ (AckOnItsWay' <=> AckOnItsWay)
        /\ Quoting' = Quoting
        /\ \A o \in Quoting : Known(o)'
    <3>1. Quoting \subseteq Oid
      BY DEF Quoting
    <3> QED
      BY <1>1, <1>5, <3>1, HotFrame DEF QuoteInv, KnownInv
  <2>2. FreeInv'
    BY <1>1, <1>2, <1>3, <1>4, <1>5, <2>1 DEF FreeInv
  <2>3. KnownInv'
    BY <1>1, <1>2, <1>3, <1>5, <2>1 DEF QuoteInv, KnownInv
  <2> QED
    BY <2>1, <2>2, <2>3 DEF QuoteInv
<1>6. ASSUME Send(hot.cmd), hot'.ok = TRUE PROVE QuoteInv'
  <2>0. /\ \A d \in Cmd : cmds'[d] = IF d = hot.cmd THEN cmds[d] + 1 ELSE cmds[d]
        /\ hot.cmd \in Cmd \union {Cancel(NoOid)}
    BY <1>0, <1>6, SendTake DEF Act
  <2>1. \A o \in Oid : Waits(o)' <=> Waits(o)
    BY <1>1 DEF Waits
  <2>2. \A i : AckAt(i)' <=> AckAt(i)
    BY <1>1 DEF AckAt
  <2>3. \A o \in Oid : Known(o) => Known(o)'
    BY <1>1, <1>3, <2>1, <2>2 DEF Known
  <2>4. \A q \in Prices : hot.cmd.kind # "place" => cmds'[Place(q)] = cmds[Place(q)]
    BY <2>0, CmdFields
  <2>5. Quoting' = Quoting /\ Quoting \subseteq Oid
    BY <1>1 DEF Quoting
  <2>8. KnownInv'
    BY <1>1, <1>3, <2>3, <2>5 DEF QuoteInv, KnownInv
  <2>9. StageInv' /\ (AckOnItsWay' => AckOnItsWay \/ HotPlacing)
    <3>1. CASE hot.cmd.kind # "place"
      <4>1. NothingAdded
        BY <1>1, <2>1, <2>2, <2>4, <3>1, CmdCounts DEF NothingAdded
      <4> QED
        BY <4>1, StageFrame DEF QuoteInv
    <3>2. CASE hot.cmd.kind = "place"
      <4>1. HotPlacing /\ hot.cmd.price \in Prices /\ hot.cmd = Place(hot.cmd.price)
        BY <1>1, <2>0, <3>2, CmdKinds DEF HotPlacing
      <4>2. /\ \A q \in Prices : ~PlaceOut(q)
            /\ \A o \in Oid : ~Waits(o)
            /\ \A i \in DOMAIN events : ~AckAt(i)
        BY <1>4, <4>1, OnItsWay
      <4>3. \A q \in Prices : cmds[Place(q)] = 0
        BY <4>2, CmdCounts DEF PlaceOut
      <4>4. \A q \in Prices : /\ cmds'[Place(q)] <= 1
                              /\ cmds'[Place(q)] > 0 => q = hot.cmd.price
        <5>1. \A q \in Prices : q # hot.cmd.price => Place(q) # hot.cmd
          BY CmdFields
        <5> QED
          BY <2>0, <4>1, <4>3, <5>1, CmdFields
      <4>5. StageInv'
        BY <1>1, <2>1, <2>2, <4>2, <4>4 DEF StageInv, PlaceOut
      <4> QED
        BY <4>1, <4>5
    <3> QED
      BY <3>1, <3>2
  <2>10. FreeInv'
    BY <1>1, <1>2, <1>3, <1>4, <1>6, <2>9 DEF FreeInv, HotPlacing
  <2> QED
    BY <2>8, <2>9, <2>10 DEF QuoteInv
<1>7. \/ UNCHANGED cmds /\ hot'.ok = hot.ok
      \/ Send(hot.cmd) /\ hot'.ok = TRUE
  BY <1>0 DEF HotWrite, Act
<1> QED
  BY <1>5, <1>6, <1>7

\* A step that changes the trader's maps only.
LEMMA MapFrame ==
    ASSUME UNCHANGED <<cmds, events, pend, ibkr>>
    PROVE  /\ StageInv => StageInv'
           /\ AckOnItsWay' <=> AckOnItsWay
           /\ Quoting' = Quoting
           /\ \A o \in Oid : (Waits(o)' <=> Waits(o))
           /\ \A i : AckAt(i)' <=> AckAt(i)
<1>1. StageInv => StageInv'
  BY DEF StageInv, PlaceOut, Waits, AckAt
<1>2. AckOnItsWay' <=> AckOnItsWay
  BY DEF AckOnItsWay
<1>3. Quoting' = Quoting /\ \A i : AckAt(i)' <=> AckAt(i)
  BY DEF Quoting, AckAt
<1>4. \A o \in Oid : (Waits(o)' <=> Waits(o))
  BY DEF Waits
<1> QED
  BY <1>1, <1>2, <1>3, <1>4

\* The entry keeps its order: only its price, or whether it is late, changes.
LEMMA QuoteRepriced ==
    ASSUME TypeInv, QuoteInv, UNCHANGED <<map, cmds, events, pend, ibkr>>,
           Acked' <=> Acked, Acked => our'[1].order_id = our[1].order_id,
           Free' => ~AckOnItsWay \/ (hot'.pc = "track" /\ hot'.ok /\ hot'.cmd.kind = "place"),
           UNCHANGED hot \/ hot'.pc = "idle",
           UNCHANGED stale \/ stale'.pc = "idle"
    PROVE  QuoteInv'
<1>1. /\ StageInv' /\ (AckOnItsWay' <=> AckOnItsWay) /\ Quoting' = Quoting
      /\ \A o \in Oid : (Waits(o)' <=> Waits(o))
      /\ \A i : AckAt(i)' <=> AckAt(i)
  BY MapFrame DEF QuoteInv
<1>2. FreeInv'
  BY <1>1 DEF QuoteInv, FreeInv, HotPlacing
<1>3. ASSUME NEW o \in Quoting PROVE Known(o)'
  <2>1. Known(o) /\ o \in Oid
    BY DEF QuoteInv, KnownInv, Quoting
  <2> QED
    BY <1>1, <2>1 DEF Known
<1>4. KnownInv'
  BY <1>1, <1>3 DEF QuoteInv, KnownInv
<1> QED
  BY <1>1, <1>2, <1>4 DEF QuoteInv

LEMMA QuoteReprice ==
    ASSUME TypeInv, QuoteInv, ~Damage, StaleApply \/ UnackExpires
    PROVE  QuoteInv'
<1>0. our = <<>> \/ (our # <<>> /\ our[1] \in EntryType /\ our = <<our[1]>>)
  BY OurCases DEF TypeInv
<1>1. CASE StaleApply
  <2>1. stale.cmd.kind = "modify"
    BY <1>1 DEF StaleApply, QuoteInv, KnownInv
  <2>2. /\ UNCHANGED <<map, hot, cmds, events, pend, ibkr>> /\ stale'.pc = "idle"
        /\ our' = IF our = <<>> THEN our ELSE <<Entry(stale.cmd.price, our[1].order_id)>>
    BY <1>1, <2>1, ActFields DEF StaleApply, brokerVars, ibkrVars
  <2>3. /\ Acked' <=> Acked
        /\ Acked => our'[1].order_id = our[1].order_id
        /\ Free' => Free
    BY <2>2, EntryFields DEF Acked, Free, Unacked
  <2>4. Free' => ~AckOnItsWay \/ (hot'.pc = "track" /\ hot'.ok /\ hot'.cmd.kind = "place")
    BY <2>2, <2>3 DEF QuoteInv, FreeInv
  <2> QED
    BY <2>2, <2>3, <2>4, QuoteRepriced
<1>2. CASE UnackExpires
  <2>1. ~AckOnItsWay
    BY <1>2 DEF Damage
  <2>2. UNCHANGED <<map, hot, stale, cmds, events, pend, ibkr>>
    BY <1>2 DEF UnackExpires, brokerVars, ibkrVars
  <2>3. our # <<>> /\ our[1] \in EntryType /\ our' = <<[our[1] EXCEPT !.late = TRUE]>> /\ Unacked
    BY <1>0, <1>2 DEF UnackExpires, Unacked
  <2>4. our' # <<>> /\ our'[1].order_id = our[1].order_id
    BY <2>3 DEF EntryType
  <2>5. (Acked' <=> Acked) /\ ~Acked
    BY <2>3, <2>4 DEF Acked, Unacked
  <2> QED
    BY <2>1, <2>2, <2>5, QuoteRepriced
<1> QED
  BY <1>1, <1>2

LEMMA QuoteHotTrack ==
    ASSUME TypeInv, QuoteInv, HotTrack, ~Damage
    PROVE  QuoteInv'
<1>0. /\ our = <<>> \/ (our # <<>> /\ our[1] \in EntryType /\ our = <<our[1]>>)
      /\ hot \in Act
  BY OurCases DEF TypeInv, TypeOK
<1>1. /\ UNCHANGED <<stale, cmds, events, pend, ibkr>>
      /\ hot.pc = "track" /\ hot'.pc = "idle"
  BY ActFields DEF HotTrack, brokerVars, ibkrVars
<1>2. /\ StageInv' /\ (AckOnItsWay' <=> AckOnItsWay) /\ Quoting' = Quoting
      /\ \A o \in Oid : (Waits(o)' <=> Waits(o))
      /\ \A i : AckAt(i)' <=> AckAt(i)
  BY <1>1, MapFrame DEF QuoteInv
<1>3. CASE ~hot.ok /\ UNCHANGED traderVars
  <2>1. UNCHANGED <<our, map>> /\ (Acked' <=> Acked) /\ (Free' <=> Free)
    BY <1>3 DEF traderVars, Acked, Free, Unacked
  <2>2. Free => ~AckOnItsWay
    BY <1>3 DEF QuoteInv, FreeInv
  <2> QED
    BY <1>1, <2>1, <2>2, QuoteRepriced
<1>4. CASE /\ hot.ok /\ hot.cmd.kind = "place" /\ UNCHANGED map
           /\ our' = <<Entry(hot.cmd.price, NoOid)>>
  <2>1. ~Acked' /\ ~Free'
    BY <1>4, EntryFields DEF Acked, Free, Unacked
  <2>2. ~Acked
    BY <1>1, <1>4 DEF QuoteInv, FreeInv, HotPlacing
  <2> QED
    BY <1>1, <1>4, <2>1, <2>2, QuoteRepriced
<1>5. CASE /\ hot.ok /\ hot.cmd.kind = "modify" /\ UNCHANGED map
           /\ our' = IF our = <<>> THEN our ELSE <<Entry(hot.cmd.price, our[1].order_id)>>
  <2>1. /\ Acked' <=> Acked
        /\ Acked => our'[1].order_id = our[1].order_id
        /\ Free' => Free
    BY <1>5, EntryFields DEF Acked, Free, Unacked
  <2>2. Free => ~AckOnItsWay
    BY <1>5 DEF QuoteInv, FreeInv
  <2> QED
    BY <1>1, <1>5, <2>1, <2>2, QuoteRepriced
<1>6. CASE /\ hot.ok /\ hot.cmd.kind = "cancel" /\ map' = map \ {hot.cmd.oid}
           /\ our' = IF hot.cmd.oid \in map THEN <<>> ELSE our
  <2>1. hot' = Quiet
    BY DEF HotTrack
  <2> QED
    BY <1>1, <1>6, <2>1 DEF Damage
<1> QED
  BY <1>3, <1>4, <1>5, <1>6 DEF HotTrack

LEMMA QuoteReadAck ==
    ASSUME TypeInv, TypeInv', QuoteInv, ReadAck
    PROVE  QuoteInv'
<1>0. events \in Seq(Event)
  BY TypeParts DEF EventTypes
<1>1. /\ UNCHANGED <<hot, stale, cmds, pend, ibkr>> /\ hot.pc = "idle"
      /\ events # <<>> /\ events' = Tail(events)
      /\ Head(events).kind = "place_ack" /\ map' = map \union {Head(events).oid}
      /\ \E q : our' = <<Entry(q, Head(events).oid)>>
  BY ActFields DEF ReadAck, brokerVars, ibkrVars
<1>2. /\ 1 \in DOMAIN events /\ Head(events) = events[1]
      /\ \A i \in DOMAIN events' : /\ i \in Nat /\ i + 1 \in DOMAIN events
                                   /\ events'[i] = events[i + 1]
  BY <1>0, <1>1, TailAt
<1> DEFINE d == events[1].oid
<1>3. /\ AckAt(1) /\ d \in Oid /\ d # NoOid /\ map' = map \union {d}
      /\ our' # <<>> /\ our'[1].order_id = d
  BY <1>1, <1>2, QueueAt, EntryFields DEF AckAt, Oid, NoOid
<1>4. AckOnItsWay /\ ~Acked
  BY <1>2, <1>3, OnItsWay DEF QuoteInv, FreeInv
<1>5. map = {}
  BY <1>4 DEF QuoteInv, KnownInv
<1>6. /\ \A p \in Prices : ~PlaceOut(p)
      /\ \A o \in Oid : ~Waits(o)
      /\ \A i \in DOMAIN events : AckAt(i) => i = 1
  BY <1>2, <1>3 DEF QuoteInv, StageInv
<1>7. \A i \in DOMAIN events' : ~AckAt(i)'
  <2>1. SUFFICES ASSUME NEW i \in DOMAIN events', AckAt(i)' PROVE FALSE
    OBVIOUS
  <2>2. i \in Nat /\ i + 1 \in DOMAIN events /\ AckAt(i + 1)
    BY <1>2, <2>1 DEF AckAt
  <2>3. i + 1 = 1
    BY <1>6, <2>2
  <2>4. i \in 1 .. Len(events')
    BY <1>0, <1>1, <2>1, HeadTailProperties, LenProperties
  <2> QED
    BY <2>2, <2>3, <2>4
<1>8. StageInv' /\ ~AckOnItsWay'
  <2>1. /\ \A p \in Prices : ~PlaceOut(p)' /\ cmds'[Place(p)] <= 1
        /\ \A o \in Oid : ~Waits(o)'
    BY <1>1, <1>6 DEF PlaceOut, Waits, QuoteInv, StageInv
  <2> QED
    BY <1>7, <2>1, OnItsWayNext DEF StageInv
<1>9. Acked' /\ our'[1].order_id = d
  BY <1>3 DEF Acked
<1>10. FreeInv'
  BY <1>1, <1>8 DEF FreeInv, HotPlacing
<1>11. ASSUME NEW o \in Quoting' PROVE o = d
  <2>1. o \in Quoting
    BY <1>1 DEF Quoting
  <2>2. Known(o) /\ o \in Oid
    BY <2>1 DEF QuoteInv, KnownInv, Quoting
  <2> QED
    BY <1>4, <1>6, <2>2 DEF Known
<1>12. KnownInv'
  BY <1>1, <1>3, <1>5, <1>9, <1>11 DEF QuoteInv, KnownInv, Known
<1> QED
  BY <1>8, <1>10, <1>12 DEF QuoteInv

LEMMA QuoteReadStatus ==
    ASSUME TypeInv, TypeInv', DeadInv, QuoteInv, ReadStatus
    PROVE  QuoteInv'
<1>0. events \in Seq(Event)
  BY TypeParts DEF EventTypes
<1>1. /\ UNCHANGED <<hot, stale, cmds, pend, ibkr>> /\ hot.pc = "idle"
      /\ events # <<>> /\ events' = Tail(events)
      /\ Head(events).kind = "order_status" /\ map' = map \ {Head(events).oid}
      /\ our' = IF Head(events).oid \in map THEN <<>> ELSE our
  BY ActFields DEF ReadStatus, brokerVars, ibkrVars
<1>2. /\ 1 \in DOMAIN events /\ Head(events) = events[1]
      /\ \A i \in DOMAIN events' : /\ i \in Nat /\ i + 1 \in DOMAIN events
                                   /\ events'[i] = events[i + 1]
      /\ \A i \in DOMAIN events : i # 1 => i - 1 \in DOMAIN events'
  BY <1>0, <1>1, TailAt
<1> DEFINE d == events[1].oid
<1>3. /\ d \in Oid /\ ibkr[d] = "done" /\ map' = map \ {d} /\ ~AckAt(1)
      /\ our' = IF d \in map THEN <<>> ELSE our
  BY <1>1, <1>2, QueueAt DEF DeadInv, StatusDead, AckAt
<1>4. \A i \in DOMAIN events' : AckAt(i)' => AckAt(i + 1) /\ i + 1 \in DOMAIN events
  BY <1>2 DEF AckAt
<1>5. /\ \A p \in Prices : PlaceOut(p)' <=> PlaceOut(p)
      /\ \A o \in Oid : Waits(o)' <=> Waits(o)
      /\ \A p \in Prices : cmds'[Place(p)] <= 1
      /\ Quoting' = Quoting /\ d \notin Quoting
  BY <1>1, <1>3 DEF PlaceOut, Waits, QuoteInv, StageInv, Quoting
<1>6. StageInv'
  <2>1. \A i, j \in DOMAIN events' : AckAt(i)' /\ AckAt(j)' => i = j
    <3>1. SUFFICES ASSUME NEW i \in DOMAIN events', NEW j \in DOMAIN events', AckAt(i)', AckAt(j)'
                   PROVE  i = j
      OBVIOUS
    <3>2. i + 1 = j + 1
      BY <1>4, <3>1 DEF QuoteInv, StageInv
    <3> QED
      BY <1>2, <3>2
  <2>2. /\ \A p \in Prices : \A i \in DOMAIN events' : ~(PlaceOut(p)' /\ AckAt(i)')
        /\ \A o \in Oid : \A i \in DOMAIN events' : ~(Waits(o)' /\ AckAt(i)')
    BY <1>4, <1>5 DEF QuoteInv, StageInv
  <2>3. /\ \A p, q \in Prices : PlaceOut(p)' /\ PlaceOut(q)' => p = q
        /\ \A p \in Prices, o \in Oid : ~(PlaceOut(p)' /\ Waits(o)')
        /\ \A o, q \in Oid : Waits(o)' /\ Waits(q)' => o = q
    BY <1>5 DEF QuoteInv, StageInv
  <2> QED
    BY <1>5, <2>1, <2>2, <2>3 DEF StageInv
<1>7. AckOnItsWay' => AckOnItsWay
  BY <1>4, <1>5, OnItsWay, OnItsWayNext
<1>8. d \in map => Acked /\ our[1].order_id = d /\ our' = <<>>
  BY <1>3 DEF QuoteInv, KnownInv
<1>9. FreeInv'
  <2>1. CASE d \in map
    <3>1. ~AckOnItsWay' /\ ~Acked'
      BY <1>7, <1>8, <2>1 DEF QuoteInv, FreeInv, Acked
    <3> QED
      BY <1>1, <3>1 DEF FreeInv, HotPlacing
  <2>2. CASE d \notin map
    <3>1. (Acked' <=> Acked) /\ (Free' <=> Free)
      BY <1>3, <2>2 DEF Acked, Free, Unacked
    <3> QED
      BY <1>1, <1>7, <3>1 DEF QuoteInv, FreeInv, HotPlacing
  <2> QED
    BY <2>1, <2>2
<1>10. ASSUME NEW o \in Quoting PROVE Known(o)'
  <2>1. Known(o) /\ o \in Oid /\ o # d
    BY <1>5 DEF QuoteInv, KnownInv, Quoting
  <2>2. CASE Waits(o)
    BY <1>5, <2>1, <2>2 DEF Known
  <2>3. ASSUME NEW i \in DOMAIN events, AckAt(i), events[i].oid = o PROVE Known(o)'
    <3>1. i # 1 /\ i - 1 \in DOMAIN events'
      BY <1>2, <1>3, <2>3
    <3>2. events'[i - 1] = events[i]
      <4>1. i \in Nat
        BY <1>0, LenProperties
      <4>2. (i - 1) + 1 = i
        BY <4>1
      <4> QED
        BY <1>2, <3>1, <4>2
    <3>3. AckAt(i - 1)' /\ events'[i - 1].oid = o
      BY <2>3, <3>2 DEF AckAt
    <3> QED
      BY <3>1, <3>3 DEF Known
  <2>4. CASE Acked /\ our[1].order_id = o
    <3>1. d \notin map
      BY <1>8, <2>1, <2>4
    <3> QED
      BY <1>3, <2>4, <3>1 DEF Known, Acked
  <2> QED
    BY <2>1, <2>2, <2>3, <2>4 DEF Known
<1>11. \A o \in map' : Acked' /\ our'[1].order_id = o
  <2>1. \A o \in map : Acked /\ our[1].order_id = o
    BY DEF QuoteInv, KnownInv
  <2>2. CASE d \in map
    BY <1>3, <2>1, <2>2
  <2>3. CASE d \notin map
    BY <1>3, <2>1, <2>3 DEF Acked
  <2> QED
    BY <2>2, <2>3
<1>12. KnownInv'
  BY <1>1, <1>5, <1>10, <1>11 DEF QuoteInv, KnownInv
<1> QED
  BY <1>6, <1>9, <1>12 DEF QuoteInv

\* The place that was written becomes an order the broker waits for.
LEMMA QuotePlace ==
    ASSUME TypeInv, TypeInv', DeadInv, QuoteInv, NEW p \in Prices, handle_place(p)
    PROVE  QuoteInv'
<1>0. /\ pend \in [Oid -> {"none", "waiting", "acked", "done"}]
      /\ ibkr \in [Oid -> {"none", "live", "done"}]
  BY TypeParts DEF OrderTypes
<1>1. /\ UNCHANGED <<our, map, hot, stale, events>> /\ Take(Place(p)) /\ next_id \in Oid
      /\ pend' = [pend EXCEPT ![next_id] = "waiting"]
      /\ ibkr' = [ibkr EXCEPT ![next_id] = "live"]
  BY DEF handle_place, traderVars
<1>2. /\ PlaceOut(p) /\ cmds'[Place(p)] = cmds[Place(p)] - 1
      /\ \A q \in Prices : cmds'[Place(q)] <= cmds[Place(q)]
  BY <1>1, TakeCounts, CmdFields DEF PlaceOut
<1>3. /\ \A q \in Prices : PlaceOut(q) => q = p
      /\ \A o \in Oid : ~Waits(o)
      /\ \A i \in DOMAIN events : ~AckAt(i)
      /\ AckOnItsWay /\ ~Acked
  BY <1>2, OnItsWay DEF QuoteInv, StageInv, FreeInv
<1>4. \A q \in Prices : ~PlaceOut(q)' /\ cmds'[Place(q)] <= 1
  BY <1>2, <1>3, CmdCounts, CmdCountsNext DEF PlaceOut, QuoteInv, StageInv
<1>5. \A o \in Oid : Waits(o)' <=> o = next_id
  BY <1>0, <1>1, <1>3 DEF Waits
<1>6. \A i \in DOMAIN events' : ~AckAt(i)'
  BY <1>1, <1>3 DEF AckAt
<1>7. StageInv'
  BY <1>4, <1>5, <1>6 DEF StageInv
<1>8. Quoting = {}
  <2>1. ASSUME NEW o \in Quoting PROVE FALSE
    <3>1. Known(o) /\ o \in Oid
      BY DEF QuoteInv, KnownInv, Quoting
    <3> QED
      BY <1>3, <3>1 DEF Known
  <2> QED
    BY <2>1
<1>9. \A o \in Quoting' : Known(o)'
  <2>1. SUFFICES ASSUME NEW o \in Quoting' PROVE o = next_id /\ o \in Oid
    BY <1>5 DEF Known
  <2>2. o \in Oid /\ ibkr'[o] = "live"
    BY DEF Quoting
  <2>3. ibkr[o] # "live"
    BY <1>8, <2>2 DEF Quoting
  <2> QED
    BY <1>0, <1>1, <2>2, <2>3
<1>10. (Acked' <=> Acked) /\ (Free' <=> Free) /\ (HotPlacing' <=> HotPlacing)
  BY <1>1 DEF Acked, Free, Unacked, HotPlacing
<1>11. FreeInv'
  BY <1>1, <1>3, <1>10 DEF QuoteInv, FreeInv
<1>12. KnownInv'
  BY <1>1, <1>3, <1>9, <1>10 DEF QuoteInv, KnownInv
<1> QED
  BY <1>7, <1>11, <1>12 DEF QuoteInv

\* The order the broker waited for becomes the one ack on its way.
LEMMA QuotePublish ==
    ASSUME TypeInv, TypeInv', QuoteInv, ~Damage, NEW d \in Oid, PublishAck(d)
    PROVE  QuoteInv'
<1>0. /\ pend \in [Oid -> {"none", "waiting", "acked", "done"}]
      /\ events \in Seq(Event)
  BY TypeParts DEF OrderTypes, EventTypes
<1>1. /\ UNCHANGED <<our, map, hot, stale, cmds, ibkr>>
      /\ pend[d] = "acked" /\ pend' = [pend EXCEPT ![d] = "done"]
  BY DEF PublishAck, traderVars, ibkrVars
<1> DEFINE e == Ack(d, limit[d])
<1>2. events' = Append(events, e)
  <2>1. pend'[d] = "done"
    BY <1>0, <1>1
  <2>2. events' # events
    BY <1>1, <2>1 DEF Damage
  <2> QED
    BY <2>2 DEF PublishAck
<1>3. e \in Event /\ e.kind = "place_ack" /\ e.oid = d
  <2>1. limit[d] \in Prices \union {0}
    BY DEF TypeInv, TypeOK
  <2> QED
    BY <2>1 DEF Ack, Event
<1> HIDE DEF e
<1>4. PICK n \in DOMAIN events' :
         /\ \A i \in DOMAIN events' : (i \in DOMAIN events /\ events'[i] = events[i]) \/ i = n
         /\ events'[n] = e
  BY <1>0, <1>2, <1>3, AppendAt
<1>5. Waits(d) /\ AckOnItsWay /\ ~Acked
  BY <1>1, OnItsWay DEF Waits, QuoteInv, FreeInv
<1>6. /\ \A p \in Prices : ~PlaceOut(p)
      /\ \A o \in Oid : Waits(o) => o = d
      /\ \A i \in DOMAIN events : ~AckAt(i)
  BY <1>5 DEF QuoteInv, StageInv
<1>7. /\ \A p \in Prices : ~PlaceOut(p)' /\ cmds'[Place(p)] <= 1
      /\ \A o \in Oid : ~Waits(o)'
  BY <1>0, <1>1, <1>6 DEF PlaceOut, Waits, QuoteInv, StageInv
<1>8. \A i \in DOMAIN events' : AckAt(i)' => i = n
  BY <1>4, <1>6 DEF AckAt
<1>9. StageInv'
  BY <1>7, <1>8 DEF StageInv
<1>10. Quoting' = Quoting /\ Quoting \subseteq Oid
  BY <1>1 DEF Quoting
<1>11. \A o \in Quoting' : Known(o)'
  <2>1. SUFFICES ASSUME NEW o \in Quoting' PROVE Known(o)'
    OBVIOUS
  <2>2. Known(o) /\ o \in Oid
    BY <1>10 DEF QuoteInv, KnownInv
  <2>3. o = d
    BY <1>5, <1>6, <2>2 DEF Known
  <2>4. AckAt(n)' /\ events'[n].oid = o
    BY <1>3, <1>4, <2>3 DEF AckAt
  <2> QED
    BY <1>4, <2>4 DEF Known
<1>12. (Acked' <=> Acked) /\ (Free' <=> Free) /\ (HotPlacing' <=> HotPlacing)
  BY <1>1 DEF Acked, Free, Unacked, HotPlacing
<1>13. FreeInv'
  BY <1>1, <1>5, <1>12 DEF QuoteInv, FreeInv
<1>14. KnownInv'
  BY <1>1, <1>5, <1>10, <1>11, <1>12 DEF QuoteInv, KnownInv
<1> QED
  BY <1>9, <1>13, <1>14 DEF QuoteInv

LEMMA QuoteInvInductive ==
    TypeInv /\ TypeInv' /\ DeadInv /\ QuoteInv /\ Next /\ ~Damage => QuoteInv'
<1> SUFFICES ASSUME TypeInv, TypeInv', DeadInv, QuoteInv, Next, ~Damage PROVE QuoteInv'
  OBVIOUS
<1>1. CASE Hot
  BY <1>1, QuoteDecide, QuoteHotWrite, QuoteHotTrack, QuoteReadAck, QuoteReadStatus DEF Hot
<1>2. CASE StaleApply \/ UnackExpires
  BY <1>2, QuoteReprice
<1>3. CASE \E p \in Prices : handle_place(p)
  BY <1>3, QuotePlace
<1>4. CASE \E o \in Oid : PublishAck(o)
  BY <1>4, QuotePublish
<1>5. CASE \/ \E p \in Prices : ScanModify(p) \/ PlaceRefused(p)
           \/ ScanCancel \/ StaleWrite \/ Route \/ pump_status \/ forward_status
           \/ \E o \in Oid : PlaceAckTimeout(o) \/ handle_cancel(o) \/ EvictTerminated(o)
           \/ \E o \in Oid, p \in Prices : handle_modify(o, p)
           \/ \E o \in Oid : OrderEnds(o)
  BY <1>5, QuoteQuiet
<1> QED
  BY <1>1, <1>2, <1>3, <1>4, <1>5 DEF Next, Staleness, Broker

\* What the invariant is for.
LEMMA OneQuote == TypeInv /\ QuoteInv => NoDoubleQuote
<1> SUFFICES ASSUME TypeInv, QuoteInv PROVE NoDoubleQuote
  OBVIOUS
<1>1. \A p \in Prices : cmds[Place(p)] <= 1
  BY DEF QuoteInv, StageInv
<1>2. \A o \in Quoting : Known(o) /\ o \in Oid
  BY DEF QuoteInv, KnownInv, Quoting
<1>3. CASE PlacesInFlight # {}
  <2>1. PICK p \in Prices : PlaceOut(p)
    BY <1>3 DEF PlacesInFlight, PlaceOut
  <2>2. PlacesInFlight = {p}
    BY <2>1 DEF PlacesInFlight, PlaceOut, QuoteInv, StageInv
  <2>3. Quoting = {}
    BY <1>2, <2>1, OnItsWay DEF Known, QuoteInv, StageInv, FreeInv
  <2>4. Cardinality(PlacesInFlight) = 1 /\ Cardinality(Quoting) = 0
    BY <2>2, <2>3, FS_Singleton, FS_EmptySet
  <2> QED
    BY <1>1, <2>4 DEF NoDoubleQuote
<1>4. CASE PlacesInFlight = {} /\ Quoting = {}
  <2>1. Cardinality(PlacesInFlight) = 0 /\ Cardinality(Quoting) = 0
    BY <1>4, FS_EmptySet
  <2> QED
    BY <1>1, <2>1 DEF NoDoubleQuote
<1>5. CASE PlacesInFlight = {} /\ Quoting # {}
  <2>1. PICK q \in Quoting : TRUE
    BY <1>5
  <2>2. ASSUME NEW o \in Quoting PROVE o = q
    BY <1>2, <2>1, OnItsWay DEF Known, QuoteInv, StageInv, FreeInv
  <2>3. Quoting = {q}
    BY <2>1, <2>2
  <2>4. Cardinality(PlacesInFlight) = 0 /\ Cardinality(Quoting) = 1
    BY <1>5, <2>3, FS_Singleton, FS_EmptySet
  <2> QED
    BY <1>1, <2>4 DEF NoDoubleQuote
<1> QED
  BY <1>3, <1>4, <1>5

\* However the threads, the broker's tasks and IBKR interleave, and whatever
\* is refused or dropped on the hot thread's side, at most one quote rests or
\* is on its way at a key until one of the known damages happens: an entry
\* forgotten for a cancel, a dropped frame of the staleness thread, a lost or
\* late place_ack.
THEOREM NoDoubleQuoteYetAlways == ThreadsSpec => []NoDoubleQuoteYet
<1> DEFINE CleanInv == clean => QuoteInv
<1>1. ThreadsInit => CleanInv
  <2> SUFFICES ASSUME Init PROVE QuoteInv
    BY DEF ThreadsInit
  <2>1. /\ our = <<>> /\ map = {} /\ hot.pc = "idle" /\ stale.pc = "idle"
        /\ \A p \in Prices : cmds[Place(p)] = 0
        /\ \A o \in Oid : pend[o] = "none" /\ ibkr[o] = "none"
        /\ DOMAIN events = {}
    BY ActFields, CmdFields DEF Init
  <2>2. StageInv
    BY <2>1 DEF StageInv, PlaceOut, Waits
  <2>3. ~AckOnItsWay
    BY <2>1, InitTypes, OnItsWay DEF PlaceOut, Waits
  <2>4. FreeInv
    BY <2>1, <2>3 DEF FreeInv, HotPlacing, Acked
  <2>5. KnownInv
    BY <2>1 DEF KnownInv, Quoting
  <2> QED
    BY <2>2, <2>4, <2>5 DEF QuoteInv
<1>2. TypeInv /\ TypeInv' /\ DeadInv /\ CleanInv /\ [ThreadsNext]_<<vars, clean>>
        => CleanInv'
  <2> SUFFICES ASSUME TypeInv, TypeInv', DeadInv, CleanInv,
                      [ThreadsNext]_<<vars, clean>>, clean'
               PROVE  QuoteInv'
    OBVIOUS
  <2>1. CASE ThreadsNext
    BY <2>1, QuoteInvInductive DEF ThreadsNext
  <2>2. CASE UNCHANGED <<vars, clean>>
    <3>1. UNCHANGED <<our, map, hot, stale, cmds, events, pend, ibkr>> /\ QuoteInv
      BY <2>2 DEF vars, traderVars, brokerVars, ibkrVars
    <3>2. UNCHANGED <<traderVars, hot>>
      BY <3>1 DEF traderVars
    <3>3. NothingAdded /\ Quoting' = Quoting /\ \A o \in Quoting : Waits(o) => Waits(o)'
      BY <3>1, CmdCounts DEF NothingAdded, Quoting, Waits, AckAt
    <3>4. stale'.pc # "idle" => stale'.cmd.kind = "modify"
      BY <3>1 DEF QuoteInv, KnownInv
    <3> QED
      BY <3>1, <3>2, <3>3, <3>4, QuoteFrame
  <2> QED
    BY <2>1, <2>2
<1>3. ThreadsSpec => Spec
  <2>1. ThreadsInit => Init
    BY DEF ThreadsInit
  <2>2. [ThreadsNext]_<<vars, clean>> => [Next]_vars
    BY DEF ThreadsNext
  <2> QED
    BY <2>1, <2>2, PTL DEF ThreadsSpec, Spec
<1>4. TypeInv /\ CleanInv => NoDoubleQuoteYet
  BY OneQuote DEF NoDoubleQuoteYet
<1> HIDE DEF CleanInv
<1> QED
  BY <1>1, <1>2, <1>3, <1>4, TypeInvHolds, DeadInvHolds, PTL DEF ThreadsSpec
=============================================================================
