-------------------------- MODULE KillSwitchProofs --------------------------
(***************************************************************************)
(* Proofs about the kill switch, for every number of orders, ring slots,   *)
(* crashes, link drops and days.                                           *)
(***************************************************************************)
EXTENDS KillSwitch, TLAPS, SequenceTheorems

-----------------------------------------------------------------------------
(* Facts about the data.                                                   *)

\* Every source has a Debug name, and a kill frame or a hello frame is a
\* frame.
LEMMA FrameTypes ==
    /\ \A s \in KillSource : DebugLower[s] \in KillKey
    /\ Tick \in Frame
    /\ \A s \in KillSource : KillFrame(s) \in Frame
    /\ \A a \in SUBSET KillSource : HelloFrame(a) \in Frame
  BY DEF KillSource, DebugLower, KillKey, Frame, Tick, KillFrame, HelloFrame

\* The sentinel table maps each present file to a source.
LEMMA SentinelTypes ==
    ASSUME sentinels \subseteq SentinelFiles, sentinels # {}
    PROVE  InducedSource[FirstSentinel] \in KillSource
  BY KillAssumption DEF InducedSource, FirstSentinel, KillSource

\* Publishing keeps the ring a sequence of frames.
LEMMA PublishTypes ==
    ASSUME TypeOK, NEW f \in Frame, f.kind \in {"kill", "hello"},
           PublishFrame(f)
    PROVE  events' \in Seq(Frame) /\ lost' \subseteq {"kill", "hello", "welcome"}
  <1>1. CASE Len(events) < RingSlots
    <2>1. events' = Append(events, f) /\ lost' = lost
      BY <1>1 DEF PublishFrame
    <2> QED BY <2>1, AppendProperties DEF TypeOK
  <1>2. CASE ~(Len(events) < RingSlots)
    BY <1>2 DEF PublishFrame, TypeOK
  <1> QED BY <1>1, <1>2

-----------------------------------------------------------------------------
(* Type correctness.                                                       *)

\* The initial state is well typed.
LEMMA TypeInit == ASSUME Init PROVE TypeOK
  <1>1. Idle \in TaskState /\ Idle.pc = "idle"
    BY DEF Idle, TaskState
  <1>2. /\ task \in [Tasks -> TaskState]
        /\ \A t \in Tasks : task[t].pc \in {"fire", "publish"} =>
                               task[t].ev # NoKill
    BY <1>1 DEF Init
  <1>3. events \in Seq(Frame) /\ hello \in Seq(SUBSET KillSource)
    BY EmptySeq DEF Init
  <1>4. order \in [Orders -> {"unused", "command", "refused", "sent", "open", "gone"}]
        /\ sweep \in [Tasks -> SUBSET Orders]
    BY DEF Init
  <1>5. kills \subseteq KillKey /\ breach \subseteq Limits
        /\ sentinels \subseteq SentinelFiles /\ lost \subseteq {"kill", "hello", "welcome"}
    BY DEF Init
  <1> QED BY <1>2, <1>3, <1>4, <1>5 DEF Init, TypeOK

\* fire leaves the monitor and the task table well typed.
LEMMA FireTypes ==
    ASSUME TypeOK, NEW t \in Tasks, NEW s \in KillSource, fire(t, s)
    PROVE  /\ killed' \in KillSource \union {NoKill}
           /\ fired' \subseteq KillSource
           /\ task' \in [Tasks -> TaskState]
           /\ \A u \in Tasks : task'[u].pc \in {"fire", "publish"} =>
                                task'[u].ev # NoKill
  <1>1. s # NoKill
    BY DEF KillSource, NoKill
  <1>2. [pc |-> "publish", ev |-> s] \in TaskState
    BY DEF TaskState
  <1>3. fired' \subseteq KillSource
    BY DEF fire, TypeOK
  <1> QED BY <1>1, <1>2, <1>3 DEF TypeOK, fire

\* Every step of the broker's firing tasks keeps the state well typed.
LEMMA TypeTasks ==
    ASSUME TypeOK,
           \/ CheckSentinel \/ CheckLimits \/ FillCheck
           \/ PumpErrors \/ WatchdogCheck
           \/ \E t \in Tasks : TaskStep(t)
    PROVE  TypeOK'
  <1> USE DEF monitorVars, taskVars, clockVars, linkVars, marketVars,
              ringVars, traderVars
  <1>1. CASE CheckSentinel
    <2>1. sentinels # {} /\ sentinels' \subseteq SentinelFiles
      BY <1>1 DEF CheckSentinel, TypeOK
    <2>2. InducedSource[FirstSentinel] \in KillSource
      BY <2>1, SentinelTypes DEF TypeOK
    <2>3. fire("risk_check", InducedSource[FirstSentinel])
      BY <1>1 DEF CheckSentinel
    <2> QED BY <1>1, <2>1, <2>2, <2>3, FireTypes DEF CheckSentinel, TypeOK, Tasks
  <1>2. CASE CheckLimits
    <2>1. PICK s \in {"risk", "daily_halt"} : fire("risk_check", s)
      BY <1>2 DEF CheckLimits
    <2>2. s \in KillSource
      BY DEF KillSource
    <2> QED BY <1>2, <2>1, <2>2, FireTypes DEF CheckLimits, TypeOK, Tasks
  <1>3. CASE FillCheck
    <2>1. fire("fill", "daily_halt") /\ "daily_halt" \in KillSource
      BY <1>3 DEF FillCheck, KillSource
    <2> QED BY <1>3, <2>1, FireTypes DEF FillCheck, TypeOK, Tasks
  <1>4. CASE PumpErrors
    <2>1. [pc |-> "fire", ev |-> "disconnect"] \in TaskState
          /\ "disconnect" # NoKill
      BY DEF TaskState, KillSource, NoKill
    <2>2. /\ task' \in [Tasks -> TaskState]
          /\ \A u \in Tasks : task'[u].pc \in {"fire", "publish"} =>
                               task'[u].ev # NoKill
      <3>1. CASE task' = task
        BY <3>1 DEF TypeOK
      <3>2. CASE task' = [task EXCEPT !["errors"] =
                            [pc |-> "fire", ev |-> "disconnect"]]
        BY <3>2, <2>1 DEF TypeOK
      <3> QED BY <1>4, <3>1, <3>2 DEF PumpErrors
    <2>3. errs' \in Nat
      BY <1>4 DEF PumpErrors, TypeOK
    <2> QED BY <1>4, <2>2, <2>3 DEF PumpErrors, TypeOK
  <1>5. CASE WatchdogCheck
    <2>1. [pc |-> "fire", ev |-> "trader_silent"] \in TaskState
          /\ "trader_silent" # NoKill
      BY DEF TaskState, KillSource, NoKill
    <2> QED BY <1>5, <2>1 DEF WatchdogCheck, TypeOK
  <1>6. ASSUME NEW t \in Tasks, TaskStep(t) PROVE TypeOK'
    <2>1. CASE FirePending(t)
      <3>1. task[t].ev \in KillSource
        BY <2>1 DEF FirePending, TypeOK, TaskState
      <3>2. fire(t, task[t].ev)
        BY <2>1 DEF FirePending
      <3> QED BY <2>1, <3>1, <3>2, FireTypes DEF FirePending, TypeOK
    <2>2. CASE publish_kill(t)
      <3>1. task[t].ev \in KillSource
        BY <2>2 DEF publish_kill, TypeOK, TaskState
      <3>2. KillFrame(task[t].ev) \in Frame
            /\ KillFrame(task[t].ev).kind = "kill"
        BY <3>1, FrameTypes DEF KillFrame
      <3>3. events' \in Seq(Frame) /\ lost' \subseteq {"kill", "hello", "welcome"}
        BY <2>2, <3>2, PublishTypes DEF publish_kill
      <3>4. /\ task' \in [Tasks -> TaskState]
            /\ \A u \in Tasks : task'[u].pc \in {"fire", "publish"} =>
                                 task'[u].ev # NoKill
        BY <2>2 DEF publish_kill, TypeOK, TaskState
      <3> QED BY <2>2, <3>3, <3>4 DEF publish_kill, TypeOK
    <2>3. CASE QueryOpenOrders(t)
      <3>1. Idle \in TaskState /\ Idle.pc = "idle"
        BY DEF Idle, TaskState
      <3>2. /\ task' \in [Tasks -> TaskState]
            /\ \A u \in Tasks : task'[u].pc \in {"fire", "publish"} =>
                                 task'[u].ev # NoKill
        <4>1. CASE task' = [task EXCEPT ![t].pc = "cancel"]
          BY <4>1 DEF TypeOK, TaskState
        <4>2. CASE task' = [task EXCEPT ![t] = Idle]
          BY <4>2, <3>1 DEF TypeOK
        <4> QED BY <2>3, <4>1, <4>2 DEF QueryOpenOrders
      <3>3. sweep' \in [Tasks -> SUBSET Orders]
        BY <2>3 DEF QueryOpenOrders, TypeOK
      <3> QED BY <2>3, <3>2, <3>3 DEF QueryOpenOrders, TypeOK
    <2>4. CASE \E o \in Orders : CancelResting(t, o)
      <3>1. Idle \in TaskState /\ Idle.pc = "idle"
        BY DEF Idle, TaskState
      <3>2. /\ task' \in [Tasks -> TaskState]
            /\ \A u \in Tasks : task'[u].pc \in {"fire", "publish"} =>
                                 task'[u].ev # NoKill
        BY <2>4, <3>1 DEF CancelResting, TypeOK
      <3>3. sweep' \in [Tasks -> SUBSET Orders]
        BY <2>4 DEF CancelResting, TypeOK
      <3>4. order' \in [Orders -> {"unused", "command", "refused", "sent", "open", "gone"}]
        BY <2>4 DEF CancelResting, TypeOK
      <3> QED BY <2>4, <3>2, <3>3, <3>4 DEF CancelResting, TypeOK
    <2> QED BY <1>6, <2>1, <2>2, <2>3, <2>4 DEF TaskStep
  <1> QED BY <1>1, <1>2, <1>3, <1>4, <1>5, <1>6

\* Clearing, dispatching and hello steps keep the state well typed.
LEMMA TypeBroker ==
    ASSUME TypeOK, Broker
    PROVE  TypeOK'
  <1> USE DEF monitorVars, taskVars, clockVars, linkVars, marketVars,
              ringVars, traderVars
  <1>1. CASE PumpConnection
    BY <1>1 DEF PumpConnection, TypeOK
  <1>2. CASE RolloverReset
    BY <1>2 DEF RolloverReset, TypeOK
  <1>3. CASE RolloverClear
    BY <1>3 DEF RolloverClear, TypeOK
  <1>4. CASE SnapshotKills
    <2>1. hello' \in Seq(SUBSET KillSource)
      BY <1>4 DEF SnapshotKills, TypeOK
    <2>2. welcome' \in Nat
      BY <1>4 DEF SnapshotKills, TypeOK
    <2> QED BY <1>4, <2>1, <2>2 DEF SnapshotKills, TypeOK
  <1>5. CASE publish_hello
    <2>1. Head(hello) \in SUBSET KillSource
      BY <1>5, HeadTailProperties DEF publish_hello, TypeOK
    <2>2. HelloFrame(Head(hello)) \in Frame
          /\ HelloFrame(Head(hello)).kind = "hello"
      BY <2>1, FrameTypes DEF HelloFrame
    <2>3. events' \in Seq(Frame) /\ lost' \subseteq {"kill", "hello", "welcome"}
      BY <1>5, <2>2, PublishTypes DEF publish_hello
    <2>4. hello' \in Seq(SUBSET KillSource)
      BY <1>5, EmptySeq DEF publish_hello
    <2> QED BY <1>5, <2>3, <2>4 DEF publish_hello, TypeOK
  <1>6. CASE Heartbeat
    BY <1>6 DEF Heartbeat, TypeOK
  <1>7. CASE \E o \in Orders : handle_place(o)
    <2>1. order' \in [Orders -> {"unused", "command", "refused", "sent", "open", "gone"}]
      BY <1>7 DEF handle_place, TypeOK
    <2> QED BY <1>7, <2>1 DEF handle_place, TypeOK
  <1> QED BY <1>1, <1>2, <1>3, <1>4, <1>5, <1>6, <1>7, TypeTasks DEF Broker

\* The trader's steps keep the state well typed.
LEMMA TypeTrader == ASSUME TypeOK, Trader PROVE TypeOK'
  <1> USE DEF monitorVars, taskVars, clockVars, linkVars, marketVars,
              ringVars, traderVars
  <1>1. ASSUME events # <<>>
        PROVE  Tail(events) \in Seq(Frame) /\ Head(events) \in Frame
    BY <1>1, HeadTailProperties DEF TypeOK
  <1>2. CASE ReadKill
    <2>1. Head(events).keys \subseteq KillKey
      BY <1>1, <1>2 DEF ReadKill, Frame, Tick
    <2> QED BY <1>1, <1>2, <2>1 DEF ReadKill, TypeOK
  <1>3. CASE ReadTick
    <2>1. order' \in [Orders -> {"unused", "command", "refused", "sent", "open", "gone"}]
      BY <1>3 DEF ReadTick, TypeOK
    <2> QED BY <1>1, <1>3, <2>1 DEF ReadTick, TypeOK
  <1>4. CASE TraderCrash
    BY <1>4 DEF TraderCrash, TypeOK
  <1>5. CASE TraderStart
    <2>1. welcome' \in Nat
      BY <1>5 DEF TraderStart, TypeOK
    <2>2. lost' \subseteq {"kill", "hello", "welcome"}
      BY <1>5 DEF TraderStart, TypeOK
    <2> QED BY <1>5, <2>1, <2>2 DEF TraderStart, TypeOK
  <1> QED BY <1>2, <1>3, <1>4, <1>5 DEF Trader

\* The steps of the outside world keep the state well typed.
LEMMA TypeWorld == ASSUME TypeOK, World PROVE TypeOK'
  <1> USE DEF monitorVars, taskVars, clockVars, linkVars, marketVars,
              ringVars, traderVars
  <1>1. CASE MarketMoves
    BY <1>1 DEF MarketMoves, TypeOK
  <1>2. CASE PublishTick
    BY <1>2, FrameTypes, AppendProperties DEF PublishTick, TypeOK
  <1>3. CASE TraderFallsSilent
    BY <1>3 DEF TraderFallsSilent, TypeOK
  <1>4. CASE LinkDrops
    BY <1>4 DEF LinkDrops, TypeOK
  <1>5. CASE LinkRestored
    BY <1>5 DEF LinkRestored, TypeOK
  <1>6. CASE ClockPasses17
    BY <1>6 DEF ClockPasses17, TypeOK
  <1>7. CASE Midnight
    <2>1. day' \in Nat
      BY <1>7 DEF Midnight, TypeOK
    <2>2. past' \in BOOLEAN
      BY <1>7 DEF Midnight
    <2> QED BY <1>7, <2>1, <2>2 DEF Midnight, TypeOK
  <1>8. CASE \E o \in Orders : OrderAcknowledged(o) \/ OrderEnds(o)
    <2>1. order' \in [Orders -> {"unused", "command", "refused", "sent", "open", "gone"}]
      BY <1>8 DEF OrderAcknowledged, OrderEnds, TypeOK
    <2> QED BY <1>8, <2>1 DEF OrderAcknowledged, OrderEnds, TypeOK
  <1> QED BY <1>1, <1>2, <1>3, <1>4, <1>5, <1>6, <1>7, <1>8 DEF World

\* Every step, stuttering included, keeps the state well typed.
LEMMA TypeStep == ASSUME TypeOK, [Next]_vars PROVE TypeOK'
  <1>1. CASE UNCHANGED vars
    BY <1>1 DEF vars, monitorVars, taskVars, clockVars, linkVars, marketVars,
                ringVars, traderVars, TypeOK
  <1> QED BY <1>1, TypeBroker, TypeTrader, TypeWorld DEF Next

\* Type correctness of the kill switch, of its tasks and of the trader's map
\* of kills, for every instance.
THEOREM TypeCorrect == Spec => []TypeOK
  <1>1. Init => TypeOK
    BY TypeInit
  <1>2. TypeOK /\ [Next]_vars => TypeOK'
    BY TypeStep
  <1> QED BY <1>1, <1>2, PTL DEF Spec

-----------------------------------------------------------------------------
(* The active kill reaches the trader.  KillReachesTrader is inductive     *)
(* given TypeOK: a fire puts its own publication in flight, a publication  *)
(* moves to the ring or is recorded in `lost`, a read moves it to the map, *)
(* and a restart puts a welcome in flight that the hello answers.          *)

\* A frame in the ring stays there when another is appended.
LEMMA AppendKeeps ==
    ASSUME NEW e \in Seq(Frame), NEW f \in Frame, NEW s
    PROVE  /\ (\E i \in 1..Len(e) : Carries(e[i], s)) =>
                \E i \in 1..Len(Append(e, f)) : Carries(Append(e, f)[i], s)
           /\ Carries(f, s) =>
                \E i \in 1..Len(Append(e, f)) : Carries(Append(e, f)[i], s)
  <1>1. /\ Len(Append(e, f)) = Len(e) + 1
        /\ \A i \in 1..Len(e) : Append(e, f)[i] = e[i]
        /\ Append(e, f)[Len(e) + 1] = f
        /\ Len(e) \in Nat
    BY AppendProperties, LenProperties
  <1>2. ASSUME NEW i \in 1..Len(e), Carries(e[i], s)
        PROVE  \E j \in 1..Len(Append(e, f)) : Carries(Append(e, f)[j], s)
    <2>1. i \in 1..Len(Append(e, f)) /\ Append(e, f)[i] = e[i]
      BY <1>1
    <2> QED BY <1>2, <2>1
  <1>3. ASSUME Carries(f, s)
        PROVE  \E j \in 1..Len(Append(e, f)) : Carries(Append(e, f)[j], s)
    <2>1. Len(e) + 1 \in 1..Len(Append(e, f))
      BY <1>1
    <2> QED BY <1>1, <1>3, <2>1
  <1> QED BY <1>2, <1>3

\* Taking the head out of the ring loses no other frame.
LEMMA TailKeeps ==
    ASSUME NEW e \in Seq(Frame), e # <<>>, NEW s,
           \E i \in 1..Len(e) : Carries(e[i], s)
    PROVE  \/ Carries(Head(e), s)
           \/ \E i \in 1..Len(Tail(e)) : Carries(Tail(e)[i], s)
  <1>1. PICK i \in 1..Len(e) : Carries(e[i], s)
    OBVIOUS
  <1>2. /\ Len(e) \in Nat /\ Len(Tail(e)) = Len(e) - 1
        /\ \A j \in 1..Len(Tail(e)) : Tail(e)[j] = e[j + 1]
        /\ Head(e) = e[1]
    BY HeadTailProperties, LenProperties
  <1>3. CASE i = 1
    BY <1>1, <1>2, <1>3
  <1>4. CASE i # 1
    <2>1. i - 1 \in 1..Len(Tail(e)) /\ Tail(e)[i - 1] = e[(i - 1) + 1]
      BY <1>1, <1>2, <1>4
    <2>2. (i - 1) + 1 = i
      BY <1>1
    <2> QED BY <1>1, <2>1, <2>2
  <1> QED BY <1>3, <1>4

\* A step that leaves the kill, the channels that carry it and the trader
\* alone keeps the invariant.
LEMMA ReachQuiet ==
    ASSUME KillReachesTrader,
           UNCHANGED <<killed, events, lost, trader, kills, welcome, hello>>,
           \A t \in Tasks : task[t].pc = "publish" => task'[t] = task[t]
    PROVE  KillReachesTrader'
  BY DEF KillReachesTrader, InFlight, Knows, Carries

\* A step that ends with no active kill, or with the trader down, satisfies
\* the invariant; so does a fire, whose publication is now pending.
LEMMA ReachFire ==
    ASSUME TypeOK, NEW t \in Tasks, NEW s \in KillSource, fire(t, s)
    PROVE  KillReachesTrader'
  <1>1. killed' = s /\ task'[t].pc = "publish" /\ task'[t].ev = s
    BY DEF fire, TypeOK
  <1> QED BY <1>1 DEF KillReachesTrader, InFlight

\* A kill or hello frame that is published, or dropped on record, keeps the
\* invariant when it carries all the publisher had in hand.
LEMMA ReachPublish ==
    ASSUME TypeOK, KillReachesTrader, NEW f \in Frame, PublishFrame(f),
           UNCHANGED <<killed, trader, kills, welcome>>,
           \A s \in KillSource :
               (\/ \E t \in Tasks : task[t].pc = "publish" /\ task[t].ev = s
                \/ hello # <<>> /\ s \in Head(hello))
               => \/ Carries(f, s)
                  \/ \E t \in Tasks : task'[t].pc = "publish" /\ task'[t].ev = s
                  \/ hello' # <<>> /\ s \in Head(hello')
    PROVE  KillReachesTrader'
  <1> SUFFICES ASSUME killed' # NoKill, trader' = "up", lost' = {}
               PROVE  (InFlight(killed) \/ Knows(killed))'
    BY DEF KillReachesTrader
  <1>1. events' = Append(events, f) /\ lost = {}
    BY DEF PublishFrame, TypeOK
  <1>2. killed \in KillSource /\ killed' = killed
    BY DEF TypeOK
  <1>3. InFlight(killed) \/ Knows(killed)
    BY <1>1, <1>2 DEF KillReachesTrader
  <1>4. events \in Seq(Frame)
    BY DEF TypeOK
  <1>5. CASE Knows(killed)
    BY <1>2, <1>5 DEF Knows
  <1>6. CASE \E i \in 1..Len(events) : Carries(events[i], killed)
    BY <1>1, <1>2, <1>4, <1>6, AppendKeeps DEF InFlight
  <1>7. CASE welcome > 0
    BY <1>7 DEF InFlight
  <1>8. CASE \/ \E t \in Tasks : task[t].pc = "publish" /\ task[t].ev = killed
             \/ hello # <<>> /\ killed \in Head(hello)
    <2>1. CASE Carries(f, killed)
      BY <1>1, <1>2, <1>4, <2>1, AppendKeeps DEF InFlight
    <2>2. CASE \/ \E t \in Tasks : task'[t].pc = "publish" /\ task'[t].ev = killed
               \/ hello' # <<>> /\ killed \in Head(hello')
      BY <1>2, <2>2 DEF InFlight
    <2> QED BY <1>2, <1>8, <2>1, <2>2
  <1> QED BY <1>3, <1>5, <1>6, <1>7, <1>8 DEF InFlight

\* Every step of the broker keeps the active kill on its way to the trader.
LEMMA ReachBroker ==
    ASSUME TypeOK, KillReachesTrader, Broker
    PROVE  KillReachesTrader'
  <1> USE DEF monitorVars, taskVars, clockVars, linkVars, marketVars,
              ringVars, traderVars
  <1>1. CASE CheckSentinel
    <2>1. InducedSource[FirstSentinel] \in KillSource
      BY <1>1, SentinelTypes DEF CheckSentinel, TypeOK
    <2> QED BY <1>1, <2>1, ReachFire DEF CheckSentinel, Tasks
  <1>2. CASE CheckLimits
    <2>1. PICK s \in {"risk", "daily_halt"} : fire("risk_check", s)
      BY <1>2 DEF CheckLimits
    <2> QED BY <2>1, ReachFire DEF KillSource, Tasks
  <1>3. CASE FillCheck
    BY <1>3, ReachFire DEF FillCheck, KillSource, Tasks
  <1>4. CASE PumpErrors
    <2>1. \A t \in Tasks : task[t].pc = "publish" => task'[t] = task[t]
      <3>1. task["errors"].pc = "idle"
        BY <1>4 DEF PumpErrors, Idle
      <3> QED BY <1>4, <3>1 DEF PumpErrors, TypeOK
    <2> QED BY <1>4, <2>1, ReachQuiet DEF PumpErrors
  <1>5. CASE WatchdogCheck
    <2>1. \A t \in Tasks : task[t].pc = "publish" => task'[t] = task[t]
      <3>1. task["watchdog"].pc = "idle"
        BY <1>5 DEF WatchdogCheck, Idle
      <3> QED BY <1>5, <3>1 DEF WatchdogCheck, TypeOK
    <2> QED BY <1>5, <2>1, ReachQuiet DEF WatchdogCheck
  <1>6. ASSUME NEW t \in Tasks, TaskStep(t) PROVE KillReachesTrader'
    <2>1. CASE FirePending(t)
      <3>1. task[t].ev \in KillSource
        BY <2>1 DEF FirePending, TypeOK, TaskState
      <3> QED BY <2>1, <3>1, ReachFire DEF FirePending
    <2>2. CASE publish_kill(t)
      <3>1. task[t].ev \in KillSource
        BY <2>2 DEF publish_kill, TypeOK, TaskState
      <3>2. KillFrame(task[t].ev) \in Frame /\ Carries(KillFrame(task[t].ev), task[t].ev)
        BY <3>1, FrameTypes DEF KillFrame, Carries
      <3>3. \A u \in Tasks : u # t => task'[u] = task[u]
        BY <2>2 DEF publish_kill, TypeOK
      <3>4. ASSUME NEW s \in KillSource,
                   \/ \E u \in Tasks : task[u].pc = "publish" /\ task[u].ev = s
                   \/ hello # <<>> /\ s \in Head(hello)
            PROVE  \/ Carries(KillFrame(task[t].ev), s)
                   \/ \E u \in Tasks : task'[u].pc = "publish" /\ task'[u].ev = s
                   \/ hello' # <<>> /\ s \in Head(hello')
        BY <2>2, <3>2, <3>3, <3>4 DEF publish_kill
      <3> QED BY <2>2, <3>2, <3>4, ReachPublish DEF publish_kill
    <2>3. CASE QueryOpenOrders(t)
      <3>1. \A u \in Tasks : task[u].pc = "publish" => task'[u] = task[u]
        <4>1. task[t].pc # "publish"
          BY <2>3 DEF QueryOpenOrders
        <4>2. \A u \in Tasks : u # t => task'[u] = task[u]
          BY <2>3 DEF QueryOpenOrders, TypeOK
        <4> QED BY <4>1, <4>2
      <3> QED BY <2>3, <3>1, ReachQuiet DEF QueryOpenOrders
    <2>4. CASE \E o \in Orders : CancelResting(t, o)
      <3>1. \A u \in Tasks : task[u].pc = "publish" => task'[u] = task[u]
        <4>1. task[t].pc # "publish"
          BY <2>4 DEF CancelResting
        <4>2. \A u \in Tasks : u # t => task'[u] = task[u]
          BY <2>4 DEF CancelResting, TypeOK
        <4> QED BY <4>1, <4>2
      <3> QED BY <2>4, <3>1, ReachQuiet DEF CancelResting
    <2> QED BY <1>6, <2>1, <2>2, <2>3, <2>4 DEF TaskStep
  <1>7. CASE PumpConnection
    <2>1. CASE killed' = NoKill
      BY <2>1 DEF KillReachesTrader
    <2>2. CASE killed' = killed
      BY <1>7, <2>2, ReachQuiet DEF PumpConnection
    <2> QED BY <1>7, <2>1, <2>2 DEF PumpConnection
  <1>8. CASE RolloverReset
    BY <1>8, ReachQuiet DEF RolloverReset
  <1>9. CASE RolloverClear
    <2>1. CASE killed' = NoKill
      BY <2>1 DEF KillReachesTrader
    <2>2. CASE killed' = killed
      BY <1>9, <2>2, ReachQuiet DEF RolloverClear
    <2> QED BY <1>9, <2>1, <2>2 DEF RolloverClear
  <1>10. CASE SnapshotKills
    <2>1. killed # NoKill => hello' # <<>> /\ killed \in Head(hello')
      BY <1>10 DEF SnapshotKills
    <2> QED BY <1>10, <2>1 DEF SnapshotKills, KillReachesTrader, InFlight
  <1>11. CASE publish_hello
    <2>1. Head(hello) \in SUBSET KillSource
      BY <1>11, HeadTailProperties DEF publish_hello, TypeOK
    <2>2. HelloFrame(Head(hello)) \in Frame
      BY <2>1, FrameTypes
    <2>3. \A s \in Head(hello) : Carries(HelloFrame(Head(hello)), s)
      BY DEF HelloFrame, Carries
    <2> QED BY <1>11, <2>2, <2>3, ReachPublish DEF publish_hello
  <1>12. CASE Heartbeat
    BY <1>12, ReachQuiet DEF Heartbeat
  <1>13. CASE \E o \in Orders : handle_place(o)
    BY <1>13, ReachQuiet DEF handle_place
  <1> QED BY <1>1, <1>2, <1>3, <1>4, <1>5, <1>6, <1>7, <1>8, <1>9, <1>10,
             <1>11, <1>12, <1>13 DEF Broker

\* So does every step of the trader: a read moves the kill into its map, a
\* restart asks for a hello.
LEMMA ReachTrader ==
    ASSUME TypeOK, KillReachesTrader, Trader
    PROVE  KillReachesTrader'
  <1> USE DEF monitorVars, taskVars, clockVars, linkVars, marketVars,
              ringVars, traderVars
  <1>1. ASSUME events # <<>>, events' = Tail(events), trader = "up",
               UNCHANGED <<killed, task, lost, trader, welcome, hello>>,
               kills \subseteq kills',
               \A s \in KillSource : Carries(Head(events), s) => Knows(s)'
        PROVE  KillReachesTrader'
    <2> SUFFICES ASSUME killed # NoKill, lost = {}
                 PROVE  (InFlight(killed) \/ Knows(killed))'
      BY <1>1 DEF KillReachesTrader
    <2>1. InFlight(killed) \/ Knows(killed)
      BY <1>1 DEF KillReachesTrader
    <2>2. killed \in KillSource /\ events \in Seq(Frame)
      BY DEF TypeOK
    <2>3. CASE \E i \in 1..Len(events) : Carries(events[i], killed)
      BY <1>1, <2>2, <2>3, TailKeeps DEF InFlight
    <2>4. CASE Knows(killed)
      BY <1>1, <2>4 DEF Knows
    <2> QED BY <1>1, <2>1, <2>3, <2>4 DEF InFlight
  <1>2. CASE ReadKill
    <2>1. \A s \in KillSource : Carries(Head(events), s) => Knows(s)'
      BY <1>2 DEF ReadKill, Carries, Knows
    <2>2. kills \subseteq kills'
      BY <1>2 DEF ReadKill
    <2> QED BY <1>1, <1>2, <2>1, <2>2 DEF ReadKill
  <1>3. CASE ReadTick
    <2>1. \A s \in KillSource : Carries(Head(events), s) => Knows(s)'
      <3>1. Head(events) \in Frame
        BY <1>3, HeadTailProperties DEF ReadTick, TypeOK
      <3>2. Head(events).keys = {}
        BY <1>3, <3>1 DEF ReadTick, Frame, Tick
      <3> QED BY <3>2 DEF Carries
    <2> QED BY <1>1, <1>3, <2>1 DEF ReadTick
  <1>4. CASE TraderCrash
    BY <1>4 DEF TraderCrash, KillReachesTrader
  <1>5. CASE TraderStart
    <2>1. CASE welcome' = welcome + 1
      BY <2>1 DEF TypeOK, KillReachesTrader, InFlight
    <2>2. CASE lost' = lost \union {"welcome"}
      BY <2>2 DEF KillReachesTrader
    <2> QED BY <1>5, <2>1, <2>2 DEF TraderStart
  <1> QED BY <1>2, <1>3, <1>4, <1>5 DEF Trader

\* The outside world never touches a kill on its way.
LEMMA ReachWorld ==
    ASSUME TypeOK, KillReachesTrader, World
    PROVE  KillReachesTrader'
  <1> USE DEF monitorVars, taskVars, clockVars, linkVars, marketVars,
              ringVars, traderVars
  <1>1. CASE PublishTick
    <2>1. PublishFrame(Tick) /\ Tick \in Frame
      BY <1>1, FrameTypes DEF PublishTick, PublishFrame
    <2> QED BY <1>1, <2>1, ReachPublish DEF PublishTick
  <1>2. CASE MarketMoves
    BY <1>2, ReachQuiet DEF MarketMoves
  <1>3. CASE TraderFallsSilent
    BY <1>3, ReachQuiet DEF TraderFallsSilent
  <1>4. CASE LinkDrops
    BY <1>4, ReachQuiet DEF LinkDrops
  <1>5. CASE LinkRestored
    BY <1>5, ReachQuiet DEF LinkRestored
  <1>6. CASE ClockPasses17
    BY <1>6, ReachQuiet DEF ClockPasses17
  <1>7. CASE Midnight
    BY <1>7, ReachQuiet DEF Midnight
  <1>8. CASE \E o \in Orders : OrderAcknowledged(o) \/ OrderEnds(o)
    BY <1>8, ReachQuiet DEF OrderAcknowledged, OrderEnds
  <1> QED BY <1>1, <1>2, <1>3, <1>4, <1>5, <1>6, <1>7, <1>8 DEF World

\* As long as no kill, hello or welcome frame is dropped, a running trader
\* holds the broker's active kill or the news of it is on its way: no order
\* of fires, overwrites, clears, publications, crashes, restarts and hellos
\* loses it.
THEOREM KillReachesTraderHolds == Spec => []KillReachesTrader
  <1>1. Init => KillReachesTrader
    BY DEF Init, KillReachesTrader
  <1>2. TypeOK /\ KillReachesTrader /\ [Next]_vars => KillReachesTrader'
    <2> SUFFICES ASSUME TypeOK, KillReachesTrader, [Next]_vars
                 PROVE  KillReachesTrader'
      OBVIOUS
    <2>1. CASE UNCHANGED vars
      BY <2>1, ReachQuiet DEF vars, monitorVars, taskVars, ringVars, traderVars
    <2> QED BY <2>1, ReachBroker, ReachTrader, ReachWorld DEF Next
  <1> QED BY <1>1, <1>2, TypeCorrect, PTL DEF Spec

-----------------------------------------------------------------------------
(* Sticky kills under an adapter that never announces a reconnect.  The    *)
(* invariant has to say more than StickyKillStays: a sticky kill may be    *)
(* overwritten by a disconnect kill, never by one the rollover clears, and *)
(* no Connected event is ever queued.                                      *)

StickyInv ==
    /\ fired \intersect Sticky # {} => killed \in Sticky \union {"disconnect"}
    /\ conns = 0
    /\ \A t \in Tasks : task[t].pc = "fire" =>
                         task[t].ev \in {"disconnect", "trader_silent"}

\* A fire outside check() overwrites with disconnect or trader_silent only,
\* and check() fires only when nothing is active.
LEMMA StickyFire ==
    ASSUME TypeOK, StickyInv, NEW t \in Tasks, NEW s, fire(t, s),
           killed = NoKill \/ s \in {"disconnect", "trader_silent"},
           conns' = conns
    PROVE  StickyInv'
  <1>1. fired' \intersect Sticky # {} => killed' \in Sticky \union {"disconnect"}
    BY DEF StickyInv, fire, Sticky, NoKill
  <1>2. \A u \in Tasks : task'[u].pc = "fire" =>
                          task'[u].ev \in {"disconnect", "trader_silent"}
    BY DEF StickyInv, fire, TypeOK
  <1> QED BY <1>1, <1>2 DEF StickyInv

\* Steps that touch neither the monitor, the tasks nor the queue of
\* connection events keep the invariant.
LEMMA StickyQuiet ==
    ASSUME StickyInv, UNCHANGED <<killed, fired, task, conns>>
    PROVE  StickyInv'
  BY DEF StickyInv

\* With an adapter that announces no reconnect after boot, which is what
\* NativeBroker is, a broker that ever fired a sticky kill stays killed.
THEOREM StickyKillStaysNative ==
    ASSUME ~AnnouncesReconnect PROVE Spec => []StickyKillStays
  <1> USE DEF monitorVars, taskVars, clockVars, linkVars, marketVars,
              ringVars, traderVars
  <1>1. Init => StickyInv
    BY DEF Init, StickyInv, Idle
  <1>2. TypeOK /\ StickyInv /\ [Next]_vars => StickyInv'
    <2> SUFFICES ASSUME TypeOK, StickyInv, [Next]_vars PROVE StickyInv'
      OBVIOUS
    <2>1. CASE CheckSentinel
      BY <2>1, StickyFire DEF CheckSentinel, Tasks
    <2>2. CASE CheckLimits
      BY <2>2, StickyFire DEF CheckLimits, Tasks
    <2>3. CASE FillCheck
      BY <2>3, StickyFire DEF FillCheck, Tasks
    <2>4. CASE PumpErrors
      BY <2>4 DEF PumpErrors, StickyInv, TypeOK
    <2>5. CASE WatchdogCheck
      BY <2>5 DEF WatchdogCheck, StickyInv, TypeOK
    <2>6. ASSUME NEW t \in Tasks, TaskStep(t) PROVE StickyInv'
      <3>1. CASE FirePending(t)
        BY <3>1, StickyFire DEF FirePending, StickyInv
      <3>2. CASE publish_kill(t)
        BY <3>2 DEF publish_kill, StickyInv, TypeOK, TaskState
      <3>3. CASE QueryOpenOrders(t)
        BY <3>3 DEF QueryOpenOrders, StickyInv, TypeOK, TaskState, Idle
      <3>4. CASE \E o \in Orders : CancelResting(t, o)
        BY <3>4 DEF CancelResting, StickyInv, TypeOK, Idle
      <3> QED BY <2>6, <3>1, <3>2, <3>3, <3>4 DEF TaskStep
    <2>7. CASE PumpConnection
      BY <2>7 DEF PumpConnection, StickyInv
    <2>8. CASE RolloverReset
      BY <2>8, StickyQuiet DEF RolloverReset
    <2>9. CASE RolloverClear
      BY <2>9 DEF RolloverClear, StickyInv, Sticky, is_daily_clearable
    <2>10. CASE SnapshotKills \/ publish_hello \/ Heartbeat
      BY <2>10, StickyQuiet DEF SnapshotKills, publish_hello, Heartbeat
    <2>11. CASE \E o \in Orders : handle_place(o)
      BY <2>11, StickyQuiet DEF handle_place
    <2>12. CASE Trader
      BY <2>12, StickyQuiet DEF Trader, ReadKill, ReadTick, TraderCrash,
                                TraderStart
    <2>13. CASE MarketMoves \/ PublishTick \/ TraderFallsSilent
      BY <2>13, StickyQuiet DEF MarketMoves, PublishTick, TraderFallsSilent
    <2>14. CASE LinkDrops \/ LinkRestored \/ ClockPasses17 \/ Midnight
      BY <2>14, StickyQuiet DEF LinkDrops, LinkRestored, ClockPasses17,
                                Midnight
    <2>15. CASE \E o \in Orders : OrderAcknowledged(o) \/ OrderEnds(o)
      BY <2>15, StickyQuiet DEF OrderAcknowledged, OrderEnds
    <2>16. CASE UNCHANGED vars
      BY <2>16, StickyQuiet DEF vars
    <2> QED BY <2>1, <2>2, <2>3, <2>4, <2>5, <2>6, <2>7, <2>8, <2>9, <2>10,
               <2>11, <2>12, <2>13, <2>14, <2>15, <2>16
            DEF Next, Broker, World
  <1>3. StickyInv => StickyKillStays
    BY DEF StickyInv, StickyKillStays, Sticky, NoKill
  <1> QED BY <1>1, <1>2, <1>3, TypeCorrect, PTL DEF Spec
-----------------------------------------------------------------------------
(* The trader is told of no kill that did not fire.  Beyond the map itself *)
(* the invariant follows the news on its whole way: the monitor, the tasks *)
(* about to publish, the hello in hand and the frames in the ring.         *)

\* Every key of the set is a spelling of a kill that fired.
Told(keys) == \A k \in keys : \E s \in fired : k \in {s, DebugLower[s]}

FiredInv ==
    /\ killed \in fired \union {NoKill}
    /\ \A t \in Tasks : task[t].pc = "publish" => task[t].ev \in fired
    /\ hello # <<>> => Told(Head(hello))
    /\ \A i \in 1..Len(events) : Told(events[i].keys)
    /\ Told(kills)

\* A step that fires nothing and puts no news on its way keeps the invariant.
LEMMA FiredQuiet ==
    ASSUME FiredInv, UNCHANGED <<fired, events, kills, hello>>,
           killed' \in {killed, NoKill},
           \A t \in Tasks : task'[t].pc = "publish" => task'[t] = task[t]
    PROVE  FiredInv'
  BY DEF FiredInv, Told

\* A fire is on record before its task may publish it.
LEMMA FiredFire ==
    ASSUME TypeOK, FiredInv, NEW t \in Tasks, NEW s, fire(t, s),
           UNCHANGED <<events, kills, hello>>
    PROVE  FiredInv'
  <1>1. fired \subseteq fired' /\ s \in fired' /\ killed' = s
    BY DEF fire
  <1>2. \A keys : Told(keys) => Told(keys)'
    BY <1>1 DEF Told
  <1>3. \A u \in Tasks : task'[u].pc = "publish" => task'[u].ev \in fired'
    BY <1>1 DEF fire, FiredInv, TypeOK
  <1> QED BY <1>1, <1>2, <1>3 DEF FiredInv

\* A frame whose keys all fired may be published.
LEMMA FiredPublish ==
    ASSUME TypeOK, FiredInv, NEW f \in Frame, PublishFrame(f), Told(f.keys),
           UNCHANGED <<killed, fired, kills>>,
           hello' \in {hello, <<>>},
           \A t \in Tasks : task'[t].pc = "publish" => task'[t] = task[t]
    PROVE  FiredInv'
  <1>1. \A i \in 1..Len(events') : Told(events'[i].keys)
    <2>1. CASE events' = events
      BY <2>1 DEF FiredInv
    <2>2. CASE events' = Append(events, f)
      <3>1. /\ Len(events') = Len(events) + 1 /\ Len(events) \in Nat
            /\ \A i \in 1..Len(events) : events'[i] = events[i]
            /\ events'[Len(events) + 1] = f
        BY <2>2, AppendProperties, LenProperties DEF TypeOK
      <3>2. ASSUME NEW i \in 1..Len(events') PROVE Told(events'[i].keys)
        <4>1. CASE i \in 1..Len(events)
          BY <3>1, <4>1 DEF FiredInv
        <4>2. CASE i = Len(events) + 1
          BY <3>1, <4>2
        <4> QED BY <3>1, <3>2, <4>1, <4>2
      <3> QED BY <3>2
    <2> QED BY <2>1, <2>2 DEF PublishFrame
  <1>2. \A keys : Told(keys)' <=> Told(keys)
    BY DEF Told
  <1>3. (hello # <<>>)' => Told(Head(hello))'
    BY <1>2 DEF FiredInv
  <1>4. (\A i \in 1..Len(events) : Told(events[i].keys))'
    BY <1>1, <1>2
  <1>5. (\A t \in Tasks : task[t].pc = "publish" => task[t].ev \in fired)'
    BY DEF FiredInv
  <1>6. (killed \in fired \union {NoKill})' /\ Told(kills)'
    BY <1>2 DEF FiredInv
  <1> QED BY <1>3, <1>4, <1>5, <1>6 DEF FiredInv

\* Every step of the broker keeps the invariant.
LEMMA FiredBroker == ASSUME TypeOK, FiredInv, Broker PROVE FiredInv'
  <1> USE DEF monitorVars, taskVars, clockVars, linkVars, marketVars,
              ringVars, traderVars
  <1>1. CASE CheckSentinel \/ CheckLimits \/ FillCheck
    BY <1>1, FiredFire DEF CheckSentinel, CheckLimits, FillCheck, Tasks
  <1>2. CASE PumpErrors
    <2>1. \A t \in Tasks : task'[t].pc = "publish" => task'[t] = task[t]
      BY <1>2 DEF PumpErrors, TypeOK
    <2> QED BY <1>2, <2>1, FiredQuiet DEF PumpErrors
  <1>3. CASE WatchdogCheck
    <2>1. \A t \in Tasks : task'[t].pc = "publish" => task'[t] = task[t]
      BY <1>3 DEF WatchdogCheck, TypeOK
    <2> QED BY <1>3, <2>1, FiredQuiet DEF WatchdogCheck
  <1>4. ASSUME NEW t \in Tasks, TaskStep(t) PROVE FiredInv'
    <2>1. CASE FirePending(t)
      BY <2>1, FiredFire DEF FirePending
    <2>2. CASE publish_kill(t)
      <3>1. task[t].ev \in KillSource /\ task[t].ev \in fired
        BY <2>2 DEF publish_kill, TypeOK, TaskState, FiredInv
      <3>2. KillFrame(task[t].ev) \in Frame /\ Told(KillFrame(task[t].ev).keys)
        BY <3>1, FrameTypes DEF KillFrame, Told
      <3>3. \A u \in Tasks : task'[u].pc = "publish" => task'[u] = task[u]
        BY <2>2 DEF publish_kill, TypeOK, TaskState
      <3> QED BY <2>2, <3>2, <3>3, FiredPublish DEF publish_kill
    <2>3. CASE QueryOpenOrders(t)
      <3>1. \A u \in Tasks : task'[u].pc = "publish" => task'[u] = task[u]
        BY <2>3 DEF QueryOpenOrders, TypeOK, TaskState, Idle
      <3> QED BY <2>3, <3>1, FiredQuiet DEF QueryOpenOrders
    <2>4. CASE \E o \in Orders : CancelResting(t, o)
      <3>1. \A u \in Tasks : task'[u].pc = "publish" => task'[u] = task[u]
        BY <2>4 DEF CancelResting, TypeOK, Idle
      <3> QED BY <2>4, <3>1, FiredQuiet DEF CancelResting
    <2> QED BY <1>4, <2>1, <2>2, <2>3, <2>4 DEF TaskStep
  <1>5. CASE PumpConnection \/ RolloverReset \/ RolloverClear
    BY <1>5, FiredQuiet DEF PumpConnection, RolloverReset, RolloverClear
  <1>6. CASE SnapshotKills
    <2>1. Told(Head(hello'))
      BY <1>6 DEF SnapshotKills, FiredInv, Told
    <2> QED BY <1>6, <2>1 DEF SnapshotKills, FiredInv, Told
  <1>7. CASE publish_hello
    <2>1. Head(hello) \in SUBSET KillSource
      BY <1>7, HeadTailProperties DEF publish_hello, TypeOK
    <2>2. HelloFrame(Head(hello)) \in Frame /\ Told(HelloFrame(Head(hello)).keys)
      BY <1>7, <2>1, FrameTypes DEF HelloFrame, FiredInv, publish_hello
    <2> QED BY <1>7, <2>2, FiredPublish DEF publish_hello
  <1>8. CASE Heartbeat \/ \E o \in Orders : handle_place(o)
    BY <1>8, FiredQuiet DEF Heartbeat, handle_place
  <1> QED BY <1>1, <1>2, <1>3, <1>4, <1>5, <1>6, <1>7, <1>8 DEF Broker

\* So does every step of the trader: a read takes keys that the ring carried.
LEMMA FiredTrader == ASSUME TypeOK, FiredInv, Trader PROVE FiredInv'
  <1> USE DEF monitorVars, taskVars, clockVars, linkVars, marketVars,
              ringVars, traderVars
  <1>1. ASSUME events # <<>>, events' = Tail(events), fired' = fired
        PROVE  /\ Told(Head(events).keys)
               /\ (\A i \in 1..Len(events) : Told(events[i].keys))'
    <2>1. /\ Len(events) \in Nat \ {0} /\ Len(events') = Len(events) - 1
          /\ \A j \in 1..Len(events') : events'[j] = events[j + 1]
          /\ Head(events) = events[1]
      BY <1>1, HeadTailProperties, LenProperties, EmptySeq DEF TypeOK
    <2>2. \A i \in 1..Len(events) : Told(events[i].keys)
      BY DEF FiredInv
    <2>3. \A j \in 1..Len(events') : j + 1 \in 1..Len(events)
      BY <2>1
    <2>4. \A keys : Told(keys)' <=> Told(keys)
      BY <1>1 DEF Told
    <2>5. \A j \in 1..Len(events') : Told(events'[j].keys)
      BY <2>1, <2>2, <2>3
    <2> QED BY <2>1, <2>2, <2>4, <2>5
  <1>2. CASE ReadKill
    <2>1. Told(kills)'
      BY <1>1, <1>2 DEF ReadKill, Told, FiredInv
    <2> QED BY <1>1, <1>2, <2>1 DEF ReadKill, FiredInv, Told
  <1>3. CASE ReadTick
    BY <1>1, <1>3 DEF ReadTick, FiredInv, Told
  <1>4. CASE TraderCrash
    BY <1>4 DEF TraderCrash, FiredInv, Told
  <1>5. CASE TraderStart
    BY <1>5, FiredQuiet DEF TraderStart
  <1> QED BY <1>2, <1>3, <1>4, <1>5 DEF Trader

\* The outside world publishes ticks only.
LEMMA FiredWorld == ASSUME TypeOK, FiredInv, World PROVE FiredInv'
  <1> USE DEF monitorVars, taskVars, clockVars, linkVars, marketVars,
              ringVars, traderVars
  <1>1. CASE PublishTick
    <2>1. PublishFrame(Tick) /\ Tick \in Frame /\ Told(Tick.keys)
      BY <1>1, FrameTypes DEF PublishTick, PublishFrame, Tick, Told
    <2> QED BY <1>1, <2>1, FiredPublish DEF PublishTick
  <1>2. CASE MarketMoves \/ TraderFallsSilent \/ LinkDrops \/ LinkRestored
    BY <1>2, FiredQuiet DEF MarketMoves, TraderFallsSilent, LinkDrops,
                            LinkRestored
  <1>3. CASE ClockPasses17 \/ Midnight
    BY <1>3, FiredQuiet DEF ClockPasses17, Midnight
  <1>4. CASE \E o \in Orders : OrderAcknowledged(o) \/ OrderEnds(o)
    BY <1>4, FiredQuiet DEF OrderAcknowledged, OrderEnds
  <1> QED BY <1>1, <1>2, <1>3, <1>4 DEF World

\* Every key in the trader's map of kills names a kill the monitor fired, with
\* frames dropped or not: no interleaving of fires, clears, hellos, crashes
\* and welcomes blocks the trader's quoting on a kill that never was.
THEOREM KillsFiredAlways == Spec => []KillsFired
  <1>1. Init => FiredInv
    BY DEF Init, FiredInv, Told, Idle
  <1>2. TypeOK /\ FiredInv /\ [Next]_vars => FiredInv'
    <2> SUFFICES ASSUME TypeOK, FiredInv, [Next]_vars PROVE FiredInv'
      OBVIOUS
    <2>1. CASE UNCHANGED vars
      BY <2>1, FiredQuiet DEF vars, monitorVars, taskVars, ringVars, traderVars
    <2> QED BY <2>1, FiredBroker, FiredTrader, FiredWorld DEF Next
  <1>3. FiredInv => KillsFired
    BY DEF FiredInv, KillsFired, Told
  <1> QED BY <1>1, <1>2, <1>3, TypeCorrect, PTL DEF Spec
=============================================================================
