--------------------------- MODULE TickPathProofs ---------------------------
(***************************************************************************)
(* The five invariants of TickPath, proved for every value of its          *)
(* constants that TickPathAssumption and ScenarioAssumption allow.         *)
(***************************************************************************)
EXTENDS TickPath, FiniteSetTheorems, SequenceTheorems, TLAPS

-----------------------------------------------------------------------------
(* The two targets.                                                        *)

\* The edge is at least one tick.
LEMMA EdgeOneTick == Edge \in Nat /\ Edge >= TickSize /\ TickSize \in Nat /\ TickSize >= 1
<1>1. EdgeTicks \in Nat /\ EdgeTicks >= 1 /\ TickSize \in Nat /\ TickSize >= 1
  BY TickPathAssumption
<1>2. ASSUME NEW a \in Nat, NEW b \in Nat, a >= 1, b >= 1 PROVE a * b \in Nat /\ a * b >= b
  BY <1>2, Z3
<1> QED
  BY <1>1, <1>2 DEF Edge

\* Rounding moves a price by at most half a tick.
LEMMA QuantizedNear ==
    ASSUME NEW t \in Int, NEW q \in Quantized(t)
    PROVE  q \in Int /\ 2 * (q - t) <= TickSize /\ 2 * (t - q) <= TickSize
<1>1. TickSize \in Nat /\ TickSize >= 1
  BY TickPathAssumption
<1>2. ASSUME NEW k \in Int PROVE k * TickSize \in Int
  BY <1>1
<1>3. t \div TickSize \in Int /\ t \div TickSize + 1 \in Int
  BY <1>1
<1>4. q \in Int /\ 2 * Abs(q - t) <= TickSize
  BY <1>2, <1>3 DEF Quantized
<1> QED
  BY <1>1, <1>4 DEF Abs

\* What the numbers of a merged tick are.
TickOK(m) == m \in [Field \union DepthField -> Int]

\* The best price that is not our own is a number.
LEMMA ExternalInt ==
    ASSUME NEW m, TickOK(m)
    PROVE  ExtBid(m) \in Int /\ ExtAsk(m) \in Int
BY DEF TickOK, ExtBid, ExtAsk, External, OrZero, Nil, Field, DepthField

\* The jump ahead of the incumbent is dead code: it asks for a price that is
\* better than theo less the edge and still the edge away from theo.
THEOREM JumpNeverMoves ==
    ASSUME NEW m, TickOK(m), NEW s \in Sides, NEW theo \in Int
    PROVE  Jump(s, theo - Signed(s) * Edge, theo, m) = theo - Signed(s) * Edge
<1>1. ExtBid(m) \in Int /\ ExtAsk(m) \in Int
  BY ExternalInt
<1>2. CASE s = "B"
  BY <1>1, <1>2, EdgeOneTick DEF Jump, Signed
<1>3. CASE s = "S"
  BY <1>1, <1>3, EdgeOneTick DEF Jump, Signed
<1> QED
  BY <1>2, <1>3 DEF Sides

\* What the numbers behind a theoretical price are.
GreeksOK(g) == g \in GreekValues
SpotOK == spot \in Int /\ surf[1].spot_at_fit \in Int

LEMMA TheoInt ==
    ASSUME NEW g, GreeksOK(g), SpotOK
    PROVE  Theo(g) \in Int
<1>1. g.theo \in Int /\ g.delta \in Int /\ MinTheo \in Int
  BY TickPathAssumption DEF GreeksOK, GreekValues
<1>2. spot - surf[1].spot_at_fit \in Int
  BY DEF SpotOK
<1>3. ASSUME NEW a \in Int, NEW b \in Int PROVE a * b \in Int
  BY <1>3
<1>4. (g.delta * (spot - surf[1].spot_at_fit)) \in Int
  BY <1>1, <1>2, <1>3
<1> QED
  BY <1>1, <1>4 DEF Theo

\* A target keeps the edge, less the rounding, to the theoretical price and to
\* the middle of the market, and passes the gate on breaches.
LEMMA TargetEdge ==
    ASSUME NEW m, TickOK(m), NEW s \in Sides, GreeksOK(Greeks), SpotOK,
           NEW q \in Targets(s, m)
    PROVE  /\ q \in Int
           /\ 2 * Signed(s) * (Theo(Greeks) - q) >= 2 * Edge - TickSize
           /\ 2 * Signed(s) * ((m.bid + m.ask) \div 2 - q) >= 2 * Edge - TickSize
           /\ improving_passes(s, Greeks)
<1> DEFINE theo == Theo(Greeks)
           mid == (m.bid + m.ask) \div 2
           t0 == theo - Signed(s) * Edge
           t2 == Cap(s, t0, m)
<1>1. theo \in Int
  BY TheoInt
<1>2. mid \in Int
  BY DEF TickOK, Field
<1>3. Jump(s, t0, theo, m) = t0
  BY <1>1, JumpNeverMoves
<1>4. q \in Quantized(t2) /\ improving_passes(s, Greeks)
  BY <1>3 DEF Targets
<1> HIDE DEF theo, mid
<1>5. CASE s = "B"
  <2>1. t2 \in Int /\ t2 <= theo - Edge /\ t2 <= mid - Edge
    BY <1>1, <1>2, <1>5, EdgeOneTick DEF Cap, Signed, mid
  <2>2. q \in Int /\ 2 * (q - t2) <= TickSize
    BY <1>4, <2>1, QuantizedNear
  <2>3. 2 * (theo - q) >= 2 * Edge - TickSize /\ 2 * (mid - q) >= 2 * Edge - TickSize
    BY ONLY <2>1, <2>2, <1>1, <1>2, EdgeOneTick
  <2> QED
    BY <1>4, <1>5, <2>2, <2>3 DEF Signed, theo, mid
<1>6. CASE s = "S"
  <2>1. t2 \in Int /\ t2 >= theo + Edge /\ t2 >= mid + Edge
    BY <1>1, <1>2, <1>6, EdgeOneTick DEF Cap, Signed, mid
  <2>2. q \in Int /\ 2 * (t2 - q) <= TickSize
    BY <1>4, <2>1, QuantizedNear
  <2>3. 2 * (q - theo) >= 2 * Edge - TickSize /\ 2 * (q - mid) >= 2 * Edge - TickSize
    BY ONLY <2>1, <2>2, <1>1, <1>2, EdgeOneTick
  <2>4. 2 * Signed(s) * (theo - q) = 2 * (q - theo) /\ 2 * Signed(s) * (mid - q) = 2 * (q - mid)
    BY <1>1, <1>2, <1>6, <2>2 DEF Signed
  <2> QED
    BY <1>4, <2>2, <2>3, <2>4 DEF theo, mid
<1> QED
  BY <1>5, <1>6 DEF Sides

\* What a tick may send: nothing, one order, or one for each side, at one of
\* the side's targets, each having passed the limiter with the slots that the
\* one before it left.
Passed(sl, sl2) ==
    IF Burst > 0 THEN ~AtCap(sl) /\ sl2 = Consume(sl) ELSE sl2 = sl
Order(s, m, r) == \E q \in Targets(s, m) : r = [side |-> s, price |-> q]

LEMMA SideShape ==
    ASSUME NEW s, NEW m, NEW o, NEW b \in DecideSide(s, m, o)
    PROVE  \/ b = o
           \/ \E r : Order(s, m, r) /\ b.sends = o.sends \union {r} /\ Passed(o.slots, b.slots)
<1>1. CASE Targets(s, m) = {}
  BY <1>1 DEF DecideSide
<1>2. CASE Targets(s, m) # {}
  <2>1. PICK q \in Targets(s, m) :
           b = IF LeftAlone(s, q) \/ (Burst > 0 /\ AtCap(o.slots)) THEN o
               ELSE [sends |-> o.sends \union {[side |-> s, price |-> q]},
                     slots |-> IF Burst > 0 THEN Consume(o.slots) ELSE o.slots]
    BY <1>2 DEF DecideSide
  <2>2. CASE b # o
    <3>1. /\ b = [sends |-> o.sends \union {[side |-> s, price |-> q]},
                  slots |-> IF Burst > 0 THEN Consume(o.slots) ELSE o.slots]
          /\ ~(Burst > 0 /\ AtCap(o.slots))
      BY <2>1, <2>2
    <3>2. /\ b.sends = o.sends \union {[side |-> s, price |-> q]}
          /\ b.slots = IF Burst > 0 THEN Consume(o.slots) ELSE o.slots
      BY <3>1
    <3> QED
      BY <3>1, <3>2 DEF Passed, Order
  <2> QED
    BY <2>2
<1> QED
  BY <1>1, <1>2

LEMMA OutcomeShape ==
    ASSUME NEW m, NEW o \in Outcomes(m)
    PROVE  \/ o.sends = {} /\ o.slots = slots
           \/ \E s \in Sides : \E r :
                 Order(s, m, r) /\ o.sends = {r} /\ Passed(slots, o.slots)
           \/ \E r1, r2, sl :
                 /\ Order("B", m, r1) /\ Order("S", m, r2) /\ o.sends = {r1, r2}
                 /\ Passed(slots, sl) /\ Passed(sl, o.slots)
<1> DEFINE o0 == [sends |-> {}, slots |-> slots]
<1>0. o0.sends = {} /\ o0.slots = slots
  OBVIOUS
<1>1. PICK b \in DecideSide("B", m, o0) : o \in DecideSide("S", m, b)
  BY DEF Outcomes
<1>2. \/ b.sends = {} /\ b.slots = slots
      \/ \E r : Order("B", m, r) /\ b.sends = {r} /\ Passed(slots, b.slots)
  <2>1. \/ b = o0
        \/ \E r : Order("B", m, r) /\ b.sends = o0.sends \union {r} /\ Passed(o0.slots, b.slots)
    BY <1>1, SideShape
  <2> QED
    BY <1>0, <2>1
<1>3. \/ o = b
      \/ \E r : Order("S", m, r) /\ o.sends = b.sends \union {r} /\ Passed(b.slots, o.slots)
  BY <1>1, SideShape
<1>4. "B" \in Sides /\ "S" \in Sides
  BY DEF Sides
<1>5. CASE o = b
  BY <1>2, <1>4, <1>5
<1>6. CASE b.sends = {} /\ b.slots = slots /\ o # b
  BY <1>3, <1>4, <1>6
<1>7. ASSUME NEW r1, Order("B", m, r1), b.sends = {r1}, Passed(slots, b.slots), o # b
      PROVE  \E r2, sl :
                 /\ Order("S", m, r2) /\ o.sends = {r1, r2}
                 /\ Passed(slots, sl) /\ Passed(sl, o.slots)
  <2>1. PICK r2 : Order("S", m, r2) /\ o.sends = b.sends \union {r2} /\ Passed(b.slots, o.slots)
    BY <1>3, <1>7
  <2>2. o.sends = {r1, r2}
    BY <1>7, <2>1
  <2> QED
    BY <1>7, <2>1, <2>2
<1> QED
  BY <1>2, <1>5, <1>6, <1>7

\* So every order sent is at a target of its side.
LEMMA SentAtTarget ==
    ASSUME NEW m, NEW o \in Outcomes(m), NEW q \in o.sends
    PROVE  q.side \in Sides /\ q.price \in Targets(q.side, m)
<1>1. \E s \in Sides : Order(s, m, q)
  BY OutcomeShape DEF Sides
<1> QED
  BY <1>1 DEF Order

-----------------------------------------------------------------------------
(* What the data are made of.                                              *)

Wires == UNION {[Field \union D -> Int] : D \in SUBSET DepthField}
Surfs == [fit : FitValues, spot_at_fit : Int, fit_ts_ns : Int]
RiskStates == [delta : Int, theta : Int, over : BOOLEAN]
Risks == [delta : Int, theta : Int, over : BOOLEAN, at : Int]
Frames == [ty : {"tick"}, val : Wires] \union [ty : {"underlying_tick"}, val : Int]
            \union [ty : {"vol_surface"}, val : Surfs]
            \union [ty : {"risk_state"}, val : RiskStates]
            \union [ty : {"halt"}, val : BOOLEAN]

BrokerData ==
    /\ sc \in Scenarios /\ now \in Nat
    /\ book \in [Field -> Int]
    /\ entry \in Seq([Field -> Int])
    /\ ticks \in Seq((Field \union {"und"}) \X Nat)
    /\ md \in [Field \union {"und"} -> Nat]

TraderData ==
    /\ options \in [Field -> Int]
    /\ spot \in Int
    /\ surf \in Seq(Surfs)
    /\ cache \subseteq Int \X GreekValues
    /\ risk \in Seq(Risks)

\* Every value is one the code could hold.
DataInv == BrokerData /\ ring \in Seq(Frames) /\ TraderData

\* A frame from the ring, by its type.
LEMMA FrameOfType ==
    ASSUME NEW x \in Frames
    PROVE  /\ x.ty = "tick" => x.val \in Wires
           /\ x.ty = "underlying_tick" => x.val \in Int
           /\ x.ty = "vol_surface" => x.val \in Surfs
           /\ x.ty = "risk_state" => x.val \in RiskStates
           /\ x.ty = "halt" => x.val \in BOOLEAN
<1>1. CASE x \in [ty : {"tick"}, val : Wires]
  BY <1>1
<1>2. CASE x \in [ty : {"underlying_tick"}, val : Int]
  BY <1>2
<1>3. CASE x \in [ty : {"vol_surface"}, val : Surfs]
  BY <1>3
<1>4. CASE x \in [ty : {"risk_state"}, val : RiskStates]
  BY <1>4
<1>5. CASE x \in [ty : {"halt"}, val : BOOLEAN]
  BY <1>5
<1> QED
  BY <1>1, <1>2, <1>3, <1>4, <1>5 DEF Frames

\* What the trader merges from a wire tick has every field.
LEMMA MergedOK ==
    ASSUME NEW w \in Wires, options \in [Field -> Int]
    PROVE  /\ TickOK(Merged(decode_tick(w)))
           /\ \A f \in Field : /\ f \in DOMAIN w
                               /\ Merged(decode_tick(w))[f] = Or(w[f], options[f])
<1>1. PICK D \in SUBSET DepthField : w \in [Field \union D -> Int]
  BY DEF Wires
<1>2. decode_tick(w) \in [Field \union DepthField -> Int]
  BY <1>1 DEF decode_tick, assign_opt, Nil
<1>3. \A f \in Field : f \in DOMAIN w /\ decode_tick(w)[f] = w[f]
  BY <1>1 DEF decode_tick, assign_opt
<1>4. DOMAIN decode_tick(w) = Field \union DepthField
  BY <1>2
<1> HIDE DEF decode_tick
<1>5. TickOK(Merged(decode_tick(w)))
  BY <1>2, <1>4 DEF Merged, TickOK, Or
<1>6. ASSUME NEW f \in Field
      PROVE  Merged(decode_tick(w))[f] = Or(w[f], options[f])
  BY <1>3, <1>4 DEF Merged
<1> QED
  BY <1>3, <1>5, <1>6

\* Publishing keeps the ring a sequence of frames, whether it finds room or not.
LEMMA PublishKeeps ==
    ASSUME ring \in Seq(Frames), NEW b, NEW ty, NEW val,
           [ty |-> ty, val |-> val] \in Frames,
           Written(b, ty, val) \/ Dropped(b)
    PROVE  ring' \in Seq(Frames)
<1> DEFINE x == [ty |-> ty, val |-> val]
<1>1. x \in Frames
  OBVIOUS
<1>2. ring' = Append(ring, x) \/ ring' = ring
  BY DEF Written, Dropped
<1> HIDE DEF x
<1> QED
  BY ONLY <1>1, <1>2, ring \in Seq(Frames)

\* The values of a tick of IBKR, and of the fits and risk states to come.
LEMMA ScenarioValues ==
    ASSUME sc \in Scenarios
    PROVE  /\ sc.px \subseteq Nat /\ sc.sz \subseteq Nat /\ sc.und \subseteq Nat
           /\ sc.steps \subseteq Nat /\ sc.room \in Nat
           /\ \A d \in sc.depth : /\ DOMAIN d \subseteq DepthField
                                  /\ \A f \in DOMAIN d : d[f] \in Int
           /\ \A g \in sc.fits : /\ {g.parity, g.min_k, g.max_k} \subseteq Int
                                 /\ g.greeks \in GreekValues
           /\ sc.risks \subseteq RiskStates
           /\ \A w \in sc.warm : /\ w.l1 \in [Field -> Nat] /\ w.und \in Nat
                                 /\ w.fit \in FitValues
BY ScenarioAssumption DEF RiskStates

\* Applying a tick keeps market_data's fields numbers that are not negative.
LEMMA AppliedOK ==
    ASSUME md \in [Field \union {"und"} -> Nat], NEW f \in Field \union {"und"}, NEW v \in Nat
    PROVE  Applied(f, v) \in [Field \union {"und"} -> Nat]
<1>1. CASE f = "bid"
  BY <1>1 DEF Applied, SizeOf, Field
<1>2. CASE f = "ask"
  BY <1>2 DEF Applied, SizeOf, Field
<1>3. CASE f = "und"
  BY <1>3 DEF Applied, SizeOf
<1>4. CASE f \in {"bid_size", "ask_size"}
  BY <1>4 DEF Applied, SizeOf, Field
<1> QED
  BY <1>1, <1>2, <1>3, <1>4 DEF Field

LEMMA SurfaceOK ==
    ASSUME BrokerData, NEW g \in sc.fits
    PROVE  Surface(g) \in Surfs /\ Surface(g).fit_ts_ns = now + 1
              /\ Surface(g).fit.greeks = g.greeks
<1>1. g.parity \in Int /\ g.min_k \in Int /\ g.max_k \in Int /\ g.greeks \in GreekValues
  BY ScenarioValues DEF BrokerData
<1>2. md.und \in Int /\ now + 1 \in Int /\ Strike \in Int
  BY TickPathAssumption DEF BrokerData
<1>3. Forward(g) \in Int
  BY <1>1, <1>2 DEF Forward
<1> HIDE DEF Forward, InFit
<1> QED
  BY <1>1, <1>2, <1>3 DEF Surface, Surfs, FitValues

\* What the publisher puts on the wire.
LEMMA EncodeOK ==
    ASSUME NEW e \in [Field -> Int], sc \in Scenarios, NEW d \in sc.depth
    PROVE  /\ encode_tick_into(e, d) \in Wires
           /\ \A f \in Field : encode_tick_into(e, d)[f] = e[f]
<1> DEFINE D == {g \in DOMAIN d : d[g] # Nil}
<1>1. D \in SUBSET DepthField /\ \A f \in D : d[f] \in Int
  BY ScenarioValues
<1>2. encode_tick_into(e, d) \in [Field \union D -> Int]
  BY <1>1 DEF encode_tick_into
<1>3. \A f \in Field : encode_tick_into(e, d)[f] = e[f]
  BY DEF encode_tick_into
<1> QED
  BY <1>1, <1>2, <1>3 DEF Wires

\* The consolidated tick after a tick of field f.
Consolidated(f, v) == Consolidate(IF entry = <<>> THEN Seed ELSE entry[1], f, v)

LEMMA ConsolidatedOK ==
    ASSUME BrokerData, NEW f \in Field, NEW v \in Nat
    PROVE  Consolidated(f, v) \in [Field -> Int] /\ Consolidated(f, v)[f] = v
<1> DEFINE b == IF entry = <<>> THEN Seed ELSE entry[1]
<1>1. Seed \in [Field -> Int]
  BY DEF BrokerData, Seed, Nil
<1>2. entry # <<>> => entry[1] \in [Field -> Int]
  BY DEF BrokerData
<1>3. b \in [Field -> Int]
  BY <1>1, <1>2
<1> HIDE DEF b
<1>4. Consolidate(b, f, v) \in [Field -> Int] /\ Consolidate(b, f, v)[f] = v
  BY <1>3 DEF Consolidate
<1> QED
  BY <1>4 DEF Consolidated, b

\* The broker's steps.
LEMMA BrokerStepsKeepData ==
    ASSUME DataInv
    PROVE  /\ \A f \in Field : \A v \in sc.px \union sc.sz : RouteTick(f, v) => DataInv'
           /\ \A p \in sc.und : RouteUnderlying(p) => DataInv'
           /\ install_tick_fastpath => DataInv'
           /\ pump_ticks => DataInv'
           /\ \A g \in sc.fits : fit_and_publish(g) => DataInv'
           /\ \A r \in sc.risks : Announce("risk", "risk_state", r) => DataInv'
           /\ \A b \in BOOLEAN : Announce("halt", "halt", b) => DataInv'
<1> USE DEF DataInv
<1>0. sc \in Scenarios /\ now \in Nat
  BY DEF BrokerData
<1>1. ASSUME NEW f \in Field, NEW v \in sc.px \union sc.sz, RouteTick(f, v) PROVE DataInv'
  <2>1. v \in Nat
    BY <1>0, ScenarioValues
  <2>2. book' \in [Field -> Int] /\ ticks' \in Seq((Field \union {"und"}) \X Nat)
    <3>1. <<f, v>> \in (Field \union {"und"}) \X Nat
      BY <2>1
    <3> QED
      BY <1>1, <2>1, <3>1 DEF RouteTick, BrokerData
  <2>3. entry' \in Seq([Field -> Int]) /\ ring' \in Seq(Frames)
    <3>1. CASE ~fast
      BY <1>1, <3>1 DEF RouteTick, BrokerData
    <3>2. CASE fast
      <4>1. FastPath(f, v)
        BY <1>1, <3>2 DEF RouteTick
      <4>2. entry' = <<Consolidated(f, v)>>
        BY <4>1 DEF FastPath, Consolidated
      <4>3. Consolidated(f, v) \in [Field -> Int]
        BY <2>1, ConsolidatedOK
      <4>4. \/ Dropped("tick")
            \/ \E d \in sc.depth :
                  Written("tick", "tick", encode_tick_into(Consolidated(f, v), d))
        BY <4>1 DEF FastPath, Consolidated
      <4>5. ASSUME NEW d \in sc.depth
            PROVE  [ty |-> "tick", val |-> encode_tick_into(Consolidated(f, v), d)] \in Frames
        BY <1>0, <4>3, EncodeOK DEF Frames
      <4>6. ring' \in Seq(Frames)
        <5>1. CASE Dropped("tick")
          BY <5>1 DEF Dropped
        <5>2. CASE \E d \in sc.depth :
                      Written("tick", "tick", encode_tick_into(Consolidated(f, v), d))
          BY <5>2, <4>5, PublishKeeps
        <5> QED
          BY <4>4, <5>1, <5>2
      <4> QED
        BY <4>2, <4>3, <4>6
    <3> QED
      BY <3>1, <3>2
  <2> QED
    BY <1>1, <2>2, <2>3 DEF RouteTick, BrokerData, TraderData, trader
<1>2. ASSUME NEW p \in sc.und, RouteUnderlying(p) PROVE DataInv'
  <2>1. p \in Nat
    BY <1>0, ScenarioValues
  <2>2. ticks' \in Seq((Field \union {"und"}) \X Nat)
    <3>1. <<"und", p>> \in (Field \union {"und"}) \X Nat
      BY <2>1
    <3> QED
      BY <1>2, <3>1 DEF RouteUnderlying, BrokerData
  <2>3. [ty |-> "underlying_tick", val |-> p] \in Frames
    BY <2>1 DEF Frames
  <2>4. ring' \in Seq(Frames)
    <3>1. UNCHANGED ring \/ Written("und", "underlying_tick", p) \/ Dropped("und")
      BY <1>2 DEF RouteUnderlying
    <3> QED
      BY <3>1, <2>3, PublishKeeps
  <2> QED
    BY <1>2, <2>2, <2>4 DEF RouteUnderlying, BrokerData, TraderData, trader
<1>3. install_tick_fastpath => DataInv'
  BY DEF install_tick_fastpath, BrokerData, TraderData, trader
<1>4. ASSUME pump_ticks PROVE DataInv'
  <2>1. ticks[1] \in (Field \union {"und"}) \X Nat
        /\ ticks' \in Seq((Field \union {"und"}) \X Nat)
    BY <1>4 DEF pump_ticks, BrokerData
  <2>2. md' \in [Field \union {"und"} -> Nat]
    BY <1>4, <2>1, AppliedOK DEF pump_ticks, BrokerData
  <2> QED
    BY <1>4, <2>1, <2>2 DEF pump_ticks, BrokerData, TraderData, trader
<1>5. ASSUME NEW g \in sc.fits, fit_and_publish(g) PROVE DataInv'
  <2>1. [ty |-> "vol_surface", val |-> Surface(g)] \in Frames
    BY SurfaceOK DEF Frames
  <2>2. Written("fit", "vol_surface", Surface(g)) \/ Dropped("fit")
    BY <1>5 DEF fit_and_publish
  <2>3. ring' \in Seq(Frames)
    BY <2>1, <2>2, PublishKeeps
  <2> QED
    BY <1>0, <1>5, <2>3 DEF fit_and_publish, BrokerData, TraderData, broker, trader
<1>6. ASSUME NEW b, NEW ty, NEW val, [ty |-> ty, val |-> val] \in Frames, Announce(b, ty, val)
      PROVE  DataInv'
  <2>1. ring' \in Seq(Frames)
    BY <1>6, PublishKeeps DEF Announce
  <2> QED
    BY <1>6, <2>1 DEF Announce, BrokerData, TraderData, broker, trader
<1>7. ASSUME NEW r \in sc.risks PROVE [ty |-> "risk_state", val |-> r] \in Frames
  BY <1>0, ScenarioValues DEF Frames
<1>8. ASSUME NEW b \in BOOLEAN PROVE [ty |-> "halt", val |-> b] \in Frames
  BY DEF Frames
<1> QED
  BY <1>1, <1>2, <1>3, <1>4, <1>5, <1>6, <1>7, <1>8

\* What a tick does to the trader: it may cache the greeks of the fit in force,
\* and it is silent unless the leg is in scope and risk does not block.
LEMMA TickEffect ==
    ASSUME NEW m, NEW written, decide_on_tick(m, written)
    PROVE  /\ cache' = cache \/ (surf # <<>> /\ cache' = CacheAfter)
           /\ \/ last' = {} /\ slots' = slots /\ stamps' = stamps
              \/ surf # <<>> /\ ~BlockAll /\ Quote(m, written)
<1>1. CASE ~InScope
  BY <1>1 DEF decide_on_tick, Silent
<1>2. CASE InScope /\ BlockAll
  BY <1>2 DEF decide_on_tick, CancelAll
<1>3. CASE InScope /\ ~BlockAll /\ (~FitUsable \/ ~Priced)
  BY <1>3 DEF decide_on_tick, Silent
<1>4. CASE InScope /\ ~BlockAll /\ FitUsable /\ Priced
  <2>1. cache' = CacheAfter /\ (IF Quotable(m) THEN Quote(m, written) ELSE Silent)
    BY <1>4 DEF decide_on_tick
  <2> QED
    BY <1>4, <2>1 DEF Silent, InScope
<1> QED
  BY <1>1, <1>2, <1>3, <1>4

\* The trader's steps, the clock and the restarts.
LEMMA TraderStepsKeepData ==
    ASSUME DataInv
    PROVE  /\ HandleTick => DataInv'
           /\ HandleState => DataInv'
           /\ \A s \in Sides : OrderEvent(s) => DataInv'
           /\ \A d \in sc.steps : Elapse(d) => DataInv'
           /\ BrokerRestart => DataInv'
           /\ TraderRestart => DataInv'
           /\ UNCHANGED vars => DataInv'
<1> USE DEF DataInv
<1>0. sc \in Scenarios /\ now \in Nat
  BY DEF BrokerData
<1>1. ASSUME HandleTick PROVE DataInv'
  <2> DEFINE m == Merged(decode_tick(ring[1].val))
  <2>1. ring # <<>> /\ ring[1].ty = "tick" /\ ring' = Tail(ring) /\ on_tick(ring[1].val)
    BY <1>1 DEF HandleTick, Take
  <2>2. ring[1] \in Frames /\ ring' \in Seq(Frames)
    BY <2>1
  <2>3. ring[1].val \in Wires
    BY <2>1, <2>2, FrameOfType
  <2>4. TickOK(m)
    BY <2>3, MergedOK DEF TraderData
  <2>5. options' \in [Field -> Int]
    BY <2>1, <2>4 DEF on_tick, TickOK
  <2>6. cache' = cache \/ (surf # <<>> /\ cache' = CacheAfter)
    BY <2>1, TickEffect DEF on_tick
  <2>7. cache' \subseteq Int \X GreekValues
    <3>1. CASE cache' = cache
      BY <3>1 DEF TraderData
    <3>2. CASE surf # <<>> /\ cache' = CacheAfter
      <4>1. surf[1] \in Surfs
        BY <3>2 DEF TraderData
      <4>2. <<surf[1].fit_ts_ns, Fit.greeks>> \in Int \X GreekValues
        BY <4>1 DEF Surfs, FitValues, Fit
      <4> QED
        BY <3>2, <4>2 DEF CacheAfter, TraderData
    <3> QED
      BY <2>6, <3>1, <3>2
  <2> QED
    BY <1>1, <2>1, <2>2, <2>5, <2>7 DEF HandleTick, on_tick, BrokerData, TraderData, broker
<1>2. ASSUME HandleState PROVE DataInv'
  <2>1. ring # <<>> /\ ring' = Tail(ring)
    BY <1>2 DEF HandleState, Take
  <2>2. ring[1] \in Frames /\ ring' \in Seq(Frames)
    BY <2>1
  <2>3. spot' \in Int
    BY <1>2, <2>2, FrameOfType DEF HandleState, Take, TraderData
  <2>4. surf' \in Seq(Surfs)
    <3>1. CASE surf' = surf
      BY <3>1 DEF TraderData
    <3>2. CASE ring[1].ty = "vol_surface" /\ surf' = <<ring[1].val>>
      <4>1. ring[1].val \in Surfs
        BY <3>2, <2>2, FrameOfType
      <4> QED
        BY ONLY <3>2, <4>1
    <3> QED
      BY <1>2, <3>1, <3>2 DEF HandleState, Take
  <2>5. risk' \in Seq(Risks)
    <3>1. CASE risk' = risk
      BY <3>1 DEF TraderData
    <3>2. CASE ring[1].ty = "risk_state" /\ risk' = <<Received(ring[1].val)>>
      <4>1. ring[1].val \in RiskStates
        BY <3>2, <2>2, FrameOfType
      <4>2. Received(ring[1].val) \in Risks
        BY <1>0, <4>1 DEF Received, RiskStates, Risks
      <4> QED
        BY <3>2, <4>2
    <3> QED
      BY <1>2, <3>1, <3>2 DEF HandleState, Take
  <2> QED
    BY <1>2, <2>2, <2>3, <2>4, <2>5 DEF HandleState, BrokerData, TraderData, broker
<1>3. ASSUME NEW s \in Sides, OrderEvent(s) PROVE DataInv'
  BY <1>3 DEF OrderEvent, BrokerData, TraderData, broker
<1>4. ASSUME NEW d \in sc.steps, Elapse(d) PROVE DataInv'
  <2>1. now' \in Nat
    BY <1>0, <1>4, ScenarioValues DEF Elapse
  <2> QED
    BY <1>4, <2>1 DEF Elapse, BrokerData, TraderData, broker, trader
<1>5. ASSUME BrokerRestart PROVE DataInv'
  <2>1. NoTick \in [Field -> Int] /\ NoData \in [Field \union {"und"} -> Nat]
    BY DEF NoTick, NoData, Nil
  <2> QED
    BY <1>5, <2>1 DEF BrokerRestart, BrokerData, TraderData, trader
<1>6. ASSUME TraderRestart PROVE DataInv'
  <2>1. NoTick \in [Field -> Int]
    BY DEF NoTick, Nil
  <2> QED
    BY <1>6, <2>1 DEF TraderRestart, BrokerData, TraderData, broker
<1>7. ASSUME UNCHANGED vars PROVE DataInv'
  BY <1>7 DEF vars, BrokerData, TraderData, broker, trader
<1> QED
  BY <1>1, <1>2, <1>3, <1>4, <1>5, <1>6, <1>7

LEMMA InitData == Init => DataInv
<1> SUFFICES ASSUME Init PROVE DataInv
  OBVIOUS
<1>1. sc \in Scenarios /\ now \in Nat /\ ticks = <<>> /\ ring = <<>>
  BY TickPathAssumption DEF Init
<1>2. CASE Cold
  <2>1. NoTick \in [Field -> Int] /\ NoData \in [Field \union {"und"} -> Nat]
    BY DEF NoTick, NoData, Nil
  <2> QED
    BY <1>1, <1>2, <2>1 DEF Cold, DataInv, BrokerData, TraderData
<1>3. ASSUME NEW w \in sc.warm, Warm(w) PROVE DataInv
  <2>1. w.l1 \in [Field -> Nat] /\ w.und \in Nat /\ w.fit \in FitValues
    BY <1>1, ScenarioValues
  <2>2. w.l1 \in [Field -> Int]
    BY <2>1
  <2>3. md \in [Field \union {"und"} -> Nat]
    BY <1>3, <2>1 DEF Warm, NoData
  <2>4. BrokerData
    BY <1>1, <1>3, <2>2, <2>3 DEF Warm, BrokerData
  <2>5. surf \in Seq(Surfs)
    BY <1>1, <1>3, <2>1 DEF Warm, Surfs
  <2>6. risk \in Seq(Risks)
    <3>1. now \in Int /\ FALSE \in BOOLEAN
      BY <1>1
    <3> DEFINE r == [delta |-> 0, theta |-> 0, over |-> FALSE, at |-> now]
    <3>2. r \in Risks
      BY <3>1 DEF Risks
    <3>3. risk = <<r>>
      BY <1>3 DEF Warm
    <3> HIDE DEF r
    <3> QED
      BY <3>2, <3>3
  <2> QED
    BY <1>1, <1>3, <2>1, <2>2, <2>4, <2>5, <2>6 DEF Warm, DataInv, TraderData
<1> QED
  BY <1>2, <1>3 DEF Init

LEMMA DataInvInductive == DataInv /\ [Next]_vars => DataInv'
<1> SUFFICES ASSUME DataInv, [Next]_vars PROVE DataInv'
  OBVIOUS
<1> QED
  BY BrokerStepsKeepData, TraderStepsKeepData DEF Next

LEMMA DataInvHolds == Spec => []DataInv
BY InitData, DataInvInductive, PTL DEF Spec

-----------------------------------------------------------------------------
(* The theo cache.                                                         *)

\* Every fit that the cache, the trader or the ring knows of.
FitOf(x) == <<x.fit_ts_ns, x.fit.greeks>>
SurfIn(rg) == {j \in DOMAIN rg : rg[j].ty = "vol_surface"}
KnownFits ==
    cache \union {FitOf(surf[i]) : i \in DOMAIN surf}
          \union {FitOf(ring[i].val) : i \in SurfIn(ring)}

\* A fit's time tells which fit it is.
FitInv == \A p, q \in KnownFits : p[1] <= now /\ (p[1] = q[1] => p[2] = q[2])

LEMMA KnownFitsOK ==
    ASSUME DataInv
    PROVE  KnownFits \subseteq Int \X GreekValues
<1>1. ASSUME NEW x \in Surfs PROVE FitOf(x) \in Int \X GreekValues
  BY DEF Surfs, FitValues, FitOf
<1>2. \A i \in DOMAIN surf : surf[i] \in Surfs
  BY DEF DataInv, TraderData
<1>3. ASSUME NEW i \in SurfIn(ring) PROVE ring[i].val \in Surfs
  <2>1. ring[i] \in Frames /\ ring[i].ty = "vol_surface"
    BY DEF DataInv, SurfIn
  <2> QED
    BY <2>1, FrameOfType
<1> QED
  BY <1>1, <1>2, <1>3 DEF KnownFits, DataInv, TraderData

\* Nothing is learnt from a step that adds no fit.
LEMMA FitInvKept ==
    ASSUME DataInv, FitInv, now' \in Int, now' >= now, KnownFits' \subseteq KnownFits
    PROVE  FitInv'
<1>1. \A p \in KnownFits : p[1] \in Int
  BY KnownFitsOK
<1>2. now \in Int
  BY DEF DataInv, BrokerData
<1>3. \A p, q \in KnownFits : p[1] <= now' /\ (p[1] = q[1] => p[2] = q[2])
  BY <1>1, <1>2 DEF FitInv
<1> QED
  BY <1>3 DEF FitInv

LEMMA RingGrowsBy ==
    ASSUME DataInv, NEW x, ring' = Append(ring, x) \/ ring' = ring, cache' = cache, surf' = surf
    PROVE  KnownFits' \subseteq KnownFits \union (IF x.ty = "vol_surface" THEN {FitOf(x.val)} ELSE {})
<1>1. CASE ring' = ring
  BY <1>1 DEF KnownFits
<1>2. CASE ring' = Append(ring, x)
  <2>1. /\ DOMAIN ring' = DOMAIN ring \union {Len(ring) + 1}
        /\ \A i \in DOMAIN ring : ring'[i] = ring[i]
        /\ ring'[Len(ring) + 1] = x
    BY <1>2 DEF DataInv
  <2>2. ASSUME NEW i \in SurfIn(ring')
        PROVE  FitOf(ring'[i].val) \in
                 KnownFits \union (IF x.ty = "vol_surface" THEN {FitOf(x.val)} ELSE {})
    <3>1. CASE i \in DOMAIN ring
      BY <2>1, <2>2, <3>1 DEF SurfIn, KnownFits
    <3>2. CASE i = Len(ring) + 1
      BY <2>1, <2>2, <3>2 DEF SurfIn
    <3> QED
      BY <2>1, <3>1, <3>2 DEF SurfIn
  <2> QED
    BY <2>2 DEF KnownFits
<1> QED
  BY <1>1, <1>2

\* The first frame leaves the ring.
LEMMA RingShrinks ==
    ASSUME DataInv, ring # <<>>, ring' = Tail(ring)
    PROVE  {FitOf(ring'[i].val) : i \in SurfIn(ring')} \subseteq
           {FitOf(ring[i].val) : i \in SurfIn(ring)}
<1>1. \A i \in DOMAIN ring' : i + 1 \in DOMAIN ring /\ ring'[i] = ring[i + 1]
  BY DEF DataInv
<1>2. ASSUME NEW i \in SurfIn(ring')
      PROVE  i + 1 \in SurfIn(ring) /\ ring'[i].val = ring[i + 1].val
  BY <1>1, <1>2 DEF SurfIn
<1> QED
  BY <1>2

LEMMA FitInvInductive == DataInv /\ DataInv' /\ FitInv /\ [Next]_vars => FitInv'
<1> SUFFICES ASSUME DataInv, DataInv', FitInv, [Next]_vars PROVE FitInv'
  OBVIOUS
<1>0. now \in Nat /\ now' \in Nat
  BY DEF DataInv, BrokerData
<1>1. ASSUME NEW x, x.ty # "vol_surface", ring' = Append(ring, x) \/ ring' = ring,
             cache' = cache, surf' = surf, now' >= now
      PROVE  FitInv'
  <2>1. KnownFits' \subseteq KnownFits
    BY <1>1, RingGrowsBy
  <2> QED
    BY <1>0, <1>1, <2>1, FitInvKept
<1>2. ASSUME NEW f \in Field, NEW v, RouteTick(f, v) PROVE FitInv'
  <2>1. cache' = cache /\ surf' = surf /\ now' = now
    BY <1>2 DEF RouteTick, trader
  <2>2. \E val : ring' = Append(ring, [ty |-> "tick", val |-> val]) \/ ring' = ring
    <3>1. CASE ~fast
      BY <1>2, <3>1 DEF RouteTick
    <3>2. CASE fast
      BY <1>2, <3>2 DEF RouteTick, FastPath, Written, Dropped
    <3> QED
      BY <3>1, <3>2
  <2>3. PICK val : ring' = Append(ring, [ty |-> "tick", val |-> val]) \/ ring' = ring
    BY <2>2
  <2>4. [ty |-> "tick", val |-> val].ty # "vol_surface"
    OBVIOUS
  <2> QED
    BY <1>0, <1>1, <2>1, <2>3, <2>4
<1>3. ASSUME NEW p, RouteUnderlying(p) PROVE FitInv'
  <2> DEFINE x == [ty |-> "underlying_tick", val |-> p]
  <2>1. /\ cache' = cache /\ surf' = surf /\ now' = now
        /\ ring' = Append(ring, x) \/ ring' = ring
    BY <1>3 DEF RouteUnderlying, Written, Dropped, trader
  <2>2. x.ty # "vol_surface"
    OBVIOUS
  <2> HIDE DEF x
  <2> QED
    BY <1>0, <1>1, <2>1, <2>2
<1>4. ASSUME NEW b, NEW ty, NEW val, ty # "vol_surface", Announce(b, ty, val) PROVE FitInv'
  <2> DEFINE x == [ty |-> ty, val |-> val]
  <2>1. /\ cache' = cache /\ surf' = surf /\ now' = now
        /\ ring' = Append(ring, x) \/ ring' = ring
    BY <1>4 DEF Announce, Written, Dropped, trader
  <2>2. x.ty # "vol_surface"
    BY <1>4
  <2> HIDE DEF x
  <2> QED
    BY <1>0, <1>1, <2>1, <2>2
<1>5. ASSUME \/ install_tick_fastpath \/ pump_ticks \/ UNCHANGED vars
             \/ (\E s \in Sides : OrderEvent(s))
      PROVE FitInv'
  <2>1. now' = now /\ ring' = ring /\ cache' = cache /\ surf' = surf
    BY <1>5 DEF install_tick_fastpath, pump_ticks, OrderEvent, vars, trader
  <2>2. KnownFits' \subseteq KnownFits
    BY <2>1 DEF KnownFits
  <2> QED
    BY <1>0, <2>1, <2>2, FitInvKept
<1>6. ASSUME NEW d \in sc.steps, Elapse(d) PROVE FitInv'
  <2>1. now' >= now /\ ring' = ring /\ cache' = cache /\ surf' = surf
    BY <1>0, <1>6, ScenarioValues DEF Elapse, trader, DataInv, BrokerData
  <2>2. KnownFits' \subseteq KnownFits
    BY <2>1 DEF KnownFits
  <2> QED
    BY <1>0, <2>1, <2>2, FitInvKept
<1>7. ASSUME NEW g \in sc.fits, fit_and_publish(g) PROVE FitInv'
  <2> DEFINE x == [ty |-> "vol_surface", val |-> Surface(g)]
  <2>1. /\ now' = now + 1 /\ cache' = cache /\ surf' = surf
        /\ ring' = Append(ring, x) \/ ring' = ring
    BY <1>7 DEF fit_and_publish, Written, Dropped, trader
  <2>2. KnownFits' \subseteq KnownFits \union {FitOf(Surface(g))}
    <3>1. x.ty = "vol_surface" /\ x.val = Surface(g)
      OBVIOUS
    <3> HIDE DEF x
    <3> QED
      BY <2>1, <3>1, RingGrowsBy
  <2>3. FitOf(Surface(g))[1] = now + 1
    BY SurfaceOK DEF FitOf, DataInv
  <2>4. \A p \in KnownFits : p[1] \in Int /\ p[1] <= now
    BY KnownFitsOK DEF FitInv
  <2>5. ASSUME NEW p \in KnownFits', NEW q \in KnownFits'
        PROVE  p[1] <= now' /\ (p[1] = q[1] => p[2] = q[2])
    <3>1. p \in KnownFits \/ p = FitOf(Surface(g))
      BY <2>2
    <3>2. q \in KnownFits \/ q = FitOf(Surface(g))
      BY <2>2
    <3> HIDE DEF KnownFits, FitOf, Surface
    <3>3. p[1] <= now'
      BY <1>0, <2>1, <2>3, <2>4, <3>1
    <3>4. CASE p \in KnownFits /\ q \in KnownFits
      BY <3>3, <3>4 DEF FitInv
    <3>5. CASE p = FitOf(Surface(g)) /\ q = FitOf(Surface(g))
      BY <3>3, <3>5
    <3>6. CASE p \in KnownFits /\ q = FitOf(Surface(g))
      BY <1>0, <2>3, <2>4, <3>3, <3>6
    <3>7. CASE p = FitOf(Surface(g)) /\ q \in KnownFits
      BY <1>0, <2>3, <2>4, <3>3, <3>7
    <3> QED
      BY <3>1, <3>2, <3>4, <3>5, <3>6, <3>7
  <2> QED
    BY <2>5 DEF FitInv
<1>8. ASSUME HandleTick PROVE FitInv'
  <2>1. ring # <<>> /\ ring' = Tail(ring) /\ surf' = surf /\ now' = now
    BY <1>8 DEF HandleTick, Take, on_tick
  <2>2. cache' = cache \/ (surf # <<>> /\ cache' = CacheAfter)
    BY <1>8, TickEffect DEF HandleTick, on_tick
  <2>3. cache' \subseteq cache \union {FitOf(surf[i]) : i \in DOMAIN surf}
    <3>1. CASE surf # <<>> /\ cache' = CacheAfter
      <4>1. 1 \in DOMAIN surf
        BY <3>1 DEF DataInv, TraderData
      <4>2. cache' \subseteq cache \union {FitOf(surf[1])}
        BY <3>1 DEF CacheAfter, Fit, FitOf
      <4> QED
        BY <4>1, <4>2
    <3> QED
      BY <2>2, <3>1
  <2>4. KnownFits' \subseteq KnownFits
    BY <2>1, <2>3, RingShrinks DEF KnownFits
  <2> QED
    BY <1>0, <2>1, <2>4, FitInvKept
<1>9. ASSUME HandleState PROVE FitInv'
  <2>1. ring # <<>> /\ ring' = Tail(ring) /\ cache' = cache /\ now' = now
    BY <1>9 DEF HandleState, Take
  <2>2. \/ surf' = surf
        \/ ring[1].ty = "vol_surface" /\ surf' = <<ring[1].val>>
    BY <1>9 DEF HandleState, Take
  <2>3. {FitOf(surf'[i]) : i \in DOMAIN surf'} \subseteq KnownFits
    <3>1. CASE surf' = surf
      BY <3>1 DEF KnownFits
    <3>2. CASE ring[1].ty = "vol_surface" /\ surf' = <<ring[1].val>>
      <4>1. 1 \in SurfIn(ring)
        BY <2>1, <3>2 DEF SurfIn, DataInv
      <4>2. \A i \in DOMAIN surf' : FitOf(surf'[i]) = FitOf(ring[1].val)
        BY <3>2
      <4> QED
        BY <4>1, <4>2 DEF KnownFits
    <3> QED
      BY <2>2, <3>1, <3>2
  <2>4. KnownFits' \subseteq KnownFits
    BY <2>1, <2>3, RingShrinks DEF KnownFits
  <2> QED
    BY <1>0, <2>1, <2>4, FitInvKept
<1>10. ASSUME BrokerRestart PROVE FitInv'
  <2>1. now' = now /\ cache' = cache /\ surf' = surf /\ SurfIn(ring') = {}
    BY <1>10 DEF BrokerRestart, trader, SurfIn
  <2>2. KnownFits' \subseteq KnownFits
    BY <2>1 DEF KnownFits
  <2> QED
    BY <1>0, <2>1, <2>2, FitInvKept
<1>11. ASSUME TraderRestart PROVE FitInv'
  <2>1. now' = now /\ ring' = ring /\ cache' = {} /\ DOMAIN surf' = {}
    BY <1>11 DEF TraderRestart
  <2>2. KnownFits' \subseteq KnownFits
    BY <2>1 DEF KnownFits
  <2> QED
    BY <1>0, <2>1, <2>2, FitInvKept
<1> QED
  BY <1>2, <1>3, <1>4, <1>5, <1>6, <1>7, <1>8, <1>9, <1>10, <1>11 DEF Next

LEMMA FitInvHolds == Spec => []FitInv
<1>1. Init => FitInv
  <2> SUFFICES ASSUME Init PROVE FitInv
    OBVIOUS
  <2>1. now \in Nat /\ SurfIn(ring) = {}
    BY TickPathAssumption DEF Init, SurfIn
  <2>2. CASE Cold
    BY <2>1, <2>2 DEF Cold, FitInv, KnownFits
  <2>3. ASSUME NEW w, Warm(w) PROVE FitInv
    <3>1. cache = {} /\ surf = <<surf[1]>> /\ surf[1].fit_ts_ns = now
      BY <2>3 DEF Warm
    <3>2. KnownFits \subseteq {FitOf(surf[1])}
      BY <2>1, <3>1 DEF KnownFits
    <3> QED
      BY <2>1, <3>1, <3>2 DEF FitInv, FitOf
  <2> QED
    BY <2>2, <2>3 DEF Init
<1> QED
  BY <1>1, FitInvInductive, DataInvHolds, PTL DEF Spec

\* What the cache answers for the fit in force is what that fit says.
LEMMA GreeksOfFit ==
    ASSUME DataInv, FitInv, surf # <<>>
    PROVE  Greeks = Fit.greeks /\ Greeks \in GreekValues /\ SpotOK
<1>1. 1 \in DOMAIN surf /\ surf[1] \in Surfs /\ spot \in Int
  BY DEF DataInv, TraderData
<1>2. FitOf(surf[1]) \in KnownFits
  BY <1>1 DEF KnownFits
<1>3. ASSUME NEW g \in Cached PROVE g = Fit.greeks
  <2>1. PICK c \in cache : c[1] = surf[1].fit_ts_ns /\ c[2] = g
    BY DEF Cached
  <2>2. c \in KnownFits
    BY DEF KnownFits
  <2> QED
    BY <1>2, <2>1, <2>2 DEF FitInv, FitOf, Fit
<1>4. Greeks = Fit.greeks
  <2>1. CASE Cached = {}
    BY <2>1 DEF Greeks
  <2>2. CASE Cached # {}
    <3>1. Greeks \in Cached
      BY <2>2 DEF Greeks
    <3> QED
      BY <1>3, <3>1
  <2> QED
    BY <2>1, <2>2
<1> QED
  BY <1>1, <1>4 DEF Surfs, FitValues, Fit, SpotOK

-----------------------------------------------------------------------------
(* What holds of every order when it is sent.                              *)

\* Only a tick sends.
LEMMA OnlyTicksSend ==
    ASSUME Next, ~HandleTick
    PROVE  last' = {}
BY DEF Next, RouteTick, RouteUnderlying, install_tick_fastpath, pump_ticks,
       fit_and_publish, Announce, HandleState, OrderEvent, Elapse, BrokerRestart,
       TraderRestart

\* What a tick sends comes from a target of the merged tick, in the state the
\* tick found.
LEMMA SentByTick ==
    ASSUME DataInv, FitInv, HandleTick, NEW q \in last'
    PROVE  \E m :
             /\ TickOK(m) /\ options' = [f \in Field |-> m[f]]
             /\ q.side \in Sides /\ q.price \in Targets(q.side, m)
             /\ surf # <<>> /\ ~BlockAll
             /\ spot' = spot /\ surf' = surf /\ risk' = risk /\ now' = now
<1> DEFINE m == Merged(decode_tick(ring[1].val))
<1>1. ring[1].ty = "tick" /\ ring[1] \in Frames /\ on_tick(ring[1].val) /\ now' = now
  BY DEF HandleTick, Take, DataInv
<1>2. TickOK(m)
  BY <1>1, FrameOfType, MergedOK DEF DataInv, TraderData
<1>3. options' = [f \in Field |-> m[f]] /\ spot' = spot /\ surf' = surf /\ risk' = risk
  BY <1>1 DEF on_tick
<1>4. PICK written : decide_on_tick(m, written)
  BY <1>1 DEF on_tick
<1> HIDE DEF m
<1>5. surf # <<>> /\ ~BlockAll /\ Quote(m, written)
  BY <1>4, TickEffect
<1>6. PICK o \in Outcomes(m) : last' = IF written THEN o.sends ELSE {}
  BY <1>5 DEF Quote
<1>7. q \in o.sends
  BY <1>6
<1>8. q.side \in Sides /\ q.price \in Targets(q.side, m)
  BY <1>7, SentAtTarget
<1> QED
  BY <1>1, <1>2, <1>3, <1>5, <1>8

\* The edge to theo, for every configuration of the trader and every history:
\* the cached greeks are those of the fit in force.
THEOREM EdgeToTheoAlways == Spec => []EdgeToTheo
<1>1. Init => EdgeToTheo
  BY DEF Init, EdgeToTheo
<1>2. DataInv /\ FitInv /\ EdgeToTheo /\ [Next]_vars => EdgeToTheo'
  <2> SUFFICES ASSUME DataInv, FitInv, EdgeToTheo, [Next]_vars PROVE EdgeToTheo'
    OBVIOUS
  <2>1. CASE HandleTick
    <3> SUFFICES ASSUME NEW q \in last'
                 PROVE  2 * Signed(q.side) * (Theo(Fit.greeks)' - q.price) >= 2 * Edge - TickSize
      BY DEF EdgeToTheo
    <3>1. PICK m :
             /\ TickOK(m)
             /\ q.side \in Sides /\ q.price \in Targets(q.side, m)
             /\ surf # <<>> /\ spot' = spot /\ surf' = surf
      BY <2>1, SentByTick
    <3>2. Greeks = Fit.greeks /\ GreeksOK(Greeks) /\ SpotOK
      BY <3>1, GreeksOfFit DEF GreeksOK
    <3>3. 2 * Signed(q.side) * (Theo(Greeks) - q.price) >= 2 * Edge - TickSize
      BY <3>1, <3>2, TargetEdge
    <3>4. Theo(Fit.greeks)' = Theo(Fit.greeks)
      BY <3>1 DEF Theo, Fit
    <3> QED
      BY <3>2, <3>3, <3>4
  <2>2. CASE Next /\ ~HandleTick
    BY <2>2, OnlyTicksSend DEF EdgeToTheo
  <2>3. CASE UNCHANGED vars
    BY <2>3 DEF vars, trader, EdgeToTheo, Theo, Fit
  <2> QED
    BY <2>1, <2>2, <2>3
<1> QED
  BY <1>1, <1>2, DataInvHolds, FitInvHolds, PTL DEF Spec

\* The edge to the market, however wrong theo is.
THEOREM EdgeToMarketAlways == Spec => []EdgeToMarket
<1>1. Init => EdgeToMarket
  BY DEF Init, EdgeToMarket
<1>2. DataInv /\ FitInv /\ EdgeToMarket /\ [Next]_vars => EdgeToMarket'
  <2> SUFFICES ASSUME DataInv, FitInv, EdgeToMarket, [Next]_vars PROVE EdgeToMarket'
    OBVIOUS
  <2>1. CASE HandleTick
    <3> SUFFICES ASSUME NEW q \in last'
                 PROVE  /\ 2 * Signed(q.side) * (Middle' - q.price) >= 2 * Edge - TickSize
                        /\ options'.bid <= options'.ask =>
                             IF q.side = "B" THEN q.price < options'.ask
                                             ELSE q.price > options'.bid
      BY DEF EdgeToMarket
    <3>1. PICK m :
             /\ TickOK(m) /\ options' = [f \in Field |-> m[f]]
             /\ q.side \in Sides /\ q.price \in Targets(q.side, m)
             /\ surf # <<>>
      BY <2>1, SentByTick
    <3>2. GreeksOK(Greeks) /\ SpotOK
      BY <3>1, GreeksOfFit DEF GreeksOK
    <3>3. options'.bid = m.bid /\ options'.ask = m.ask /\ m.bid \in Int /\ m.ask \in Int
      BY <3>1 DEF TickOK, Field
    <3>4. q.price \in Int /\
            2 * Signed(q.side) * ((m.bid + m.ask) \div 2 - q.price) >= 2 * Edge - TickSize
      BY <3>1, <3>2, TargetEdge
    <3>5. 2 * Signed(q.side) * (Middle' - q.price) >= 2 * Edge - TickSize
      BY <3>3, <3>4 DEF Middle
    <3>6. ASSUME m.bid <= m.ask
          PROVE  IF q.side = "B" THEN q.price < m.ask ELSE q.price > m.bid
      <4> DEFINE mid == (m.bid + m.ask) \div 2
      <4>1. mid \in Int /\ m.bid <= mid /\ mid <= m.ask
        BY <3>3, <3>6
      <4>2. 2 * Signed(q.side) * (mid - q.price) >= 2 * Edge - TickSize
        BY <3>4
      <4> HIDE DEF mid
      <4>3. CASE q.side = "B"
        <5>1. 2 * (mid - q.price) >= 2 * Edge - TickSize
          BY <3>4, <4>1, <4>2, <4>3 DEF Signed
        <5> QED
          BY <3>3, <3>4, <4>1, <4>3, <5>1, EdgeOneTick
      <4>4. CASE q.side = "S"
        <5>1. 2 * (q.price - mid) >= 2 * Edge - TickSize
          BY <3>4, <4>1, <4>2, <4>4 DEF Signed
        <5> QED
          BY <3>3, <3>4, <4>1, <4>4, <5>1, EdgeOneTick
      <4> QED
        BY <3>1, <4>3, <4>4 DEF Sides
    <3> QED
      BY <3>3, <3>5, <3>6
  <2>2. CASE Next /\ ~HandleTick
    BY <2>2, OnlyTicksSend DEF EdgeToMarket
  <2>3. CASE UNCHANGED vars
    BY <2>3 DEF vars, trader, EdgeToMarket, Middle
  <2> QED
    BY <2>1, <2>2, <2>3
<1> QED
  BY <1>1, <1>2, DataInvHolds, FitInvHolds, PTL DEF Spec

\* No order under a stale or blocking risk state, and none that worsens a
\* breach of theta or of delta.
THEOREM BreachNeverWorsenedAlways == Spec => []BreachNeverWorsened
<1>1. Init => BreachNeverWorsened
  BY DEF Init, BreachNeverWorsened
<1>2. DataInv /\ FitInv /\ BreachNeverWorsened /\ [Next]_vars => BreachNeverWorsened'
  <2> SUFFICES ASSUME DataInv, FitInv, BreachNeverWorsened, [Next]_vars
               PROVE  BreachNeverWorsened'
    OBVIOUS
  <2>1. CASE HandleTick
    <3> DEFINE rt == risk[1].theta
               rd == risk[1].delta
               theta(s) == rt + Signed(s) * Fit.greeks.theta
               delta(s) == 2 * rd + Signed(s) * Fit.greeks.delta
    <3>1. ASSUME NEW q \in last'
          PROVE  /\ surf' = surf /\ risk' = risk /\ now' = now
                 /\ now - risk[1].at <= RiskStale /\ ~risk[1].over
                 /\ ThetaKill < 0 /\ rt < ThetaKill => theta(q.side) > rt
                 /\ Abs(rd) > DeltaCeiling => Abs(delta(q.side)) <= Abs(2 * rd)
      <4>1. PICK m :
               /\ TickOK(m)
               /\ q.side \in Sides /\ q.price \in Targets(q.side, m)
               /\ surf # <<>> /\ ~BlockAll
               /\ surf' = surf /\ risk' = risk /\ now' = now
        BY <2>1, <3>1, SentByTick
      <4>2. Greeks = Fit.greeks /\ GreeksOK(Greeks) /\ SpotOK
        BY <4>1, GreeksOfFit DEF GreeksOK
      <4>3. improving_passes(q.side, Fit.greeks)
        BY <4>1, <4>2, TargetEdge
      <4>4. /\ risk # <<>> /\ now - risk[1].at <= RiskStale /\ ~risk[1].over
            /\ risk[1] \in Risks /\ DeltaCeiling \in Nat /\ ThetaKill \in Int
        <5>1. risk # <<>> /\ ~(now - risk[1].at > RiskStale) /\ ~risk[1].over
          BY <4>1 DEF BlockAll
        <5>2. risk[1] \in Risks
          BY <5>1 DEF DataInv, TraderData
        <5>3. RiskStale \in Int /\ DeltaCeiling \in Nat /\ ThetaKill \in Int
          BY TickPathAssumption
        <5>4. risk[1].at \in Int /\ now \in Int
          BY <5>2 DEF Risks, DataInv, BrokerData
        <5> QED
          BY <5>1, <5>2, <5>3, <5>4
      <4>5. rt \in Int /\ rd \in Int
        BY <4>4 DEF Risks
      <4>6. Fit.greeks.theta \in Int /\ Fit.greeks.delta \in -2 .. 2
        BY <4>2 DEF GreeksOK, GreekValues
      <4>7. ThetaKill < 0 /\ rt < ThetaKill => theta(q.side) > rt
        <5>1. CASE q.side = "B"
          BY <4>3, <4>5, <4>6, <5>1 DEF improving_passes, ThetaBreach, Signed
        <5>2. CASE q.side = "S"
          BY <4>3, <4>5, <4>6, <5>2 DEF improving_passes, ThetaBreach, Signed
        <5> QED
          BY <4>1, <5>1, <5>2 DEF Sides
      <4>8. ASSUME Abs(rd) > DeltaCeiling PROVE Abs(delta(q.side)) <= Abs(2 * rd)
        <5> DEFINE d == Signed(q.side) * Fit.greeks.delta
        <5>1. d \in -2 .. 2 /\ DeltaBreachDir * Signed(q.side) * Fit.greeks.delta <= 0
          <6>1. CASE q.side = "B"
            BY <4>3, <4>6, <6>1 DEF Signed, improving_passes
          <6>2. CASE q.side = "S"
            BY <4>3, <4>6, <6>2 DEF Signed, improving_passes
          <6> QED
            BY <4>1, <6>1, <6>2 DEF Sides
        <5>2. CASE rd > DeltaCeiling
          <6>1. DeltaBreachDir = 1
            BY <4>4, <4>5, <5>2 DEF DeltaBreachDir
          <6>2. d <= 0
            BY <5>1, <6>1, <4>6 DEF Signed
          <6> HIDE DEF d
          <6>3. 2 * rd + d >= 0 /\ 2 * rd + d <= 2 * rd
            BY <4>4, <4>5, <5>1, <5>2, <6>2
          <6> QED
            BY <4>4, <4>5, <5>1, <5>2, <6>3 DEF Abs, d
        <5>3. CASE rd < -DeltaCeiling
          <6>1. DeltaBreachDir = -1
            BY <4>4, <4>5, <5>3 DEF DeltaBreachDir
          <6>2. d >= 0
            BY <5>1, <6>1, <4>6 DEF Signed
          <6> HIDE DEF d
          <6>3. 2 * rd + d <= 0 /\ 2 * rd + d >= 2 * rd
            BY <4>4, <4>5, <5>1, <5>3, <6>2
          <6> QED
            BY <4>4, <4>5, <5>1, <5>3, <6>3 DEF Abs, d
        <5> QED
          BY <4>4, <4>5, <4>8, <5>2, <5>3 DEF Abs
      <4> QED
        BY <4>1, <4>4, <4>7, <4>8
    <3> QED
      BY <3>1 DEF BreachNeverWorsened, Fit
  <2>2. CASE Next /\ ~HandleTick
    BY <2>2, OnlyTicksSend DEF BreachNeverWorsened
  <2>3. CASE UNCHANGED vars
    BY <2>3 DEF vars, trader, BreachNeverWorsened, Fit
  <2> QED
    BY <2>1, <2>2, <2>3
<1> QED
  BY <1>1, <1>2, DataInvHolds, FitInvHolds, PTL DEF Spec

-----------------------------------------------------------------------------
(* The burst limiter.                                                      *)

\* The sends st against the limiter's slots sl: the later slot covers the
\* latest send and the earlier slot the one before it.
SentOK(st, sl) ==
    /\ sl \in Int \X Int /\ sl[1] <= now /\ sl[2] <= now
    /\ st \in Seq(Int) /\ Len(st) <= 3
    /\ \A i \in 1 .. Len(st) : st[i] <= now
    /\ \A i, j \in 1 .. Len(st) : i <= j => st[i] <= st[j]
    /\ Burst > 0 /\ Len(st) >= 1 => st[Len(st)] <= sl[1] \/ st[Len(st)] <= sl[2]
    /\ Burst > 0 /\ Len(st) >= 2 => st[Len(st) - 1] <= sl[1] /\ st[Len(st) - 1] <= sl[2]
    /\ Len(st) >= 3 => st[3] - st[1] >= Burst

SentInv == SentOK(stamps, slots)

\* One more stamp, of which three are kept.
LEMMA LastThreeOne ==
    ASSUME NEW st \in Seq(Int), Len(st) <= 3, now \in Int
    PROVE  /\ LastThree(1, st) \in Seq(Int)
           /\ Len(st) < 3 => /\ Len(LastThree(1, st)) = Len(st) + 1
                             /\ LastThree(1, st)[Len(st) + 1] = now
                             /\ \A i \in 1 .. Len(st) : LastThree(1, st)[i] = st[i]
           /\ Len(st) >= 3 => /\ Len(LastThree(1, st)) = Len(st)
                              /\ LastThree(1, st)[3] = now
                              /\ LastThree(1, st)[1] = st[2] /\ LastThree(1, st)[2] = st[3]
<1> DEFINE one == [i \in 1 .. 1 |-> now]
           all == st \o one
<1>1. one \in Seq(Int) /\ Len(one) = 1 /\ one[1] = now
  OBVIOUS
<1>2. Len(st) \in Nat
  OBVIOUS
<1> HIDE DEF one
<1>3. /\ all \in Seq(Int) /\ Len(all) = Len(st) + 1
      /\ \A i \in 1 .. Len(st) : all[i] = st[i]
      /\ all[Len(st) + 1] = now
  <2>1. /\ all \in Seq(Int) /\ Len(all) = Len(st) + Len(one)
        /\ \A i \in 1 .. Len(st) + Len(one) :
              all[i] = IF i <= Len(st) THEN st[i] ELSE one[i - Len(st)]
    BY <1>1, ConcatProperties
  <2> HIDE DEF all
  <2>2. all[Len(st) + 1] = one[1]
    BY <1>1, <1>2, <2>1
  <2> QED
    BY <1>1, <1>2, <2>1, <2>2
<1>4. LastThree(1, st) = IF Len(all) <= 3 THEN all ELSE SubSeq(all, Len(all) - 2, Len(all))
  BY DEF LastThree, one
<1> HIDE DEF all
<1>5. CASE Len(st) < 3
  BY <1>2, <1>3, <1>4, <1>5
<1>6. CASE Len(st) >= 3
  <2> DEFINE n == Len(all)
             r == SubSeq(all, n - 2, n)
  <2>1. n \in Nat /\ n <= 4 /\ n >= 4
    BY <1>2, <1>3, <1>6
  <2>2. LastThree(1, st) = r
    BY <1>4, <2>1
  <2>3. r \in Seq(Int) /\ Len(r) = n - (n - 2) + 1
        /\ \A i \in 1 .. n - (n - 2) + 1 : r[i] = all[(n - 2) + i - 1]
    BY <1>3, <2>1, SubSeqProperties
  <2>4. all[2] = st[2] /\ all[3] = st[3] /\ all[4] = now
    BY <1>2, <1>3, <1>6
  <2> HIDE DEF n, r
  <2>5. r[1] = st[2] /\ r[2] = st[3] /\ r[3] = now
    BY <2>1, <2>3, <2>4
  <2>6. Len(st) = n - 1
    BY <1>2, <1>3 DEF n
  <2>7. Len(r) = Len(st)
    BY <2>1, <2>3, <2>6
  <2> QED
    BY <1>6, <2>2, <2>3, <2>5, <2>7
<1> QED
  BY <1>2, <1>5, <1>6

\* Two stamps at once are one after the other.
LEMMA LastThreeTwo ==
    ASSUME NEW st \in Seq(Int), Len(st) <= 3, now \in Int
    PROVE  LastThree(2, st) = LastThree(1, LastThree(1, st))
<1> DEFINE two == [i \in 1 .. 2 |-> now]
           all == st \o two
           a == LastThree(1, st)
           r == LastThree(1, a)
           k == Len(st)
<1>1. two \in Seq(Int) /\ Len(two) = 2 /\ two[1] = now /\ two[2] = now
  OBVIOUS
<1>2. k \in Nat /\ k <= 3
  BY LenProperties
<1> HIDE DEF two
<1>3. /\ all \in Seq(Int) /\ Len(all) = k + 2
      /\ \A i \in 1 .. k : all[i] = st[i]
      /\ all[k + 1] = now /\ all[k + 2] = now
  <2>1. /\ all \in Seq(Int) /\ Len(all) = k + Len(two)
        /\ \A i \in 1 .. k + Len(two) :
              all[i] = IF i <= k THEN st[i] ELSE two[i - k]
    BY <1>1, ConcatProperties
  <2> HIDE DEF all, k
  <2>2. all[k + 1] = two[1] /\ all[k + 2] = two[2]
    BY <1>1, <1>2, <2>1
  <2> QED
    BY <1>1, <1>2, <2>1, <2>2
<1>4. LastThree(2, st) = IF Len(all) <= 3 THEN all ELSE SubSeq(all, Len(all) - 2, Len(all))
  BY DEF LastThree, two
<1>5. /\ a \in Seq(Int)
      /\ k < 3 => Len(a) = k + 1 /\ a[k + 1] = now /\ \A i \in 1 .. k : a[i] = st[i]
      /\ k >= 3 => Len(a) = k /\ a[3] = now /\ a[1] = st[2] /\ a[2] = st[3]
  BY LastThreeOne
<1> HIDE DEF all, a, k
<1>6. Len(a) \in Nat /\ Len(a) <= 3
  BY <1>2, <1>5
<1>7. /\ r \in Seq(Int)
      /\ Len(a) < 3 => /\ Len(r) = Len(a) + 1 /\ r[Len(a) + 1] = now
                       /\ \A i \in 1 .. Len(a) : r[i] = a[i]
      /\ Len(a) >= 3 => Len(r) = Len(a) /\ r[3] = now /\ r[1] = a[2] /\ r[2] = a[3]
  BY <1>5, <1>6, LastThreeOne
<1> HIDE DEF r
<1>8. CASE k <= 1
  <2>1. Len(a) = k + 1 /\ Len(a) < 3
    BY <1>2, <1>5, <1>8
  <2>2. Len(r) = k + 2 /\ r[k + 2] = now /\ \A i \in 1 .. k + 1 : r[i] = a[i]
    BY <1>2, <1>7, <2>1
  <2>3. r[k + 1] = now /\ \A i \in 1 .. k : r[i] = st[i]
    BY <1>2, <1>5, <1>8, <2>2
  <2>4. LastThree(2, st) = all
    <3>1. Len(all) <= 3
      BY <1>2, <1>3, <1>8
    <3> QED
      BY <1>4, <3>1
  <2>5. \A i \in 1 .. k + 2 : all[i] = r[i]
    BY <1>2, <1>3, <2>2, <2>3, SMTT(30)
  <2>6. all = r
    BY <1>3, <1>7, <2>2, <2>5, SeqEqual
  <2> QED
    BY <2>4, <2>6 DEF r, a
<1>9. CASE k >= 2
  <2> DEFINE n == Len(all)
             t == SubSeq(all, n - 2, n)
  <2>1. n \in Nat /\ n = k + 2 /\ LastThree(2, st) = t
    BY <1>2, <1>3, <1>4, <1>9
  <2>2. t \in Seq(Int) /\ Len(t) = n - (n - 2) + 1
        /\ \A i \in 1 .. n - (n - 2) + 1 : t[i] = all[(n - 2) + i - 1]
    BY <1>2, <1>3, <1>9, <2>1, SubSeqProperties
  <2> HIDE DEF n, t
  <2>3. Len(t) <= 3 /\ Len(t) >= 3 /\ Len(t) \in Nat
    BY <2>1, <2>2
  <2>4. t[1] = all[k] /\ t[2] = all[k + 1] /\ t[3] = all[k + 2]
    BY <1>2, <2>1, <2>2
  <2>5. t[1] = st[k] /\ t[2] = now /\ t[3] = now
    BY <1>2, <1>3, <1>9, <2>4
  <2>6. Len(a) >= 3 /\ a[3] = now /\ a[2] = st[k]
    <3>1. CASE k < 3
      <4>1. k = 2
        BY <1>2, <1>9, <3>1
      <4>2. k + 1 = 3 /\ k \in 1 .. k /\ 2 \in 1 .. k
        BY <4>1
      <4>3. Len(a) = k + 1 /\ a[k + 1] = now /\ \A i \in 1 .. k : a[i] = st[i]
        BY <1>5, <3>1
      <4>4. Len(a) >= 3
        BY <1>6, <4>2, <4>3
      <4>5. a[3] = now /\ a[2] = st[k]
        BY ONLY <4>1, <4>2, <4>3
      <4> QED
        BY <4>4, <4>5
    <3>2. CASE k >= 3
      <4>1. k = 3
        BY <1>2, <3>2
      <4> QED
        BY <1>5, <3>2, <4>1, Zenon
    <3> QED
      BY <1>2, <3>1, <3>2
  <2>7. Len(r) = Len(a) /\ r[1] = st[k] /\ r[2] = now /\ r[3] = now
    BY <1>7, <2>6
  <2>8. \A i \in 1 .. Len(t) : t[i] = r[i]
    BY <2>3, <2>5, <2>7
  <2>9. Len(t) = Len(r)
    BY <1>6, <2>3, <2>6, <2>7
  <2>10. t = r
    BY <1>7, <2>2, <2>8, <2>9, SeqEqual
  <2> QED
    BY <2>1, <2>10 DEF r, a
<1> QED
  BY <1>2, <1>8, <1>9

\* A send that passed the limiter keeps the slots covering the sends, and a
\* slot taken for a send that did not happen does no harm.
LEMMA PassedKeeps ==
    ASSUME NEW st, NEW sl, NEW sl2, SentOK(st, sl), Passed(sl, sl2), now \in Int
    PROVE  SentOK(LastThree(1, st), sl2) /\ SentOK(st, sl2)
<1> DEFINE r == LastThree(1, st)
           k == Len(st)
<1>0. Burst \in Nat
  BY TickPathAssumption
<1>1. /\ st \in Seq(Int) /\ k \in Nat /\ k <= 3
      /\ \A i \in 1 .. k : st[i] \in Int
  BY DEF SentOK
<1>2. /\ r \in Seq(Int)
      /\ k < 3 => Len(r) = k + 1 /\ r[k + 1] = now /\ \A i \in 1 .. k : r[i] = st[i]
      /\ k >= 3 => Len(r) = k /\ r[3] = now /\ r[1] = st[2] /\ r[2] = st[3]
  BY <1>1, LastThreeOne
<1>3. sl[1] \in Int /\ sl[2] \in Int /\ sl[1] <= now /\ sl[2] <= now /\ sl = <<sl[1], sl[2]>>
  BY DEF SentOK
<1>4. /\ \A i \in 1 .. k : st[i] <= now
      /\ \A i, j \in 1 .. k : i <= j => st[i] <= st[j]
      /\ Burst > 0 /\ k >= 1 => st[k] <= sl[1] \/ st[k] <= sl[2]
      /\ Burst > 0 /\ k >= 2 => st[k - 1] <= sl[1] /\ st[k - 1] <= sl[2]
      /\ k >= 3 => st[3] - st[1] >= Burst
  BY DEF SentOK
<1> HIDE DEF r, k
<1>5. /\ k >= 1 => st[k] \in Int
      /\ k >= 2 => st[k - 1] \in Int /\ st[k - 1] <= now
  BY <1>1, <1>4
<1>6. CASE Burst > 0
  <2> DEFINE lo == IF sl[1] <= sl[2] THEN sl[1] ELSE sl[2]
             hi == IF sl[1] <= sl[2] THEN sl[2] ELSE sl[1]
  <2>1. /\ sl2 \in Int \X Int /\ sl2[1] <= now /\ sl2[2] <= now
        /\ \/ sl2[1] = now /\ sl2[2] = hi
           \/ sl2[1] = hi /\ sl2[2] = now
    BY <1>3, <1>6 DEF Passed, Consume
  <2>2. now - lo >= Burst
    BY <1>0, <1>3, <1>6 DEF Passed, AtCap
  <2>3. /\ lo \in Int /\ hi \in Int /\ lo <= hi /\ hi <= now
        /\ k >= 1 => st[k] <= hi
        /\ k >= 2 => st[k - 1] <= lo
    BY <1>3, <1>4, <1>6, <1>5
  <2> HIDE DEF lo, hi
  <2>4. SentOK(st, sl2)
    <3>1. k >= 1 => st[k] <= sl2[1] \/ st[k] <= sl2[2]
      BY <2>1, <2>3
    <3>2. k >= 2 => st[k - 1] <= sl2[1] /\ st[k - 1] <= sl2[2]
      BY <1>5, <2>1, <2>3
    <3> QED
      BY <1>1, <1>4, <2>1, <3>1, <3>2 DEF SentOK, k
  <2>5. CASE k < 3
    <3>1. Len(r) = k + 1 /\ r[k + 1] = now /\ \A i \in 1 .. k : r[i] = st[i]
      BY <1>2, <2>5
    <3>2. \A i \in 1 .. k + 1 : r[i] <= now
      BY <1>1, <1>4, <3>1
    <3>3. \A i, j \in 1 .. k + 1 : i <= j => r[i] <= r[j]
      BY <1>1, <1>4, <3>1
    <3>4. k + 1 >= 2 => r[k] <= sl2[1] /\ r[k] <= sl2[2]
      BY <1>1, <2>1, <2>3, <3>1
    <3>5. k + 1 >= 3 => r[3] - r[1] >= Burst
      <4>1. CASE k = 2
        <5>1. r[3] = now /\ r[1] = st[1] /\ st[1] \in Int /\ st[1] <= lo
          BY <1>1, <2>3, <3>1, <4>1
        <5> QED
          BY <1>0, <2>2, <2>3, <5>1
      <4> QED
        BY <1>1, <2>5, <4>1
    <3>6. /\ k + 1 >= 1 => r[k + 1] <= sl2[1] \/ r[k + 1] <= sl2[2]
          /\ k + 1 - 1 = k
      BY <1>1, <2>1, <3>1
    <3> DEFINE n == Len(r)
    <3>7. n = k + 1 /\ n \in Nat /\ n <= 3
      BY <1>1, <2>5, <3>1
    <3> HIDE DEF n
    <3>8. /\ \A i \in 1 .. n : r[i] <= now
          /\ \A i, j \in 1 .. n : i <= j => r[i] <= r[j]
          /\ n >= 1 => r[n] <= sl2[1] \/ r[n] <= sl2[2]
          /\ n >= 2 => r[n - 1] <= sl2[1] /\ r[n - 1] <= sl2[2]
          /\ n >= 3 => r[3] - r[1] >= Burst
      <4>1. n - 1 = k
        BY <1>1, <3>7
      <4> QED
        BY ONLY <3>2, <3>3, <3>4, <3>5, <3>6, <3>7, <4>1
    <3> QED
      BY <1>2, <2>1, <2>4, <3>7, <3>8 DEF SentOK, n, r
  <2>6. CASE k >= 3
    <3>1. k = 3
      BY <1>1, <2>6
    <3>2. Len(r) = k /\ r[3] = now /\ r[1] = st[2] /\ r[2] = st[3]
      BY <1>2, <2>6
    <3>3. st[2] \in Int /\ st[3] \in Int /\ st[2] <= st[3] /\ st[3] <= now
          /\ st[2] <= lo /\ st[3] <= hi
      BY <1>1, <1>4, <2>3, <3>1
    <3> DEFINE n == Len(r)
    <3>4. n = k
      BY <3>2
    <3> HIDE DEF n
    <3>5. /\ \A i \in 1 .. n : r[i] <= now
          /\ \A i, j \in 1 .. n : i <= j => r[i] <= r[j]
      BY <3>1, <3>2, <3>3, <3>4
    <3>6. /\ n >= 1 => r[n] <= sl2[1] \/ r[n] <= sl2[2]
          /\ n >= 2 => r[n - 1] <= sl2[1] /\ r[n - 1] <= sl2[2]
          /\ n >= 3 => r[3] - r[1] >= Burst
      BY <1>0, <2>1, <2>2, <2>3, <3>1, <3>2, <3>3, <3>4
    <3> QED
      BY <1>1, <1>2, <2>1, <2>4, <3>4, <3>5, <3>6 DEF SentOK, n, r
  <2> QED
    BY <1>1, <2>5, <2>6
<1>7. CASE Burst = 0
  <2>1. sl2 = sl /\ SentOK(st, sl2)
    BY <1>7 DEF Passed
  <2> DEFINE n == Len(r)
  <2>2. n \in Nat /\ n <= 3
    BY <1>1, <1>2
  <2>3. /\ \A i \in 1 .. n : r[i] \in Int /\ r[i] <= now
        /\ \A i, j \in 1 .. n : i <= j => r[i] <= r[j]
    <3>1. CASE k < 3
      BY <1>1, <1>2, <1>4, <3>1
    <3>2. CASE k >= 3
      <4>1. k = 3
        BY <1>1, <3>2
      <4>2. n = k /\ r[3] = now /\ r[1] = st[2] /\ r[2] = st[3]
        BY <1>2, <3>2
      <4>3. st[2] \in Int /\ st[3] \in Int /\ st[2] <= st[3] /\ st[3] <= now
        BY <1>1, <1>4, <4>1
      <4> HIDE DEF n
      <4> QED
        BY <4>1, <4>2, <4>3
    <3> QED
      BY <1>1, <3>1, <3>2
  <2> HIDE DEF n
  <2>4. n >= 3 => r[3] - r[1] >= Burst
    BY <1>7, <2>2, <2>3
  <2> QED
    BY <1>2, <1>3, <1>7, <2>1, <2>2, <2>3, <2>4 DEF SentOK, n, r
<1> QED
  BY <1>0, <1>6, <1>7

LEMMA LastThreeNone ==
    ASSUME NEW st \in Seq(Int), Len(st) <= 3
    PROVE  LastThree(0, st) = st
<1>1. [i \in 1 .. 0 |-> now] = <<>>
  OBVIOUS
<1>2. st \o [i \in 1 .. 0 |-> now] = st
  BY <1>1, ConcatEmptySeq
<1> QED
  BY <1>2 DEF LastThree

\* Whatever a tick sends, on the commands ring or in vain.
LEMMA TickSends ==
    ASSUME SentInv, now \in Int, NEW m, NEW o \in Outcomes(m)
    PROVE  /\ SentOK(LastThree(Cardinality(o.sends), stamps), o.slots)
           /\ SentOK(stamps, o.slots)
<1>1. SentOK(stamps, slots) /\ stamps \in Seq(Int) /\ Len(stamps) <= 3
  BY DEF SentInv, SentOK
<1>2. CASE o.sends = {} /\ o.slots = slots
  <2>1. Cardinality(o.sends) = 0
    BY <1>2, FS_EmptySet
  <2> QED
    BY <1>1, <1>2, <2>1, LastThreeNone
<1>3. ASSUME NEW r, o.sends = {r}, Passed(slots, o.slots)
      PROVE  /\ SentOK(LastThree(Cardinality(o.sends), stamps), o.slots)
             /\ SentOK(stamps, o.slots)
  <2>1. Cardinality(o.sends) = 1
    BY <1>3, FS_Singleton
  <2> QED
    BY <1>1, <1>3, <2>1, PassedKeeps
<1>4. ASSUME NEW r1, NEW r2, NEW sl, Order("B", m, r1), Order("S", m, r2),
             o.sends = {r1, r2}, Passed(slots, sl), Passed(sl, o.slots)
      PROVE  /\ SentOK(LastThree(Cardinality(o.sends), stamps), o.slots)
             /\ SentOK(stamps, o.slots)
  <2>1. r1 # r2
    <3>1. r1.side = "B" /\ r2.side = "S"
      BY <1>4 DEF Order
    <3> QED
      BY <3>1
  <2>2. Cardinality(o.sends) = 2
    <3>1. IsFiniteSet({r1}) /\ Cardinality({r1}) = 1
      BY FS_Singleton
    <3>2. Cardinality({r1} \union {r2}) = 2
      BY <2>1, <3>1, FS_AddElement
    <3>3. o.sends = {r1} \union {r2}
      BY <1>4
    <3> QED
      BY <3>2, <3>3
  <2>3. SentOK(LastThree(1, stamps), sl) /\ SentOK(stamps, sl)
    BY <1>1, <1>4, PassedKeeps
  <2>4. SentOK(LastThree(1, LastThree(1, stamps)), o.slots) /\ SentOK(stamps, o.slots)
    BY <1>4, <2>3, PassedKeeps
  <2> QED
    BY <1>1, <2>2, <2>4, LastThreeTwo
<1> QED
  BY <1>2, <1>3, <1>4, OutcomeShape

LEMMA SentInvInductive == DataInv /\ DataInv' /\ SentInv /\ [Next]_vars => SentInv'
<1> SUFFICES ASSUME DataInv, DataInv', SentInv, [Next]_vars PROVE SentInv'
  OBVIOUS
<1>0. now \in Nat /\ now' \in Nat
  BY DEF DataInv, BrokerData
<1>1. ASSUME stamps' = stamps, slots' = slots, now' >= now PROVE SentInv'
  BY <1>0, <1>1 DEF SentInv, SentOK
<1>2. ASSUME NEW f, NEW v, RouteTick(f, v) PROVE SentInv'
  BY <1>0, <1>1, <1>2 DEF RouteTick, trader
<1>3. ASSUME NEW p, RouteUnderlying(p) PROVE SentInv'
  BY <1>0, <1>1, <1>3 DEF RouteUnderlying, trader, history
<1>4. ASSUME NEW b, NEW ty, NEW val, Announce(b, ty, val) PROVE SentInv'
  BY <1>0, <1>1, <1>4 DEF Announce, trader, history
<1>5. ASSUME \/ install_tick_fastpath \/ pump_ticks \/ UNCHANGED vars \/ HandleState
             \/ BrokerRestart \/ (\E s \in Sides : OrderEvent(s))
      PROVE  SentInv'
  <2>1. stamps' = stamps /\ slots' = slots /\ now' = now
    BY <1>5 DEF install_tick_fastpath, pump_ticks, HandleState, BrokerRestart,
                OrderEvent, vars, trader, history
  <2> QED
    BY <1>0, <1>1, <2>1
<1>6. ASSUME NEW d \in sc.steps, Elapse(d) PROVE SentInv'
  <2>1. stamps' = stamps /\ slots' = slots /\ now' >= now
    BY <1>0, <1>6, ScenarioValues DEF Elapse, trader, history, DataInv, BrokerData
  <2> QED
    BY <1>1, <2>1
<1>7. ASSUME NEW g, fit_and_publish(g) PROVE SentInv'
  BY <1>0, <1>1, <1>7 DEF fit_and_publish, trader, history
<1>8. ASSUME HandleTick PROVE SentInv'
  <2> DEFINE m == Merged(decode_tick(ring[1].val))
  <2>1. now' = now /\ \E written : decide_on_tick(m, written)
    BY <1>8 DEF HandleTick, on_tick
  <2>2. PICK written : decide_on_tick(m, written)
    BY <2>1
  <2> HIDE DEF m
  <2>3. CASE slots' = slots /\ stamps' = stamps
    BY <1>0, <1>1, <2>1, <2>3
  <2>4. CASE Quote(m, written)
    <3>1. PICK o \in Outcomes(m) :
             /\ slots' = o.slots
             /\ stamps' = IF written THEN LastThree(Cardinality(o.sends), stamps) ELSE stamps
      BY <2>4 DEF Quote
    <3>2. SentOK(stamps', slots')
      BY <1>0, <3>1, TickSends
    <3> QED
      BY <2>1, <3>2 DEF SentInv, SentOK
  <2> QED
    BY <2>2, <2>3, <2>4, TickEffect
<1>9. ASSUME TraderRestart PROVE SentInv'
  <2>1. stamps' = <<>> /\ slots' = <<0, 0>>
    BY <1>9 DEF TraderRestart
  <2> QED
    BY <1>0, <2>1 DEF SentInv, SentOK
<1> QED
  BY <1>2, <1>3, <1>4, <1>5, <1>6, <1>7, <1>8, <1>9 DEF Next

\* The burst cap, for every window and every sequence of ticks: what the two
\* slots remember is enough.
THEOREM BurstCapAlways == Spec => []BurstCap
<1>1. Init => SentInv
  <2> SUFFICES ASSUME Init PROVE SentInv
    OBVIOUS
  <2>1. stamps = <<>> /\ slots = <<0, 0>> /\ now \in Nat
    BY TickPathAssumption DEF Init, Cold, Warm
  <2> QED
    BY <2>1 DEF SentInv, SentOK
<1>2. SentInv => BurstCap
  BY DEF SentInv, SentOK, BurstCap
<1> QED
  BY <1>1, <1>2, SentInvInductive, DataInvHolds, PTL DEF Spec

-----------------------------------------------------------------------------
(* The feed.                                                               *)

\* The publisher holds what IBKR streamed of every field it was given, the
\* newest tick frame on the ring says the same if it was not lost, and the
\* trader does once there is none.
NewestTick(i) ==
    ring[i].ty = "tick" /\ \A j \in DOMAIN ring : j > i => ring[j].ty # "tick"

FeedInv ==
    /\ routed \subseteq Field
    /\ ~fast => routed = {}
    /\ routed # {} => entry # <<>>
    /\ \A f \in routed : entry[1][f] = book[f] /\ book[f] >= 0
    /\ fresh => \A f \in routed : \A i \in DOMAIN ring :
                   NewestTick(i) => ring[i].val[f] = book[f]
    /\ FeedFollowed

LEMMA FeedInvInductive == DataInv /\ FeedInv /\ [Next]_vars => FeedInv'
<1> SUFFICES ASSUME DataInv, FeedInv, [Next]_vars PROVE FeedInv'
  OBVIOUS
<1>0. /\ ring \in Seq(Frames) /\ Len(ring) \in Nat /\ DOMAIN ring = 1 .. Len(ring)
      /\ book \in [Field -> Int] /\ sc \in Scenarios
  BY DEF DataInv, BrokerData
\* A frame that is not a tick, or none, is published.
<1>1. ASSUME UNCHANGED <<book, entry, options, routed, fresh>>, fast => fast',
             NEW x, x.ty # "tick", ring' = Append(ring, x) \/ ring' = ring
      PROVE  FeedInv'
  <2>1. CASE ring' = ring
    BY <1>1, <2>1 DEF FeedInv, FeedFollowed, NewestTick
  <2>2. CASE ring' = Append(ring, x)
    <3>1. /\ DOMAIN ring' = 1 .. Len(ring) + 1
          /\ \A i \in DOMAIN ring : ring'[i] = ring[i]
          /\ ring'[Len(ring) + 1] = x
      BY <1>0, <2>2
    <3>2. ASSUME NEW i \in DOMAIN ring', NewestTick(i)'
          PROVE  i \in DOMAIN ring /\ NewestTick(i)
      <4>1. i # Len(ring) + 1
        BY <1>1, <3>1, <3>2 DEF NewestTick
      <4> QED
        BY <1>0, <3>1, <3>2, <4>1 DEF NewestTick
    <3>3. (\A i \in DOMAIN ring' : ring'[i].ty # "tick") => \A i \in DOMAIN ring : ring[i].ty # "tick"
      BY <1>0, <3>1
    <3>4. FeedFollowed'
      BY <1>1, <3>3 DEF FeedInv, FeedFollowed
    <3>5. fresh' => \A f \in routed' : \A i \in DOMAIN ring' :
                       NewestTick(i)' => ring'[i].val[f] = book'[f]
      BY <1>1, <3>1, <3>2 DEF FeedInv
    <3> QED
      BY <1>1, <3>4, <3>5 DEF FeedInv
  <2> QED
    BY <1>1, <2>1, <2>2
\* A frame that is not a tick is taken.
<1>2. ASSUME UNCHANGED <<book, entry, options, routed, fresh, fast>>,
             ring # <<>>, ring[1].ty # "tick", ring' = Tail(ring)
      PROVE  FeedInv'
  <2>1. /\ DOMAIN ring' = 1 .. Len(ring) - 1
        /\ \A i \in DOMAIN ring' : i + 1 \in DOMAIN ring /\ ring'[i] = ring[i + 1]
    BY <1>0, <1>2
  <2>2. ASSUME NEW j \in DOMAIN ring, j # 1
        PROVE  j - 1 \in DOMAIN ring' /\ ring'[j - 1] = ring[j]
    BY <1>0, <2>1, <2>2
  <2>3. ASSUME NEW i \in DOMAIN ring', NewestTick(i)' PROVE NewestTick(i + 1)
    <3>1. ring[i + 1].ty = "tick"
      BY <2>1, <2>3 DEF NewestTick
    <3>2. ASSUME NEW j \in DOMAIN ring, j > i + 1 PROVE ring[j].ty # "tick"
      <4>1. j # 1 /\ j - 1 > i
        BY <1>0, <2>1, <3>2
      <4> QED
        BY <2>2, <2>3, <4>1 DEF NewestTick
    <3> QED
      BY <3>1, <3>2 DEF NewestTick
  <2>4. (\A i \in DOMAIN ring' : ring'[i].ty # "tick") => \A j \in DOMAIN ring : ring[j].ty # "tick"
    BY <1>2, <2>2
  <2>5. FeedFollowed'
    BY <1>2, <2>4 DEF FeedInv, FeedFollowed
  <2>6. fresh' => \A f \in routed' : \A i \in DOMAIN ring' :
                       NewestTick(i)' => ring'[i].val[f] = book'[f]
    BY <1>2, <2>1, <2>3 DEF FeedInv
  <2> QED
    BY <1>2, <2>5, <2>6 DEF FeedInv
<1>3. ASSUME NEW f \in Field, NEW v \in sc.px \union sc.sz, RouteTick(f, v) PROVE FeedInv'
  <2>0. v \in Nat
    BY <1>0, ScenarioValues
  <2>1. book' = [book EXCEPT ![f] = v] /\ options' = options /\ fast' = fast
    BY <1>3 DEF RouteTick, trader
  <2>2. CASE ~fast
    <3>1. routed' = {} /\ fast' = fast
      BY <1>3, <2>1, <2>2 DEF RouteTick, FeedInv
    <3> QED
      BY <2>2, <3>1 DEF FeedInv, FeedFollowed
  <2>3. CASE fast
    <3> DEFINE e == Consolidated(f, v)
    <3>1. /\ entry' = <<e>> /\ routed' = routed \union {f}
          /\ \/ fresh' = TRUE /\ \E d \in sc.depth : Written("tick", "tick", encode_tick_into(e, d))
             \/ fresh' = FALSE
      BY <1>3, <2>3 DEF RouteTick, FastPath, Consolidated
    <3>2. e \in [Field -> Int] /\ e[f] = v
      BY <2>0, ConsolidatedOK DEF DataInv
    <3>3. ASSUME NEW h \in routed' PROVE h \in Field /\ e[h] = book'[h] /\ book'[h] >= 0
      <4>1. CASE h = f
        BY <1>0, <2>0, <2>1, <3>2, <4>1
      <4>2. CASE h # f
        <5>1. h \in routed /\ h \in Field /\ entry # <<>>
          BY <3>1, <3>3, <4>2 DEF FeedInv
        <5>2. e[h] = entry[1][h]
          <6>1. entry[1] \in [Field -> Int]
            BY <5>1 DEF DataInv, BrokerData
          <6>2. e = [entry[1] EXCEPT ![f] = v]
            BY <5>1 DEF Consolidated, Consolidate
          <6> QED
            BY <4>2, <5>1, <6>1, <6>2
        <5> QED
          BY <1>0, <2>1, <4>2, <5>1, <5>2 DEF FeedInv
      <4> QED
        BY <4>1, <4>2
    <3> HIDE DEF e
    <3>4. entry' # <<>> /\ entry'[1] = e
      BY <3>1
    <3>5. CASE fresh' = FALSE
      BY <2>1, <2>3, <3>1, <3>3, <3>4, <3>5 DEF FeedInv, FeedFollowed
    <3>6. CASE fresh' = TRUE
      <4>1. PICK d \in sc.depth : Written("tick", "tick", encode_tick_into(e, d))
        BY <3>1, <3>6
      <4> DEFINE x == [ty |-> "tick", val |-> encode_tick_into(e, d)]
      <4>2. ring' = Append(ring, x)
        BY <4>1 DEF Written
      <4>3. x.ty = "tick" /\ \A h \in Field : x.val[h] = e[h]
        BY <1>0, <3>2, EncodeOK
      <4> HIDE DEF x
      <4>4. DOMAIN ring' = 1 .. Len(ring) + 1 /\ ring'[Len(ring) + 1] = x
        BY <1>0, <4>2
      <4>5. ASSUME NEW i \in DOMAIN ring', NewestTick(i)' PROVE i = Len(ring) + 1
        <5>1. Len(ring) + 1 \in DOMAIN ring'
          BY <1>0, <4>4
        <5>2. ~(Len(ring) + 1 > i)
          BY <4>3, <4>4, <4>5, <5>1 DEF NewestTick
        <5> QED
          BY <1>0, <4>4, <5>2
      <4>6. \A h \in routed' : \A i \in DOMAIN ring' : NewestTick(i)' => ring'[i].val[h] = book'[h]
        BY <3>3, <4>3, <4>4, <4>5
      <4>7. ~(\A i \in DOMAIN ring' : ring'[i].ty # "tick")
        BY <1>0, <4>3, <4>4
      <4> QED
        BY <2>1, <2>3, <3>1, <3>3, <3>4, <4>6, <4>7 DEF FeedInv, FeedFollowed
    <3> QED
      BY <3>1, <3>5, <3>6
  <2> QED
    BY <2>2, <2>3
<1>4. ASSUME NEW p, RouteUnderlying(p) PROVE FeedInv'
  <2> DEFINE x == [ty |-> "underlying_tick", val |-> p]
  <2>1. UNCHANGED <<book, entry, options, routed, fresh, fast>>
    BY <1>4 DEF RouteUnderlying, trader, history
  <2>2. ring' = Append(ring, x) \/ ring' = ring
    BY <1>4, Zenon DEF RouteUnderlying, Written, Dropped
  <2>3. x.ty # "tick"
    OBVIOUS
  <2>4. fast => fast'
    BY <2>1, Zenon
  <2> HIDE DEF x
  <2> QED
    BY <1>1, <2>1, <2>2, <2>3, <2>4
<1>5. ASSUME NEW b, NEW ty, NEW val, ty # "tick", Announce(b, ty, val) PROVE FeedInv'
  <2> DEFINE x == [ty |-> ty, val |-> val]
  <2>1. UNCHANGED <<book, entry, options, routed, fresh, fast>>
    BY <1>5 DEF Announce, broker, trader, history
  <2>2. ring' = Append(ring, x) \/ ring' = ring
    BY <1>5, Zenon DEF Announce, Written, Dropped
  <2>3. x.ty # "tick"
    BY <1>5
  <2>4. fast => fast'
    BY <2>1, Zenon
  <2> HIDE DEF x
  <2> QED
    BY <1>1, <2>1, <2>2, <2>3, <2>4
<1>6. ASSUME NEW g, fit_and_publish(g) PROVE FeedInv'
  <2> DEFINE x == [ty |-> "vol_surface", val |-> Surface(g)]
  <2>1. UNCHANGED <<book, entry, options, routed, fresh, fast>>
    BY <1>6 DEF fit_and_publish, broker, trader, history
  <2>2. ring' = Append(ring, x) \/ ring' = ring
    BY <1>6, Zenon DEF fit_and_publish, Written, Dropped
  <2>3. x.ty # "tick"
    OBVIOUS
  <2>4. fast => fast'
    BY <2>1, Zenon
  <2> HIDE DEF x
  <2> QED
    BY <1>1, <2>1, <2>2, <2>3, <2>4
<1>7. ASSUME \/ install_tick_fastpath \/ pump_ticks \/ UNCHANGED vars
             \/ (\E s \in Sides : OrderEvent(s)) \/ (\E d \in sc.steps : Elapse(d))
      PROVE FeedInv'
  <2>1. UNCHANGED <<book, entry, options, routed, fresh>> /\ (fast => fast') /\ ring' = ring
    BY <1>7 DEF install_tick_fastpath, pump_ticks, OrderEvent, Elapse, vars, broker, trader, history
  <2>2. [ty |-> "halt"].ty # "tick"
    OBVIOUS
  <2> QED
    BY <1>1, <2>1, <2>2
<1>8. ASSUME HandleState PROVE FeedInv'
  BY <1>2, <1>8 DEF HandleState, Take, broker, history
<1>9. ASSUME HandleTick PROVE FeedInv'
  <2> DEFINE w == ring[1].val
  <2>1. /\ ring # <<>> /\ ring[1].ty = "tick" /\ ring' = Tail(ring)
        /\ UNCHANGED <<book, entry, routed, fresh, fast>>
        /\ options' = [h \in Field |-> Merged(decode_tick(w))[h]]
    BY <1>9 DEF HandleTick, Take, on_tick, broker
  <2>2. w \in Wires
    BY <1>0, <2>1, FrameOfType
  <2>3. \A h \in Field : options'[h] = Or(w[h], options[h])
    BY <2>1, <2>2, MergedOK DEF DataInv, TraderData
  <2>4. /\ DOMAIN ring' = 1 .. Len(ring) - 1
        /\ \A i \in DOMAIN ring' : i + 1 \in DOMAIN ring /\ ring'[i] = ring[i + 1]
        /\ 1 \in DOMAIN ring
    BY <1>0, <2>1
  <2>5. ASSUME NEW j \in DOMAIN ring, j # 1
        PROVE  j - 1 \in DOMAIN ring' /\ ring'[j - 1] = ring[j]
    BY <1>0, <2>4, <2>5
  <2>6. ASSUME NEW i \in DOMAIN ring', NewestTick(i)' PROVE NewestTick(i + 1)
    <3>1. ring[i + 1].ty = "tick"
      BY <2>4, <2>6 DEF NewestTick
    <3>2. ASSUME NEW j \in DOMAIN ring, j > i + 1 PROVE ring[j].ty # "tick"
      <4>1. j # 1 /\ j - 1 > i
        BY <1>0, <2>4, <3>2
      <4> QED
        BY <2>5, <2>6, <4>1 DEF NewestTick
    <3> QED
      BY <3>1, <3>2 DEF NewestTick
  <2>7. fresh' => \A h \in routed' : \A i \in DOMAIN ring' :
                       NewestTick(i)' => ring'[i].val[h] = book'[h]
    BY <2>1, <2>4, <2>6 DEF FeedInv
  <2>8. FeedFollowed'
    <3> SUFFICES ASSUME fresh, \A i \in DOMAIN ring' : ring'[i].ty # "tick", NEW h \in routed
                 PROVE  options'[h] = book[h]
      BY <2>1 DEF FeedFollowed
    <3>1. NewestTick(1)
      <4>1. ASSUME NEW j \in DOMAIN ring, j > 1 PROVE ring[j].ty # "tick"
        <5>1. j # 1
          BY <1>0, <4>1
        <5> QED
          BY <2>5, <5>1
      <4> QED
        BY <2>1, <4>1 DEF NewestTick
    <3>2. w[h] = book[h] /\ book[h] >= 0 /\ h \in Field
      BY <2>4, <3>1 DEF FeedInv
    <3>3. book[h] \in Int
      BY <1>0, <3>2
    <3> QED
      BY <2>3, <3>2, <3>3 DEF Or, Nil
  <2> QED
    BY <2>1, <2>7, <2>8 DEF FeedInv
<1>10. ASSUME BrokerRestart PROVE FeedInv'
  BY <1>10 DEF BrokerRestart, FeedInv, FeedFollowed
<1>11. ASSUME TraderRestart PROVE FeedInv'
  BY <1>11 DEF TraderRestart, FeedInv, FeedFollowed, broker, NewestTick
<1> QED
  BY <1>3, <1>4, <1>5, <1>6, <1>7, <1>8, <1>9, <1>10, <1>11 DEF Next

\* The trader follows the feed through lost frames, merges and restarts of
\* either process.
THEOREM FeedFollowedAlways == Spec => []FeedFollowed
<1>1. Init => FeedInv
  <2> SUFFICES ASSUME Init PROVE FeedInv
    OBVIOUS
  <2>1. CASE Cold
    BY <2>1 DEF Cold, FeedInv, FeedFollowed
  <2>2. ASSUME NEW w \in sc.warm, Warm(w) PROVE FeedInv
    <3>1. w.l1 \in [Field -> Nat]
      BY ScenarioValues DEF Init
    <3>2. /\ routed = Field /\ book = w.l1 /\ entry = <<w.l1>> /\ options = w.l1
          /\ fast = TRUE /\ ring = <<>>
      BY <2>2 DEF Warm, Init
    <3> QED
      BY <3>1, <3>2 DEF FeedInv, FeedFollowed
  <2> QED
    BY <2>1, <2>2 DEF Init
<1>2. FeedInv => FeedFollowed
  BY DEF FeedInv
<1> QED
  BY <1>1, <1>2, FeedInvInductive, DataInvHolds, PTL DEF Spec
=============================================================================
