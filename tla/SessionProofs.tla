--------------------------- MODULE SessionProofs ---------------------------
(***************************************************************************)
(* The invariants of Session, for every set of futures, legs and prices,   *)
(* every window width, channel capacity and budget.                        *)
(***************************************************************************)
EXTENDS Session, FiniteSetTheorems, SequenceTheorems, TLAPS

-----------------------------------------------------------------------------
(* What the data are made of.                                              *)

Details == Listed \union {<<e>> : e \in Futures}

Messages ==
    [type : {"nextValidId"}, req : {0}, val : Nat]
        \union [type : {"managedAccounts", "positionEnd", "openOrderEnd", "accountEnd"},
                req : {0}, val : {0}]
        \union [type : {"position"}, req : {0}, val : Held]
        \union [type : {"details"}, req : Req, val : Details]
        \union [type : {"detailsEnd", "error"}, req : Req, val : {0, 200}]

CallOK(c) ==
    /\ c.st \in {"free", "waiting", "ok", "failed"}
    /\ c.req \in Req \union {0}
    /\ c.res \in Seq(Details)
    /\ DOMAIN c = {"st", "req", "ask", "res"}

DataInv ==
    /\ jobs \subseteq Seq(Messages) \ {<<>>}
    /\ chan \in Seq(Messages)
    /\ nextId \in Nat
    /\ DOMAIN pend \subseteq Req
    /\ \A r \in DOMAIN pend : pend[r] \in Seq(Details)
    /\ DOMAIN call = Task /\ \A t \in Task : CallOK(call[t])

\* A message, by its type.
LEMMA MessageOfType ==
    ASSUME NEW m \in Messages
    PROVE  /\ m.type = "nextValidId" => m.val \in Nat
           /\ m.type = "position" => m.val \in Held
           /\ m.type = "details" => m.val \in Details /\ m.req \in Req
           /\ m.type \notin {"details", "detailsEnd", "error"} => m.req = 0
           /\ m.req \in Req \union {0}
<1>1. CASE m \in [type : {"nextValidId"}, req : {0}, val : Nat]
  BY <1>1
<1>2. CASE m \in [type : {"managedAccounts", "positionEnd", "openOrderEnd", "accountEnd"},
                  req : {0}, val : {0}]
  BY <1>2
<1>3. CASE m \in [type : {"position"}, req : {0}, val : Held]
  BY <1>3
<1>4. CASE m \in [type : {"details"}, req : Req, val : Details]
  BY <1>4
<1>5. CASE m \in [type : {"detailsEnd", "error"}, req : Req, val : {0, 200}]
  BY <1>5
<1> QED
  BY <1>1, <1>2, <1>3, <1>4, <1>5 DEF Messages

\* The messages the gateway may send.
LEMMA GatewayMessages ==
    /\ \A v \in Nat : Msg("nextValidId", 0, v) \in Messages
    /\ \A ty \in {"managedAccounts", "positionEnd", "openOrderEnd", "accountEnd"} :
          Msg(ty, 0, 0) \in Messages
    /\ \A h \in Held : Msg("position", 0, h) \in Messages
    /\ \A r \in Req : \A d \in Details : Msg("details", r, d) \in Messages
    /\ \A r \in Req : Msg("detailsEnd", r, 0) \in Messages /\ Msg("error", r, 200) \in Messages
<1>1. \A v \in Nat : Msg("nextValidId", 0, v) \in Messages
  BY DEF Messages, Msg
<1>2. \A ty \in {"managedAccounts", "positionEnd", "openOrderEnd", "accountEnd"} :
          Msg(ty, 0, 0) \in Messages
  BY DEF Messages, Msg
<1>3. \A h \in Held : Msg("position", 0, h) \in Messages
  BY DEF Messages, Msg
<1>4. \A r \in Req : \A d \in Details : Msg("details", r, d) \in Messages
  BY DEF Messages, Msg
<1>5. \A r \in Req : Msg("detailsEnd", r, 0) \in Messages /\ Msg("error", r, 200) \in Messages
  BY DEF Messages, Msg
<1> QED
  BY <1>1, <1>2, <1>3, <1>4, <1>5

\* The answer to ask, as an endpoint of both sides: every detail of it is one
\* that the question was about.
Fits(ask, d) == IF ask # Chain THEN d = Leg(ask) ELSE d \in {<<e>> : e \in Futures}

LEMMA AnswerOK ==
    ASSUME NEW r \in Req, NEW ask
    PROVE  /\ Answer(r, ask) \in Seq(Messages) /\ Answer(r, ask) # <<>>
           /\ \A i \in DOMAIN Answer(r, ask) :
                 /\ Answer(r, ask)[i].req = r
                 /\ Answer(r, ask)[i].type \in {"details", "detailsEnd"}
                 /\ Answer(r, ask)[i].type = "details" => Fits(ask, Answer(r, ask)[i].val)
<1> DEFINE end == <<Msg("detailsEnd", r, 0)>>
<1>0. /\ Msg("detailsEnd", r, 0) \in Messages /\ Msg("detailsEnd", r, 0).type = "detailsEnd"
      /\ Msg("detailsEnd", r, 0).req = r
  BY GatewayMessages DEF Msg
<1>1. end \in Seq(Messages) /\ Len(end) = 1 /\ end[1] = Msg("detailsEnd", r, 0)
  BY <1>0
\* Details that fit, followed by the end.
<1>2. ASSUME NEW a \in Seq(Messages), Answer(r, ask) = a \o end,
             \A i \in 1 .. Len(a) : /\ a[i].req = r /\ a[i].type = "details"
                                    /\ Fits(ask, a[i].val)
      PROVE  /\ Answer(r, ask) \in Seq(Messages) /\ Answer(r, ask) # <<>>
             /\ \A i \in DOMAIN Answer(r, ask) :
                   /\ Answer(r, ask)[i].req = r
                   /\ Answer(r, ask)[i].type \in {"details", "detailsEnd"}
                   /\ Answer(r, ask)[i].type = "details" => Fits(ask, Answer(r, ask)[i].val)
  <2> DEFINE s == a \o end
  <2> HIDE DEF end
  <2>1. /\ s \in Seq(Messages) /\ Len(s) = Len(a) + Len(end)
        /\ \A i \in 1 .. Len(a) + Len(end) :
              s[i] = IF i <= Len(a) THEN a[i] ELSE end[i - Len(a)]
    BY <1>1, ConcatProperties
  <2>2. Len(a) \in Nat
    OBVIOUS
  <2> HIDE DEF s
  <2>3. DOMAIN s = 1 .. Len(a) + 1 /\ s # <<>>
    BY <1>1, <2>1, <2>2
  <2>4. ASSUME NEW i \in DOMAIN s
        PROVE  s[i].req = r /\ s[i].type \in {"details", "detailsEnd"}
                  /\ (s[i].type = "details" => Fits(ask, s[i].val))
    <3>1. CASE i <= Len(a)
      BY <1>1, <1>2, <2>1, <2>2, <2>3, <3>1
    <3>2. CASE i = Len(a) + 1
      <4>1. s[i] = Msg("detailsEnd", r, 0)
        BY <1>1, <2>1, <2>2, <3>2
      <4> QED
        BY <1>0, <4>1
    <3> QED
      BY <2>2, <2>3, <3>1, <3>2
  <2> QED
    BY <1>2, <2>1, <2>3, <2>4 DEF s
<1> HIDE DEF end
<1>3. CASE ask # Chain
  <2> DEFINE l == Leg(ask)
             a == IF l \in Listed THEN <<Msg("details", r, l)>> ELSE <<>>
  <2>1. Answer(r, ask) = a \o end
    BY <1>3 DEF Answer, end
  <2> HIDE DEF l
  <2>2. l \in Listed => /\ Msg("details", r, l) \in Messages
                          /\ Msg("details", r, l).req = r
                          /\ Msg("details", r, l).type = "details"
                          /\ Msg("details", r, l).val = l
    BY GatewayMessages DEF Details, Msg
  <2>3. a \in Seq(Messages) /\ \A i \in 1 .. Len(a) : a[i] = Msg("details", r, l) /\ l \in Listed
    <3>1. CASE l \in Listed
      BY <2>2, <3>1
    <3>2. CASE l \notin Listed
      BY <3>2
    <3> QED
      BY <3>1, <3>2
  <2> HIDE DEF a
  <2>4. \A i \in 1 .. Len(a) : a[i].req = r /\ a[i].type = "details" /\ Fits(ask, a[i].val)
    BY <1>3, <2>2, <2>3 DEF Fits, l
  <2> QED
    BY <1>2, <2>1, <2>3, <2>4
<1>4. CASE ask = Chain
  <2> DEFINE n == Cardinality(Futures)
             order == CHOOSE s \in [1 .. n -> Futures] :
                         \A i \in 1 .. n - 1 : s[i] > s[i + 1]
             a == [i \in 1 .. n |-> Msg("details", r, <<order[i]>>)]
  <2>1. Answer(r, ask) = a \o end
    BY <1>4 DEF Answer, end
  <2>2. n \in Nat
    BY FuturesAssumption, FS_CardinalityType
  <2>3. order \in [1 .. n -> Futures]
    BY FuturesAssumption
  <2> HIDE DEF order, n
  <2>4. ASSUME NEW i \in 1 .. n
        PROVE  /\ Msg("details", r, <<order[i]>>) \in Messages
               /\ Msg("details", r, <<order[i]>>).req = r
               /\ Msg("details", r, <<order[i]>>).type = "details"
               /\ Fits(ask, Msg("details", r, <<order[i]>>).val)
    <3>1. <<order[i]>> \in {<<e>> : e \in Futures}
      BY <2>3
    <3> QED
      BY <1>4, <3>1, GatewayMessages DEF Details, Msg, Fits
  <2>5. a \in Seq(Messages) /\ Len(a) = n /\ \A i \in 1 .. n : a[i] = Msg("details", r, <<order[i]>>)
    BY <2>2, <2>4
  <2> HIDE DEF a
  <2>6. \A i \in 1 .. Len(a) : a[i].req = r /\ a[i].type = "details" /\ Fits(ask, a[i].val)
    BY <2>4, <2>5
  <2> QED
    BY <1>2, <2>1, <2>5, <2>6
<1> QED
  BY <1>3, <1>4

\* What the gateway sends of the account's positions: all of them, then the end.
PositionsJob ==
    [i \in 1 .. Cardinality(Held) |-> Msg("position", 0, SetToSeq(Held)[i])]
        \o <<Msg("positionEnd", 0, 0)>>

LEMMA HeldInOrder ==
    /\ Cardinality(Held) \in Nat
    /\ SetToSeq(Held) \in [1 .. Cardinality(Held) -> Held]
    /\ \A h \in Held : \E i \in 1 .. Cardinality(Held) : SetToSeq(Held)[i] = h
<1> DEFINE n == Cardinality(Held)
           f == SetToSeq(Held)
<1>1. IsFiniteSet(Held) /\ n \in Nat /\ ExistsBijection(1 .. n, Held)
  BY SessionAssumption, FS_CardinalityType
<1>2. \E g \in [1 .. n -> Held] : IsInjective(g)
  BY <1>1 DEF ExistsBijection, Bijection, Injection
<1>3. f \in [1 .. n -> Held] /\ IsInjective(f)
  BY <1>2 DEF SetToSeq
<1> HIDE DEF f
<1>4. ASSUME NEW h \in Held, \A i \in 1 .. n : f[i] # h PROVE FALSE
  <2>1. f \in [1 .. n -> Held \ {h}]
    BY <1>3, <1>4
  <2>2. IsFiniteSet(Held \ {h}) /\ Cardinality(Held \ {h}) = n - 1
    BY <1>1, FS_RemoveElement
  <2>3. IsFiniteSet(1 .. n) /\ Cardinality(1 .. n) = n
    <3>1. 1 \in Int /\ n \in Int
      BY <1>1
    <3>2. IsFiniteSet(1 .. n) /\ Cardinality(1 .. n) = IF 1 > n THEN 0 ELSE n - 1 + 1
      BY <3>1, FS_Interval
    <3> QED
      BY <1>1, <3>2
  <2>4. Cardinality(Held \ {h}) < Cardinality(1 .. n)
    BY <1>1, <2>2, <2>3
  <2>5. \E x, y \in 1 .. n : x # y /\ f[x] = f[y]
    <3> DEFINE S == 1 .. n
               T == Held \ {h}
    <3>1. IsFiniteSet(S) /\ IsFiniteSet(T) /\ Cardinality(T) < Cardinality(S) /\ f \in [S -> T]
      BY <2>1, <2>2, <2>3, <2>4
    <3> HIDE DEF S, T
    <3>2. \E x, y \in S : x # y /\ f[x] = f[y]
      BY <3>1, FS_PigeonHole
    <3> QED
      BY <3>2 DEF S
  <2> QED
    BY <1>3, <2>5 DEF IsInjective
<1> QED
  BY <1>1, <1>3, <1>4 DEF f

LEMMA PositionsJobOK ==
    /\ PositionsJob \in Seq(Messages) /\ PositionsJob # <<>>
    /\ \A i \in DOMAIN PositionsJob :
          /\ PositionsJob[i].type \in {"position", "positionEnd"} /\ PositionsJob[i].req = 0
          /\ PositionsJob[i].type = "positionEnd" =>
                \A h \in Held : \E k \in DOMAIN PositionsJob :
                    k < i /\ PositionsJob[k] = Msg("position", 0, h)
<1> DEFINE n == Cardinality(Held)
           f == SetToSeq(Held)
           a == [i \in 1 .. n |-> Msg("position", 0, f[i])]
           end == <<Msg("positionEnd", 0, 0)>>
           s == a \o end
<1>1. n \in Nat /\ f \in [1 .. n -> Held] /\ \A h \in Held : \E i \in 1 .. n : f[i] = h
  BY HeldInOrder
<1> HIDE DEF n, f
<1>2. ASSUME NEW i \in 1 .. n PROVE Msg("position", 0, f[i]) \in Messages
  BY <1>1, GatewayMessages
<1>3. a \in Seq(Messages) /\ Len(a) = n /\ \A i \in 1 .. n : a[i] = Msg("position", 0, f[i])
  BY <1>1, <1>2
<1>4. end \in Seq(Messages) /\ Len(end) = 1 /\ end[1] = Msg("positionEnd", 0, 0)
  BY GatewayMessages
<1> HIDE DEF a, end
<1>5. /\ s \in Seq(Messages) /\ Len(s) = Len(a) + Len(end)
      /\ \A i \in 1 .. Len(a) + Len(end) :
            s[i] = IF i <= Len(a) THEN a[i] ELSE end[i - Len(a)]
  BY <1>3, <1>4, ConcatProperties
<1> HIDE DEF s
<1>6. DOMAIN s = 1 .. n + 1 /\ s # <<>>
  BY <1>1, <1>3, <1>4, <1>5
<1>7. \A i \in 1 .. n : s[i] = Msg("position", 0, f[i])
  BY <1>1, <1>3, <1>4, <1>5
<1>8. s[n + 1] = Msg("positionEnd", 0, 0)
  BY <1>1, <1>3, <1>4, <1>5
<1>9. ASSUME NEW i \in 1 .. n
      PROVE  s[i].type = "position" /\ s[i].req = 0
  <2>1. s[i] = Msg("position", 0, f[i])
    BY <1>7
  <2> QED
    BY <2>1 DEF Msg
<1>10. s[n + 1].type = "positionEnd" /\ s[n + 1].req = 0
  BY <1>8 DEF Msg
<1>11. \A h \in Held : \E k \in DOMAIN s : k < n + 1 /\ s[k] = Msg("position", 0, h)
  BY <1>1, <1>6, <1>7
<1>12. ASSUME NEW i \in DOMAIN s
       PROVE  /\ s[i].type \in {"position", "positionEnd"} /\ s[i].req = 0
              /\ s[i].type = "positionEnd" =>
                    \A h \in Held : \E k \in DOMAIN s : k < i /\ s[k] = Msg("position", 0, h)
  <2>1. i \in 1 .. n \/ i = n + 1
    BY <1>1, <1>6
  <2> QED
    BY <1>9, <1>10, <1>11, <2>1
<1> QED
  BY <1>5, <1>6, <1>12 DEF PositionsJob, s, a, end, n, f

-----------------------------------------------------------------------------
(* The steps, by what they do to the client, the adapter and the calls.    *)

\* A task's call is over and the task has seen its result.
CallTaken(t) ==
    /\ call[t].st # "waiting" /\ call' = [call EXCEPT ![t] = Free]
    /\ UNCHANGED <<client, adapter, used>>

\* A task that is free asks, or main does at the two places where it asks
\* for the chain.
MayAsk(t) == call[t] = Free \/ (t = "main" /\ boot \in {"resolve", "chain"})

LEMMA StepKinds ==
    ASSUME [Next]_vars
    PROVE  \/ connect \/ wait_for_bootstrap \/ Gateway \/ Dispatch \/ Eof \/ disconnect
           \/ alloc_order_id
           \/ \E t \in Task : Timeout(t)
           \/ \E t \in Task : \E ask : Ask(t, ask) /\ UNCHANGED used /\ MayAsk(t)
           \/ \E t \in Task : CallTaken(t)
           \/ UNCHANGED <<client, adapter, call, used>>
<1>0. "main" \in Task /\ "recenter" \in Task
  BY DEF Task
<1>1. AskChain("resolve", "resolving") \/ AskChain("chain", "listing") =>
         \E t \in Task : \E ask : Ask(t, ask) /\ UNCHANGED used /\ MayAsk(t)
  <2>1. ASSUME AskChain("resolve", "resolving") \/ AskChain("chain", "listing")
        PROVE  Ask("main", Chain) /\ UNCHANGED used /\ MayAsk("main")
    BY <2>1 DEF AskChain, Main, MayAsk
  <2> QED
    BY <1>0, <2>1
<1>2. ASSUME NEW t \in Task, qualify_option(t)
      PROVE  \E u \in Task : \E ask : Ask(u, ask) /\ UNCHANGED used /\ MayAsk(u)
  BY <1>2 DEF qualify_option, MayAsk
<1>3. ASSUME NEW t \in Task, Qualified(t) PROVE CallTaken(t)
  BY <1>3 DEF Qualified, CallTaken
<1>4. resolve_hedge_contracts \/ resolve_underlying => CallTaken("main")
  BY DEF resolve_hedge_contracts, resolve_underlying, CallTaken
<1>5. wait_for_seeding \/ seed_positions_from_broker \/ wait_for_underlying
        \/ run_window_recenter => UNCHANGED <<client, adapter, call, used>>
  BY DEF wait_for_seeding, seed_positions_from_broker, wait_for_underlying, run_window_recenter
<1>6. (\E p \in Ticks : Tick(p) \/ Fit(p)) => UNCHANGED <<client, adapter, call, used>>
  BY DEF Tick, Fit
<1>7. subscribe_product => \/ qualify_option("main") \/ Qualified("main")
                           \/ UNCHANGED <<client, adapter, call, used>>
  BY DEF subscribe_product
<1>8. UNCHANGED vars => UNCHANGED <<client, adapter, call, used>>
  BY DEF vars
<1> QED
  BY <1>0, <1>1, <1>2, <1>3, <1>4, <1>5, <1>6, <1>7, <1>8 DEF Next, MainStep, Recenter

\* A request id that a call is given is new to everything still under way.
LEMMA FreshReq ==
    ASSUME Req \ Mentioned # {}
    PROVE  alloc_req_id \in Req /\ alloc_req_id \notin Mentioned
  BY DEF alloc_req_id

\* The call and the entry that Ask makes, and what the gateway is going to send.
Asked(t, ask, r) ==
    /\ r \in Req /\ r \notin Mentioned
    /\ pend' = [q \in DOMAIN pend \union {r} |-> IF q = r THEN <<>> ELSE pend[q]]
    /\ \E st \in {"waiting", "failed"} :
         /\ call' = [call EXCEPT ![t] = [st |-> st, req |-> r, ask |-> ask, res |-> <<>>]]
         /\ link = "up" => st = "waiting"
    /\ link \in {"up", "lost"}
    /\ \/ jobs' = jobs
       \/ jobs' = jobs \union {Answer(r, ask)}
       \/ jobs' = jobs \union {<<Msg("error", r, 200)>>}
    /\ UNCHANGED <<link, chan, dispatching, nextId, accounts, done, cache, lost>>

LEMMA AskEffect ==
    ASSUME NEW t \in Task, NEW ask, Ask(t, ask), DataInv
    PROVE  \E r : Asked(t, ask, r)
<1> DEFINE r == alloc_req_id
           new(st) == [st |-> st, req |-> r, ask |-> ask, res |-> <<>>]
<1>1. r \in Req /\ r \notin Mentioned
  BY FreshReq DEF Ask
<1>2. [new("waiting") EXCEPT !.st = "failed"] = new("failed")
  OBVIOUS
<1> HIDE DEF r
<1>3. /\ pend' = [q \in DOMAIN pend \union {r} |-> IF q = r THEN <<>> ELSE pend[q]]
      /\ UNCHANGED <<link, chan, dispatching, nextId, accounts, done, cache, lost>>
  BY DEF Ask, r
<1>4. /\ \/ call' = [call EXCEPT ![t] = new("waiting")]
         \/ link = "lost" /\ call' = [call EXCEPT ![t] = new("failed")]
      /\ link \in {"up", "lost"}
      /\ \/ jobs' = jobs
         \/ jobs' = jobs \union {Answer(r, ask)}
         \/ jobs' = jobs \union {<<Msg("error", r, 200)>>}
  BY <1>2 DEF Ask, r, Spend
<1>5. \E st \in {"waiting", "failed"} :
         call' = [call EXCEPT ![t] = new(st)] /\ (link = "up" => st = "waiting")
  BY <1>4
<1> HIDE DEF new
<1>6. Asked(t, ask, r)
  BY <1>1, <1>3, <1>4, <1>5 DEF new, Asked
<1> QED
  BY <1>6

\* A job that has lost its first message, and a channel that has.
LEMMA TailOK ==
    ASSUME NEW S, NEW s \in Seq(S), s # <<>>
    PROVE  /\ Head(s) \in S /\ Tail(s) \in Seq(S)
           /\ Len(Tail(s)) = Len(s) - 1
           /\ \A i \in 1 .. Len(Tail(s)) : Tail(s)[i] = s[i + 1]
           /\ Head(s) = s[1] /\ 1 \in DOMAIN s
  OBVIOUS

\* A frame the receive task reads goes to the channel, or is dropped and noted.
LEMMA ReceiveEffect ==
    ASSUME NEW j \in jobs, Receive(j), DataInv
    PROVE  /\ j \in Seq(Messages) /\ j # <<>>
           /\ \A k \in jobs' : k \in jobs \/ (k = Tail(j) /\ k # <<>>)
           /\ \/ chan' = Append(chan, Head(j)) /\ lost' = lost
              \/ chan' = chan /\ lost' = TRUE
           /\ link = "up" /\ UNCHANGED <<link, dispatching, adapter, call, runtime, used>>
<1>1. j \in Seq(Messages) /\ j # <<>> /\ Len(j) \in Nat
  BY DEF DataInv
<1>2. ASSUME NEW k \in jobs' PROVE k \in jobs \/ (k = Tail(j) /\ k # <<>>)
  <2>1. k \in jobs \/ (k = Tail(j) /\ Len(j) # 1)
    BY DEF Receive
  <2> DEFINE n == Len(j)
  <2>2. n # 1 => Tail(j) # <<>>
    <3>1. n \in Nat /\ n >= 1 /\ Len(Tail(j)) = n - 1
      BY <1>1, TailOK
    <3>2. Tail(j) = <<>> => n - 1 = 0
      BY <3>1
    <3> HIDE DEF n
    <3> QED
      BY <3>1, <3>2
  <2> QED
    BY <2>1, <2>2
<1>3. \/ chan' = Append(chan, Head(j)) /\ lost' = lost
      \/ chan' = chan /\ lost' = TRUE
  BY DEF Receive
<1> QED
  BY <1>1, <1>2, <1>3 DEF Receive

\* What the dispatcher does with a message.
Dispatched(m) ==
    /\ chan # <<>> /\ m = Head(chan) /\ chan' = Tail(chan)
    /\ UNCHANGED <<link, jobs, nextId, accounts, runtime, used, counts>>
    /\ \/ /\ m.type = "position" /\ cache' = cache \union {m.val}
          /\ UNCHANGED <<done, pend, call>>
       \/ /\ m.type \in {"positionEnd", "openOrderEnd", "accountEnd"}
          /\ done' = done \union {m.type}
          /\ UNCHANGED <<cache, pend, call>>
       \/ /\ m.type = "details"
          /\ pend' = [q \in DOMAIN pend |->
                         IF q = m.req THEN Append(pend[q], m.val) ELSE pend[q]]
          /\ UNCHANGED <<done, cache, call>>
       \/ /\ m.type \in {"detailsEnd", "error"} /\ m.req \in DOMAIN pend
          /\ pend' = [q \in DOMAIN pend \ {m.req} |-> pend[q]]
          /\ \E st \in {"ok", "failed"} : \E res \in {<<>>, pend[m.req]} :
                Resolve(m.req, st, res)
          /\ UNCHANGED <<done, cache>>
       \/ /\ m.type \in {"nextValidId", "managedAccounts", "detailsEnd", "error"}
          /\ UNCHANGED <<done, cache, pend, call>>

LEMMA DispatchEffect ==
    ASSUME Dispatch, DataInv
    PROVE  \E m \in Messages : Dispatched(m)
<1>1. chan # <<>> /\ chan \in Seq(Messages) /\ Head(chan) \in Messages
  BY TailOK DEF Dispatch, DataInv
<1> DEFINE m == Head(chan)
<1>2. chan' = Tail(chan) /\ UNCHANGED <<link, jobs, nextId, accounts, runtime, used, counts>>
  BY DEF Dispatch
<1>3. \/ m.type = "position" /\ cache' = cache \union {m.val} /\ UNCHANGED <<done, pend, call>>
      \/ /\ m.type \in {"positionEnd", "openOrderEnd", "accountEnd"}
         /\ done' = done \union {m.type}
         /\ UNCHANGED <<cache, pend, call>>
      \/ /\ m.type = "details"
         /\ pend' = [q \in DOMAIN pend |->
                       IF q = m.req THEN Append(pend[q], m.val) ELSE pend[q]]
         /\ UNCHANGED <<done, cache, call>>
      \/ /\ m.type \in {"detailsEnd", "error"} /\ m.req \in DOMAIN pend
         /\ pend' = [q \in DOMAIN pend \ {m.req} |-> pend[q]]
         /\ Resolve(m.req, "ok", pend[m.req]) \/ Resolve(m.req, "failed", <<>>)
         /\ UNCHANGED <<done, cache>>
      \/ /\ m.type \in {"nextValidId", "managedAccounts", "detailsEnd", "error"}
         /\ UNCHANGED <<done, cache, pend, call>>
  BY DEF Dispatch, Drop
<1> HIDE DEF m
<1>4. (Resolve(m.req, "ok", pend[m.req]) \/ Resolve(m.req, "failed", <<>>)) =>
         \E st \in {"ok", "failed"} : \E res \in {<<>>, pend[m.req]} : Resolve(m.req, st, res)
  OBVIOUS
<1>5. m \in Messages /\ m = Head(chan)
  BY <1>1 DEF m
<1>6. Dispatched(m)
  BY <1>1, <1>2, <1>3, <1>4, <1>5 DEF Dispatched
<1> QED
  BY <1>5, <1>6

\* A waiting call that is resolved is the one for the request; others keep.
LEMMA ResolveEffect ==
    ASSUME NEW r, NEW st, NEW res, Resolve(r, st, res), DataInv, NEW t \in Task
    PROVE  /\ DOMAIN call' = Task
           /\ \/ call'[t] = call[t]
              \/ /\ call[t].req = r /\ call[t].st = "waiting"
                 /\ call'[t] = [st |-> st, req |-> r, ask |-> call[t].ask, res |-> res]
<1>1. DOMAIN call' = Task
  BY DEF Resolve
<1>2. call'[t] = IF call[t].req = r /\ call[t].st = "waiting"
                 THEN [call[t] EXCEPT !.st = st, !.res = res] ELSE call[t]
  BY DEF Resolve
<1>3. DOMAIN call[t] = {"st", "req", "ask", "res"}
  BY DEF DataInv, CallOK
<1> QED
  BY <1>1, <1>2, <1>3

\* A record of a call.
LEMMA CallRecord ==
    ASSUME NEW st \in {"free", "waiting", "ok", "failed"}, NEW r \in Req \union {0}, NEW ask,
           NEW res \in Seq(Details)
    PROVE  CallOK([st |-> st, req |-> r, ask |-> ask, res |-> res])
<1> DEFINE c == [st |-> st, req |-> r, ask |-> ask, res |-> res]
<1>1. c.st = st /\ c.req = r /\ c.res = res
  OBVIOUS
<1>2. DOMAIN c = {"st", "req", "ask", "res"}
  OBVIOUS
<1> HIDE DEF c
<1>3. CallOK(c)
  BY <1>1, <1>2 DEF CallOK
<1> QED
  BY <1>3 DEF c

LEMMA InitData == Init => DataInv
<1> SUFFICES ASSUME Init PROVE DataInv
  OBVIOUS
<1>0. <<>> \in Seq(Details) /\ <<>> \in Seq(Messages)
  OBVIOUS
<1>1. CallOK(Free)
  BY <1>0, CallRecord DEF Free
<1>2. jobs = {} /\ chan = <<>> /\ nextId = 0 /\ pend = <<>> /\ call = [t \in Task |-> Free]
  BY DEF Init
<1>3. DOMAIN pend = {}
  BY <1>2
<1>4. DOMAIN call = Task /\ \A t \in Task : CallOK(call[t])
  BY <1>1, <1>2
<1> QED
  BY <1>0, <1>2, <1>3, <1>4 DEF DataInv

\* A call that fails keeps its question and what it has.
LEMMA FailedCallOK ==
    ASSUME NEW c, CallOK(c)
    PROVE  /\ CallOK([c EXCEPT !.st = "failed"])
           /\ [c EXCEPT !.st = "failed"].st = "failed"
           /\ [c EXCEPT !.st = "failed"].req = c.req
           /\ [c EXCEPT !.st = "failed"].ask = c.ask
           /\ [c EXCEPT !.st = "failed"].res = c.res
<1> DEFINE d == [c EXCEPT !.st = "failed"]
<1>1. DOMAIN c = {"st", "req", "ask", "res"}
  BY DEF CallOK
<1>2. DOMAIN d = {"st", "req", "ask", "res"}
  BY <1>1
<1>3. d.st = "failed" /\ d.req = c.req /\ d.ask = c.ask /\ d.res = c.res
  BY <1>1
<1> HIDE DEF d
<1>4. CallOK(d)
  BY <1>2, <1>3 DEF CallOK
<1> QED
  BY <1>3, <1>4 DEF d

\* The data stay in their types, whatever the order of the steps.
LEMMA DataInvInductive == DataInv /\ [Next]_vars => DataInv'
<1> SUFFICES ASSUME DataInv, [Next]_vars PROVE DataInv'
  OBVIOUS
<1> DEFINE J == jobs' \subseteq Seq(Messages) \ {<<>>}
           C == chan' \in Seq(Messages)
           N == nextId' \in Nat
           P == DOMAIN pend' \subseteq Req /\ \A r \in DOMAIN pend' : pend'[r] \in Seq(Details)
           K == DOMAIN call' = Task /\ \A t \in Task : CallOK(call'[t])
<1>1. ASSUME J, C, N, P, K PROVE DataInv'
  BY <1>1 DEF DataInv
<1>2. /\ UNCHANGED jobs => J
      /\ UNCHANGED chan => C
      /\ UNCHANGED nextId => N
      /\ UNCHANGED pend => P
      /\ UNCHANGED call => K
  BY DEF DataInv
<1>3. <<>> \in Seq(Details) /\ CallOK(Free)
  <2>1. <<>> \in Seq(Details)
    OBVIOUS
  <2> QED
    BY <2>1, CallRecord DEF Free
<1>5. CASE connect
  <2>1. <<Msg("nextValidId", 0, 1)>> \in Seq(Messages) \ {<<>>}
          /\ <<Msg("managedAccounts", 0, 0)>> \in Seq(Messages) \ {<<>>}
    BY GatewayMessages
  <2>2. J
    BY <1>2, <1>5, <2>1 DEF connect
  <2>3. UNCHANGED <<chan, nextId, pend, call>>
    BY <1>5 DEF connect, adapter
  <2> QED
    BY <1>1, <1>2, <2>2, <2>3
<1>6. CASE wait_for_bootstrap
  <2>1. <<Msg("accountEnd", 0, 0)>> \in Seq(Messages) \ {<<>>}
          /\ <<Msg("openOrderEnd", 0, 0)>> \in Seq(Messages) \ {<<>>}
    BY GatewayMessages
  <2>2. PositionsJob \in Seq(Messages) \ {<<>>}
    BY PositionsJobOK
  <2>3. jobs' = jobs \/ jobs' = jobs \union
            {<<Msg("accountEnd", 0, 0)>>, <<Msg("openOrderEnd", 0, 0)>>, PositionsJob}
    BY <1>6 DEF wait_for_bootstrap, PositionsJob
  <2>4. J
    BY <1>2, <2>1, <2>2, <2>3 DEF DataInv
  <2>5. UNCHANGED <<chan, nextId, pend, call>>
    BY <1>6 DEF wait_for_bootstrap, adapter
  <2> QED
    BY <1>1, <1>2, <2>4, <2>5
<1>7. CASE Gateway
  <2> PICK j \in jobs : Receive(j)
    BY <1>7 DEF Gateway
  <2>1. /\ j \in Seq(Messages) /\ j # <<>>
        /\ \A k \in jobs' : k \in jobs \/ (k = Tail(j) /\ k # <<>>)
        /\ chan' = Append(chan, Head(j)) \/ chan' = chan
        /\ UNCHANGED <<pend, call>>
    BY ReceiveEffect DEF adapter
  <2>2. Head(j) \in Messages /\ Tail(j) \in Seq(Messages)
    BY <2>1, TailOK
  <2>3. J /\ C
    <3>1. J
      BY <2>1, <2>2 DEF DataInv
    <3>2. Append(chan, Head(j)) \in Seq(Messages) /\ chan \in Seq(Messages)
      BY <2>2 DEF DataInv
    <3> QED
      BY <2>1, <3>1, <3>2
  <2>4. N
    <3>1. Head(j).type = "nextValidId" => Head(j).val \in Nat
      BY <2>2, MessageOfType
    <3> QED
      BY <3>1 DEF Receive, NextValidId, DataInv
  <2> QED
    BY <1>1, <1>2, <2>1, <2>3, <2>4
<1>8. CASE Dispatch
  <2> PICK m \in Messages : Dispatched(m)
    BY <1>8, DispatchEffect
  <2>1. J /\ C /\ N
    BY <1>2, TailOK DEF DataInv, Dispatched
  <2>2. CASE UNCHANGED <<pend, call>>
    BY <1>1, <1>2, <2>1, <2>2
  <2>3. CASE /\ m.type = "details" /\ UNCHANGED call
             /\ pend' = [q \in DOMAIN pend |->
                            IF q = m.req THEN Append(pend[q], m.val) ELSE pend[q]]
    <3>1. m.val \in Details
      BY <2>3, MessageOfType
    <3>2. \A q \in DOMAIN pend : Append(pend[q], m.val) \in Seq(Details)
      BY <3>1 DEF DataInv
    <3>3. P
      BY <2>3, <3>2 DEF DataInv
    <3> QED
      BY <1>1, <1>2, <2>1, <2>3, <3>3
  <2>4. CASE /\ m.req \in DOMAIN pend
             /\ pend' = [q \in DOMAIN pend \ {m.req} |-> pend[q]]
             /\ \E st \in {"ok", "failed"} : \E res \in {<<>>, pend[m.req]} :
                   Resolve(m.req, st, res)
    <3> PICK st \in {"ok", "failed"}, res \in {<<>>, pend[m.req]} : Resolve(m.req, st, res)
      BY <2>4
    <3>1. res \in Seq(Details) /\ m.req \in Req
      <4>1. pend[m.req] \in Seq(Details) /\ m.req \in Req
        BY <2>4 DEF DataInv
      <4> QED
        BY <1>3, <4>1
    <3>2. ASSUME NEW t \in Task PROVE CallOK(call'[t])
      <4>1. \/ call'[t] = call[t]
            \/ call'[t] = [st |-> st, req |-> m.req, ask |-> call[t].ask, res |-> res]
        BY ResolveEffect
      <4> QED
        BY <3>1, <4>1, CallRecord DEF DataInv
    <3>3. K
      BY <3>2 DEF Resolve
    <3>4. P
      BY <2>4 DEF DataInv
    <3> QED
      BY <1>1, <2>1, <3>3, <3>4
  <2> QED
    BY <2>2, <2>3, <2>4 DEF Dispatched
<1>9. CASE Eof
  <2>1. J
    BY <1>9 DEF Eof
  <2>2. UNCHANGED <<chan, nextId, pend, call>>
    BY <1>9 DEF Eof, adapter
  <2> QED
    BY <1>1, <1>2, <2>1, <2>2
<1>10. CASE disconnect
  <2>1. J /\ P /\ UNCHANGED <<chan, nextId>>
    BY <1>10 DEF disconnect
  <2>2. K
    BY <1>10, FailedCallOK DEF disconnect, DataInv
  <2> QED
    BY <1>1, <1>2, <2>1, <2>2
<1>11. CASE alloc_order_id
  <2>1. J
    <3>1. CASE UNCHANGED jobs
      BY <1>2, <3>1
    <3>2. CASE \E v \in 1 .. nextId + 1 : jobs' = jobs \union {<<Msg("nextValidId", 0, v)>>}
      <4> PICK v \in 1 .. nextId + 1 : jobs' = jobs \union {<<Msg("nextValidId", 0, v)>>}
        BY <3>2
      <4>1. v \in Nat
        BY DEF DataInv
      <4>2. <<Msg("nextValidId", 0, v)>> \in Seq(Messages) \ {<<>>}
        BY <4>1, GatewayMessages
      <4> QED
        BY <4>2 DEF DataInv
    <3> QED
      BY <1>11, <3>1, <3>2 DEF alloc_order_id
  <2>2. N /\ UNCHANGED <<chan, pend, call>>
    BY <1>11 DEF alloc_order_id, adapter, DataInv
  <2> QED
    BY <1>1, <1>2, <2>1, <2>2
<1>12. ASSUME NEW t \in Task, Timeout(t) PROVE DataInv'
  <2>1. UNCHANGED <<jobs, chan, nextId>>
    BY <1>12 DEF Timeout, client
  <2>2. P
    BY <1>12 DEF Timeout, DataInv
  <2>3. K
    <3>1. CallOK([call[t] EXCEPT !.st = "failed"])
      BY FailedCallOK DEF DataInv
    <3> QED
      BY <1>12, <3>1 DEF Timeout, DataInv
  <2> QED
    BY <1>1, <1>2, <2>1, <2>2, <2>3
<1>13. ASSUME NEW t \in Task, NEW ask, Ask(t, ask) PROVE DataInv'
  <2> PICK r : Asked(t, ask, r)
    BY <1>13, AskEffect
  <2>0. /\ r \in Req
        /\ pend' = [q \in DOMAIN pend \union {r} |-> IF q = r THEN <<>> ELSE pend[q]]
        /\ \E st \in {"waiting", "failed"} :
               call' = [call EXCEPT ![t] = [st |-> st, req |-> r, ask |-> ask, res |-> <<>>]]
        /\ \/ jobs' = jobs
           \/ jobs' = jobs \union {Answer(r, ask)}
           \/ jobs' = jobs \union {<<Msg("error", r, 200)>>}
        /\ UNCHANGED <<chan, nextId>>
    BY DEF Asked
  <2>1. <<Msg("error", r, 200)>> \in Seq(Messages) \ {<<>>}
    BY <2>0, GatewayMessages
  <2>2. J
    <3>1. Answer(r, ask) \in Seq(Messages) \ {<<>>}
      BY <2>0, AnswerOK
    <3>2. jobs \subseteq Seq(Messages) \ {<<>>}
      BY DEF DataInv
    <3> QED
      BY <2>0, <2>1, <3>1, <3>2, ZenonT(60)
  <2>3. P
    BY <1>3, <2>0 DEF DataInv
  <2>4. K
    <3> PICK st \in {"waiting", "failed"} :
               call' = [call EXCEPT ![t] = [st |-> st, req |-> r, ask |-> ask, res |-> <<>>]]
      BY <2>0
    <3>1. CallOK([st |-> st, req |-> r, ask |-> ask, res |-> <<>>])
      BY <1>3, <2>0, CallRecord
    <3> QED
      BY <3>1 DEF DataInv
  <2> QED
    BY <1>1, <1>2, <2>0, <2>2, <2>3, <2>4
<1>14. ASSUME NEW t \in Task, CallTaken(t) PROVE DataInv'
  <2>1. K
    BY <1>3, <1>14 DEF CallTaken, DataInv
  <2> QED
    BY <1>1, <1>2, <1>14, <2>1 DEF CallTaken, client, adapter
<1>15. CASE UNCHANGED <<client, adapter, call, used>>
  BY <1>1, <1>2, <1>15 DEF client, adapter
<1> QED
  BY <1>5, <1>6, <1>7, <1>8, <1>9, <1>10, <1>11, <1>12, <1>13, <1>14, <1>15, StepKinds

LEMMA DataInvHolds == Spec => []DataInv
  BY InitData, DataInvInductive, PTL DEF Spec

-----------------------------------------------------------------------------
(* Order ids.                                                              *)

OrderInv ==
    /\ used \in Seq(Nat)
    /\ \A i \in DOMAIN used : used[i] < nextId
    /\ OrderIdsFresh

\* Only alloc_order_id hands out an id, and no step lowers the counter, the
\* gateway's nextValidId included.
LEMMA CounterGrows ==
    ASSUME DataInv, [Next]_vars
    PROVE  alloc_order_id \/ (nextId' >= nextId /\ UNCHANGED used)
<1>1. nextId \in Nat
  BY DEF DataInv
<1>2. UNCHANGED <<nextId, used>> => nextId' >= nextId /\ UNCHANGED used
  BY <1>1
<1>3. connect => UNCHANGED <<nextId, used>>
  BY DEF connect
<1>4. wait_for_bootstrap => UNCHANGED <<nextId, used>>
  BY DEF wait_for_bootstrap
<1>5. Gateway => nextId' >= nextId /\ UNCHANGED used
  <2> SUFFICES ASSUME NEW j \in jobs, Receive(j) PROVE nextId' >= nextId /\ UNCHANGED used
    BY DEF Gateway
  <2>1. j \in Seq(Messages) /\ j # <<>>
    BY DEF DataInv
  <2>2. Head(j).type = "nextValidId" => Head(j).val \in Nat
    BY <2>1, TailOK, MessageOfType
  <2> QED
    BY <1>1, <2>2 DEF Receive, NextValidId
<1>6. Dispatch => UNCHANGED <<nextId, used>>
  BY DEF Dispatch
<1>7. Eof \/ disconnect => UNCHANGED <<nextId, used>>
  BY DEF Eof, disconnect
<1>8. ASSUME NEW t \in Task PROVE Timeout(t) => UNCHANGED <<nextId, used>>
  BY DEF Timeout, client
<1>9. ASSUME NEW t \in Task, NEW ask PROVE Ask(t, ask) => UNCHANGED nextId
  BY DEF Ask
<1>10. ASSUME NEW t \in Task PROVE CallTaken(t) => UNCHANGED <<nextId, used>>
  BY DEF CallTaken, client
<1>11. UNCHANGED <<client, adapter, call, used>> => UNCHANGED <<nextId, used>>
  BY DEF client
<1> QED
  BY <1>2, <1>3, <1>4, <1>5, <1>6, <1>7, <1>8, <1>9, <1>10, <1>11, StepKinds

\* No order id is handed out twice by alloc_order_id, whatever the gateway's
\* nextValidId messages say and whenever they come.
THEOREM OrderIdsFreshAlways == Spec => []OrderIdsFresh
<1>1. Init => OrderInv
  BY DEF Init, OrderInv, OrderIdsFresh
<1>2. ASSUME DataInv, OrderInv, [Next]_vars PROVE OrderInv'
  <2>0. used \in Seq(Nat) /\ nextId \in Nat /\ nextId' \in Nat /\ Len(used) \in Nat
    BY <1>2, DataInvInductive DEF OrderInv, DataInv
  <2>1. CASE nextId' >= nextId /\ UNCHANGED used
    <3>1. \A i \in DOMAIN used : used[i] \in Nat
      BY <2>0
    <3> QED
      BY <1>2, <2>0, <2>1, <3>1 DEF OrderInv, OrderIdsFresh
  <2>2. CASE alloc_order_id
    <3> DEFINE n == Len(used)
    <3>1. used' = Append(used, nextId) /\ nextId' = nextId + 1
      BY <2>2 DEF alloc_order_id
    <3>2. /\ used' \in Seq(Nat) /\ DOMAIN used' = 1 .. n + 1 /\ DOMAIN used = 1 .. n
          /\ \A i \in 1 .. n : used'[i] = used[i]
          /\ used'[n + 1] = nextId
      BY <2>0, <3>1
    <3>3. /\ \A i \in 1 .. n : used[i] < nextId /\ used[i] \in Nat
          /\ \A i, j \in 1 .. n : i < j => used[i] < used[j]
      <4>1. \A i \in DOMAIN used : used[i] < nextId /\ used[i] \in Nat
        BY <1>2, <2>0 DEF OrderInv
      <4>2. \A i, j \in DOMAIN used : i < j => used[i] < used[j]
        BY <1>2 DEF OrderInv, OrderIdsFresh
      <4>3. DOMAIN used = 1 .. n
        BY <3>2
      <4> HIDE DEF n
      <4> QED
        BY <4>1, <4>2, <4>3
    <3>4. n \in Nat
      BY <2>0
    <3> HIDE DEF n
    <3>5. ASSUME NEW i \in 1 .. n + 1 PROVE used'[i] < nextId'
      <4>1. CASE i \in 1 .. n
        <5>1. used'[i] < nextId /\ used'[i] \in Nat
          BY <3>2, <3>3, <4>1
        <5>2. nextId \in Nat /\ nextId' = nextId + 1
          BY <2>0, <3>1
        <5> QED
          BY <5>1, <5>2
      <4>2. CASE i = n + 1
        <5>1. used'[i] = nextId
          BY <3>2, <4>2
        <5> QED
          BY <2>0, <3>1, <5>1
      <4> QED
        BY <3>4, <4>1, <4>2
    <3>6. ASSUME NEW i \in 1 .. n + 1, NEW j \in 1 .. n + 1, i < j PROVE used'[i] < used'[j]
      <4>1. CASE j \in 1 .. n
        BY <3>2, <3>3, <3>4, <3>6, <4>1
      <4>2. CASE j = n + 1
        BY <3>2, <3>3, <3>4, <3>6, <4>2
      <4> QED
        BY <3>4, <4>1, <4>2
    <3> QED
      BY <3>2, <3>5, <3>6 DEF OrderInv, OrderIdsFresh
  <2> QED
    BY <1>2, <2>1, <2>2, CounterGrows
<1>3. OrderInv => OrderIdsFresh
  BY DEF OrderInv
<1> QED
  BY <1>1, <1>2, <1>3, DataInvHolds, PTL DEF Spec

-----------------------------------------------------------------------------
(* Answers.                                                                *)

\* A message that the gateway is going to send or that waits for dispatch.
Flying(m) ==
    \/ \E j \in jobs : \E i \in DOMAIN j : j[i] = m
    \/ \E i \in DOMAIN chan : chan[i] = m

OwnInv ==
    /\ \A t \in Task : \A m : Flying(m) /\ m.type = "details" /\ m.req = call[t].req =>
          Fits(call[t].ask, m.val)
    /\ \A t \in Task : call[t].req \in DOMAIN pend =>
          \A i \in DOMAIN pend[call[t].req] : Fits(call[t].ask, pend[call[t].req][i])
    /\ \A t \in Task : \A i \in DOMAIN call[t].res : Fits(call[t].ask, call[t].res[i])

LEMMA FlyingMentioned ==
    ASSUME NEW m, Flying(m)
    PROVE  m.req \in Mentioned
<1>1. CASE \E i \in DOMAIN chan : chan[i] = m
  BY <1>1 DEF Mentioned
<1>2. CASE \E j \in jobs : \E i \in DOMAIN j : j[i] = m
  <2>1. m \in UNION {{j[i] : i \in DOMAIN j} : j \in jobs}
    BY <1>2
  <2> QED
    BY <2>1 DEF Mentioned
<1> QED
  BY <1>1, <1>2 DEF Flying

LEMMA FlyingMessage ==
    ASSUME DataInv, NEW m, Flying(m)
    PROVE  m \in Messages
  BY DEF DataInv, Flying

\* The receive task and the dispatcher make no message.
LEMMA ReceivedFlew ==
    ASSUME DataInv, NEW j \in jobs, Receive(j), NEW m, Flying(m)'
    PROVE  Flying(m)
<1>1. /\ j \in Seq(Messages) /\ j # <<>>
      /\ \A k \in jobs' : k \in jobs \/ (k = Tail(j) /\ k # <<>>)
      /\ chan' = Append(chan, Head(j)) \/ chan' = chan
  BY ReceiveEffect
<1>2. /\ Head(j) = j[1] /\ 1 \in DOMAIN j
      /\ \A i \in DOMAIN Tail(j) : i + 1 \in DOMAIN j /\ Tail(j)[i] = j[i + 1]
  BY <1>1
<1>3. ASSUME NEW k \in jobs', NEW i \in DOMAIN k, k[i] = m PROVE Flying(m)
  BY <1>1, <1>2, <1>3 DEF Flying
<1>4. ASSUME NEW i \in DOMAIN chan', chan'[i] = m PROVE Flying(m)
  <2>1. CASE chan' = chan
    BY <1>4, <2>1 DEF Flying
  <2>2. CASE chan' = Append(chan, Head(j))
    <3>1. chan \in Seq(Messages)
      BY DEF DataInv
    <3>2. (i \in DOMAIN chan /\ chan'[i] = chan[i]) \/ chan'[i] = Head(j)
      BY <2>2, <3>1
    <3> QED
      BY <1>2, <1>4, <3>2 DEF Flying
  <2> QED
    BY <1>1, <2>1, <2>2
<1> QED
  BY <1>3, <1>4 DEF Flying

LEMMA DispatchedFlew ==
    ASSUME DataInv, NEW d, Dispatched(d)
    PROVE  /\ Flying(d)
           /\ \A m : Flying(m)' => Flying(m)
<1>1. chan \in Seq(Messages) /\ chan # <<>> /\ d = Head(chan) /\ chan' = Tail(chan) /\ jobs' = jobs
  BY DEF Dispatched, DataInv
<1>2. /\ d = chan[1] /\ 1 \in DOMAIN chan
      /\ \A i \in DOMAIN chan' : i + 1 \in DOMAIN chan /\ chan'[i] = chan[i + 1]
  BY <1>1
<1> QED
  BY <1>1, <1>2 DEF Flying

\* A step that brings no details: it makes no call, and it may end one or
\* drop an entry.
Quiet ==
    /\ \A m : Flying(m)' /\ m.type = "details" => Flying(m)
    /\ \A t \in Task : \/ /\ call'[t].req = call[t].req /\ call'[t].ask = call[t].ask
                          /\ call'[t].res = call[t].res
                       \/ call'[t] = Free
    /\ \A q \in DOMAIN pend' : q \in DOMAIN pend /\ pend'[q] = pend[q]

\* Jobs that are new and hold no details.
LEMMA NewJobs ==
    ASSUME NEW S, jobs' \subseteq jobs \union S, UNCHANGED chan,
           \A j \in S : \A i \in DOMAIN j : j[i].type # "details"
    PROVE  \A m : Flying(m)' /\ m.type = "details" => Flying(m)
  BY DEF Flying

LEMMA QuietSteps ==
    ASSUME DataInv, [Next]_vars
    PROVE  \/ Quiet
           \/ \E m \in Messages : Dispatched(m)
           \/ \E t \in Task : \E ask, r : Asked(t, ask, r)
<1> DEFINE F == \A m : Flying(m)' /\ m.type = "details" => Flying(m)
           K == \A t \in Task : \/ /\ call'[t].req = call[t].req /\ call'[t].ask = call[t].ask
                                   /\ call'[t].res = call[t].res
                                \/ call'[t] = Free
           P == \A q \in DOMAIN pend' : q \in DOMAIN pend /\ pend'[q] = pend[q]
<1>1. F /\ K /\ P => Quiet
  BY DEF Quiet
<1>2. /\ UNCHANGED <<jobs, chan>> => F
      /\ UNCHANGED call => K
      /\ UNCHANGED pend => P
  BY DEF Flying
<1>3. CASE connect
  <2> DEFINE S == {<<Msg("nextValidId", 0, 1)>>, <<Msg("managedAccounts", 0, 0)>>}
  <2>1. \A j \in S : \A i \in DOMAIN j : j[i].type # "details"
    BY DEF Msg
  <2>2. jobs' \subseteq jobs \union S /\ UNCHANGED <<chan, call, pend>>
    BY <1>3 DEF connect, adapter
  <2> HIDE DEF S
  <2>3. F
    BY <2>1, <2>2, NewJobs
  <2> QED
    BY <1>1, <1>2, <2>2, <2>3
<1>4. CASE wait_for_bootstrap
  <2> DEFINE S == {<<Msg("accountEnd", 0, 0)>>, <<Msg("openOrderEnd", 0, 0)>>, PositionsJob}
  <2>1. \A j \in S : \A i \in DOMAIN j : j[i].type # "details"
    <3>1. \A i \in DOMAIN PositionsJob : PositionsJob[i].type # "details"
      BY PositionsJobOK
    <3>2. \A j \in {<<Msg("accountEnd", 0, 0)>>, <<Msg("openOrderEnd", 0, 0)>>} :
             \A i \in DOMAIN j : j[i].type # "details"
      BY DEF Msg
    <3> QED
      BY <3>1, <3>2
  <2>2. jobs' \subseteq jobs \union S /\ UNCHANGED <<chan, call, pend>>
    BY <1>4 DEF wait_for_bootstrap, adapter, PositionsJob
  <2> HIDE DEF S
  <2>3. F
    BY <2>1, <2>2, NewJobs
  <2> QED
    BY <1>1, <1>2, <2>2, <2>3
<1>5. CASE Gateway
  <2> PICK j \in jobs : Receive(j)
    BY <1>5 DEF Gateway
  <2>1. F
    BY ReceivedFlew
  <2>2. UNCHANGED <<call, pend>>
    BY DEF Receive, adapter
  <2> QED
    BY <1>1, <1>2, <2>1, <2>2
<1>6. CASE Dispatch
  BY <1>6, DispatchEffect
<1>7. CASE Eof
  <2>1. jobs' = {} /\ UNCHANGED <<chan, call, pend>>
    BY <1>7 DEF Eof, adapter
  <2>2. F
    BY <2>1 DEF Flying
  <2> QED
    BY <1>1, <1>2, <2>1, <2>2
<1>8. CASE disconnect
  <2>1. jobs' = {} /\ UNCHANGED chan /\ P
    BY <1>8 DEF disconnect
  <2>2. F
    BY <2>1 DEF Flying
  <2>3. ASSUME NEW t \in Task
        PROVE  /\ call'[t].req = call[t].req /\ call'[t].ask = call[t].ask
               /\ call'[t].res = call[t].res
    <3>1. call'[t] = call[t] \/ call'[t] = [call[t] EXCEPT !.st = "failed"]
      BY <1>8 DEF disconnect
    <3>2. CallOK(call[t])
      BY DEF DataInv
    <3> QED
      BY <3>1, <3>2, FailedCallOK
  <2> QED
    BY <1>1, <2>1, <2>2, <2>3
<1>9. CASE alloc_order_id
  <2>1. PICK v : jobs' \subseteq jobs \union {<<Msg("nextValidId", 0, v)>>}
    BY <1>9 DEF alloc_order_id
  <2> DEFINE S == {<<Msg("nextValidId", 0, v)>>}
  <2>2. \A j \in S : \A i \in DOMAIN j : j[i].type # "details"
    BY DEF Msg
  <2>3. UNCHANGED <<chan, call, pend>>
    BY <1>9 DEF alloc_order_id, adapter
  <2>4. jobs' \subseteq jobs \union S
    BY <2>1
  <2> HIDE DEF S
  <2>5. F
    BY <2>2, <2>3, <2>4, NewJobs
  <2> QED
    BY <1>1, <1>2, <2>3, <2>5
<1>10. ASSUME NEW t \in Task, Timeout(t) PROVE Quiet
  <2>1. UNCHANGED <<jobs, chan>> /\ P
    BY <1>10 DEF Timeout, client
  <2>2. call' = [call EXCEPT ![t] = [call[t] EXCEPT !.st = "failed"]]
    BY <1>10 DEF Timeout
  <2>3. CallOK(call[t]) /\ DOMAIN call = Task
    BY DEF DataInv
  <2>4. K
    BY <2>2, <2>3, FailedCallOK
  <2> QED
    BY <1>1, <1>2, <2>1, <2>4
<1>11. ASSUME NEW t \in Task, CallTaken(t) PROVE Quiet
  <2>1. UNCHANGED <<jobs, chan, pend>>
    BY <1>11 DEF CallTaken, client, adapter
  <2>2. K
    BY <1>11 DEF CallTaken, DataInv
  <2> QED
    BY <1>1, <1>2, <2>1, <2>2
<1>12. CASE UNCHANGED <<client, adapter, call, used>>
  BY <1>1, <1>2, <1>12 DEF client, adapter
<1>13. ASSUME NEW t \in Task, NEW ask, Ask(t, ask) PROVE \E r : Asked(t, ask, r)
  BY <1>13, AskEffect
<1> HIDE DEF F, K, P
<1> QED
  BY <1>3, <1>4, <1>5, <1>6, <1>7, <1>8, <1>9, <1>10, <1>11, <1>12, <1>13, StepKinds

LEMMA OwnInvInductive == DataInv /\ OwnInv /\ [Next]_vars => OwnInv'
<1> SUFFICES ASSUME DataInv, OwnInv, [Next]_vars PROVE OwnInv'
  OBVIOUS
<1> USE DEF OwnInv
<1>0. 0 \notin Req /\ DOMAIN pend \subseteq Req
  BY DEF Req, DataInv
<1>1. ASSUME NEW m, Flying(m), m.type = "details" PROVE m.req \in Req
  BY <1>1, FlyingMessage, MessageOfType
<1>2. Free.req = 0 /\ Free.res = <<>> /\ DOMAIN Free.res = {}
  BY DEF Free
<1>3. CASE Quiet
  <2>1. ASSUME NEW t \in Task, NEW m, Flying(m)', m.type = "details", m.req = call'[t].req
        PROVE  Fits(call'[t].ask, m.val)
    <3>1. Flying(m) /\ m.req # 0
      BY <1>0, <1>1, <1>3, <2>1 DEF Quiet
    <3> QED
      BY <1>2, <1>3, <2>1, <3>1 DEF Quiet
  <2>2. ASSUME NEW t \in Task, call'[t].req \in DOMAIN pend',
               NEW i \in DOMAIN pend'[call'[t].req]
        PROVE  Fits(call'[t].ask, pend'[call'[t].req][i])
    BY <1>0, <1>2, <1>3, <2>2 DEF Quiet
  <2>3. ASSUME NEW t \in Task, NEW i \in DOMAIN call'[t].res
        PROVE  Fits(call'[t].ask, call'[t].res[i])
    BY <1>2, <1>3, <2>3 DEF Quiet
  <2> QED
    BY <2>1, <2>2, <2>3
<1>4. ASSUME NEW d \in Messages, Dispatched(d) PROVE OwnInv'
  <2>1. Flying(d) /\ \A m : Flying(m)' => Flying(m)
    BY <1>4, DispatchedFlew
  <2>2. CASE UNCHANGED <<pend, call>>
    BY <2>1, <2>2
  <2>3. CASE /\ d.type = "details" /\ UNCHANGED call
             /\ pend' = [q \in DOMAIN pend |->
                            IF q = d.req THEN Append(pend[q], d.val) ELSE pend[q]]
    <3>1. ASSUME NEW t \in Task, call[t].req \in DOMAIN pend',
                 NEW i \in DOMAIN pend'[call[t].req]
          PROVE  Fits(call[t].ask, pend'[call[t].req][i])
      <4> DEFINE q == call[t].req
                 old == pend[q]
      <4>1. q \in DOMAIN pend /\ old \in Seq(Details)
        BY <2>3, <3>1 DEF DataInv
      <4>2. CASE q # d.req
        BY <2>3, <3>1, <4>1, <4>2
      <4>3. CASE q = d.req
        <5>1. pend'[q] = Append(old, d.val)
          BY <2>3, <4>1, <4>3
        <5>2. Fits(call[t].ask, d.val)
          BY <2>1, <2>3, <4>3
        <5>3. \A k \in DOMAIN old : Fits(call[t].ask, old[k])
          BY <4>1
        <5>4. i \in DOMAIN Append(old, d.val)
          BY <3>1, <5>1
        <5> HIDE DEF old, q
        <5>5. (i \in DOMAIN old /\ Append(old, d.val)[i] = old[i]) \/ Append(old, d.val)[i] = d.val
          BY <4>1, <5>4
        <5>6. Fits(call[t].ask, pend'[q][i])
          BY <5>1, <5>2, <5>3, <5>5
        <5> QED
          BY <5>6 DEF q
      <4> QED
        BY <4>2, <4>3
    <3> QED
      BY <2>1, <2>3, <3>1
  <2>4. CASE /\ d.req \in DOMAIN pend
             /\ pend' = [q \in DOMAIN pend \ {d.req} |-> pend[q]]
             /\ \E st \in {"ok", "failed"} : \E res \in {<<>>, pend[d.req]} :
                   Resolve(d.req, st, res)
    <3> PICK st \in {"ok", "failed"}, res \in {<<>>, pend[d.req]} : Resolve(d.req, st, res)
      BY <2>4
    <3>1. ASSUME NEW t \in Task
          PROVE  /\ call'[t].req = call[t].req /\ call'[t].ask = call[t].ask
                 /\ \A i \in DOMAIN call'[t].res : Fits(call'[t].ask, call'[t].res[i])
      <4>1. \/ call'[t] = call[t]
            \/ /\ call[t].req = d.req
               /\ call'[t] = [st |-> st, req |-> d.req, ask |-> call[t].ask, res |-> res]
        BY ResolveEffect
      <4>2. CASE call'[t] = call[t]
        BY <4>2
      <4>3. CASE /\ call[t].req = d.req
                 /\ call'[t] = [st |-> st, req |-> d.req, ask |-> call[t].ask, res |-> res]
        <5>1. call'[t].req = d.req /\ call'[t].ask = call[t].ask /\ call'[t].res = res
          BY <4>3
        <5>2. \A i \in DOMAIN res : Fits(call[t].ask, res[i])
          <6>1. CASE res = <<>>
            BY <6>1
          <6>2. CASE res = pend[d.req]
            BY <2>4, <4>3, <6>2
          <6> QED
            BY <6>1, <6>2
        <5> QED
          BY <4>3, <5>1, <5>2
      <4> QED
        BY <4>1, <4>2, <4>3
    <3> QED
      BY <2>1, <2>4, <3>1
  <2> QED
    BY <1>4, <2>2, <2>3, <2>4 DEF Dispatched
<1>5. ASSUME NEW u \in Task, NEW ask, NEW r, Asked(u, ask, r) PROVE OwnInv'
  <2>1. /\ r \in Req /\ r \notin Mentioned
        /\ pend' = [q \in DOMAIN pend \union {r} |-> IF q = r THEN <<>> ELSE pend[q]]
        /\ \/ jobs' = jobs
           \/ jobs' = jobs \union {Answer(r, ask)}
           \/ jobs' = jobs \union {<<Msg("error", r, 200)>>}
        /\ UNCHANGED chan
    BY <1>5 DEF Asked
  <2>2. PICK st : call' = [call EXCEPT ![u] =
                              [st |-> st, req |-> r, ask |-> ask, res |-> <<>>]]
    BY <1>5 DEF Asked
  <2>3. /\ call'[u].req = r /\ call'[u].ask = ask /\ call'[u].res = <<>>
        /\ \A t \in Task \ {u} : call'[t] = call[t] /\ call[t].req # r
        /\ r \notin DOMAIN pend
    BY <2>1, <2>2 DEF DataInv, Mentioned
  <2>4. ASSUME NEW m, Flying(m)', m.type = "details"
        PROVE  (Flying(m) /\ m.req # r) \/ (m.req = r /\ Fits(ask, m.val))
    <3>1. CASE Flying(m)
      BY <2>1, <3>1, FlyingMentioned
    <3>2. CASE ~Flying(m)
      <4>1. PICK j \in jobs' : j \notin jobs /\ \E i \in DOMAIN j : j[i] = m
        BY <2>1, <2>4, <3>2 DEF Flying
      <4>2. CASE j = Answer(r, ask)
        BY <2>1, <2>4, <4>1, <4>2, AnswerOK
      <4>3. CASE j = <<Msg("error", r, 200)>>
        <5>1. m.type = "error"
          BY <4>1, <4>3 DEF Msg
        <5> QED
          BY <2>4, <5>1
      <4> QED
        BY <2>1, <4>1, <4>2, <4>3
    <3> QED
      BY <3>1, <3>2
  <2>5. ASSUME NEW t \in Task, NEW m, Flying(m)', m.type = "details", m.req = call'[t].req
        PROVE  Fits(call'[t].ask, m.val)
    BY <2>3, <2>4, <2>5
  <2>6. ASSUME NEW t \in Task, call'[t].req \in DOMAIN pend',
               NEW i \in DOMAIN pend'[call'[t].req]
        PROVE  Fits(call'[t].ask, pend'[call'[t].req][i])
    <3>1. CASE t = u
      <4>1. pend'[call'[t].req] = <<>>
        BY <2>1, <2>3, <3>1
      <4> QED
        BY <2>6, <4>1
    <3>2. CASE t # u
      BY <2>1, <2>3, <2>6, <3>2
    <3> QED
      BY <3>1, <3>2
  <2>7. ASSUME NEW t \in Task, NEW i \in DOMAIN call'[t].res
        PROVE  Fits(call'[t].ask, call'[t].res[i])
    <3>1. t # u
      BY <2>3, <2>7
    <3> QED
      BY <2>3, <2>7, <3>1
  <2> QED
    BY <2>5, <2>6, <2>7
<1> QED
  BY <1>3, <1>4, <1>5, QuietSteps

LEMMA OwnInvHolds == Spec => []OwnInv
<1>1. ASSUME Init PROVE OwnInv
  <2>1. /\ \A t \in Task : call[t] = Free
        /\ jobs = {} /\ chan = <<>> /\ pend = <<>> /\ DOMAIN pend = {}
    BY <1>1 DEF Init
  <2>2. Free.res = <<>> /\ DOMAIN Free.res = {} /\ DOMAIN chan = {}
    BY <2>1 DEF Free
  <2> QED
    BY <2>1, <2>2 DEF OwnInv, Flying
<1> QED
  BY <1>1, OwnInvInductive, DataInvHolds, PTL DEF Spec

\* A call gets the answer to its own question, however late the answers to
\* the calls that timed out before it are dispatched.
THEOREM AnswersOwnAlways == Spec => []AnswersOwn
<1>1. OwnInv => AnswersOwn
  BY DEF OwnInv, AnswersOwn, Fits
<1> QED
  BY <1>1, OwnInvHolds, PTL

-----------------------------------------------------------------------------
(* Pending requests.                                                       *)

\* Main has a call only where it waits for one.
MainFree == boot \notin {"resolving", "listing", "legs"} => call["main"] = Free

AwaitInv ==
    /\ MainFree
    /\ boot = "start" => link = "down" /\ DOMAIN pend = {}
    /\ PendingAwaited

\* A call that is not waiting is left alone by all but its own task.
LEMMA OthersLeave ==
    ASSUME DataInv, NEW t \in Task, call[t].st # "waiting",
           Dispatch \/ disconnect \/ \E u \in Task : Timeout(u)
    PROVE  call'[t] = call[t]
<1>1. CASE Dispatch
  <2> PICK d \in Messages : Dispatched(d)
    BY <1>1, DispatchEffect
  <2>1. CASE UNCHANGED call
    BY <2>1
  <2>2. CASE \E st \in {"ok", "failed"} : \E res \in {<<>>, pend[d.req]} : Resolve(d.req, st, res)
    BY <2>2, ResolveEffect
  <2> QED
    BY <2>1, <2>2 DEF Dispatched
<1>2. CASE disconnect
  BY <1>2 DEF disconnect
<1>3. ASSUME NEW u \in Task, Timeout(u) PROVE call'[t] = call[t]
  BY <1>3 DEF Timeout, DataInv
<1> QED
  BY <1>1, <1>2, <1>3

LEMMA MainFreeInductive == DataInv /\ MainFree /\ [Next]_vars => MainFree'
<1> SUFFICES ASSUME DataInv, MainFree, [Next]_vars PROVE MainFree'
  OBVIOUS
<1>0. "main" \in Task /\ "recenter" \in Task /\ DOMAIN call = Task /\ Free.st = "free"
  BY DEF Task, DataInv, Free
<1>1. ASSUME UNCHANGED boot,
             boot = "legs" \/ call'["main"] = call["main"] \/ call'["main"] = Free
      PROVE  MainFree'
  BY <1>1 DEF MainFree
<1>2. CASE connect \/ wait_for_bootstrap
  <2>1. UNCHANGED call /\ boot \in {"start", "bootstrap"}
    BY <1>2 DEF connect, wait_for_bootstrap, Main
  <2> QED
    BY <2>1 DEF MainFree
<1>3. CASE wait_for_seeding \/ seed_positions_from_broker
  <2>1. UNCHANGED call /\ boot \in {"seeding", "seed"}
    BY <1>3 DEF wait_for_seeding, seed_positions_from_broker, Main
  <2> QED
    BY <2>1 DEF MainFree
<1>4. CASE AskChain("resolve", "resolving") \/ AskChain("chain", "listing")
  BY <1>4 DEF AskChain, Main, MainFree
<1>5. CASE resolve_hedge_contracts \/ resolve_underlying
  <2>1. call'["main"] = Free
    BY <1>0, <1>5 DEF resolve_hedge_contracts, resolve_underlying
  <2> QED
    BY <2>1 DEF MainFree
<1>6. CASE wait_for_underlying
  <2>1. UNCHANGED call /\ boot = "tick"
    BY <1>6 DEF wait_for_underlying
  <2> QED
    BY <2>1 DEF MainFree
<1>7. CASE subscribe_product
  <2>1. CASE qualify_option("main") /\ boot = "legs"
    <3>1. UNCHANGED boot
      BY <2>1 DEF qualify_option
    <3> QED
      BY <1>1, <2>1, <3>1
  <2>2. CASE Qualified("main")
    <3>1. UNCHANGED boot /\ call'["main"] = Free
      BY <1>0, <2>2 DEF Qualified
    <3> QED
      BY <1>1, <3>1
  <2>3. CASE UNCHANGED call /\ call["main"] = Free
    BY <2>3 DEF MainFree
  <2> QED
    BY <1>7, <2>1, <2>2, <2>3 DEF subscribe_product
<1>8. CASE Recenter
  <2>1. UNCHANGED boot
    BY <1>8 DEF Recenter, run_window_recenter, qualify_option, Qualified
  <2>2. CASE run_window_recenter
    BY <1>1, <2>1, <2>2 DEF run_window_recenter
  <2>3. CASE qualify_option("recenter")
    <3> PICK ask : Ask("recenter", ask)
      BY <2>3 DEF qualify_option
    <3> PICK r : Asked("recenter", ask, r)
      BY <1>0, AskEffect
    <3>1. call'["main"] = call["main"]
      BY <1>0 DEF Asked
    <3> QED
      BY <1>1, <2>1, <3>1
  <2>4. CASE Qualified("recenter")
    <3>1. call'["main"] = call["main"]
      BY <1>0, <2>4 DEF Qualified
    <3> QED
      BY <1>1, <2>1, <3>1
  <2> QED
    BY <1>8, <2>2, <2>3, <2>4 DEF Recenter
<1>9. CASE Gateway \/ Eof \/ alloc_order_id
  <2>1. UNCHANGED <<boot, call>>
    BY <1>9 DEF Gateway, Receive, Eof, alloc_order_id, runtime
  <2> QED
    BY <1>1, <2>1
<1>10. CASE Dispatch \/ \E t \in Task : Timeout(t)
  <2>1. UNCHANGED boot
    BY <1>10 DEF Dispatch, Timeout, runtime
  <2>2. call["main"] = Free => call'["main"] = Free
    BY <1>0, <1>10, OthersLeave
  <2> QED
    BY <2>1, <2>2 DEF MainFree
<1>11. CASE disconnect
  <2>1. boot = "running" /\ call["main"] = Free
    BY <1>11 DEF disconnect, Main, MainFree
  <2>2. call'["main"] = Free
    BY <1>0, <1>11, <2>1, OthersLeave
  <2> QED
    BY <2>2 DEF MainFree
<1>12. CASE UNCHANGED vars \/ \E p \in Ticks : Tick(p) \/ Fit(p)
  <2>1. UNCHANGED <<boot, call>>
    BY <1>12 DEF vars, runtime, Tick, Fit
  <2> QED
    BY <1>1, <2>1
<1> QED
  BY <1>2, <1>3, <1>4, <1>5, <1>6, <1>7, <1>8, <1>9, <1>10, <1>11, <1>12 DEF Next, MainStep

\* The boot never goes back to its start, and only connect brings the link up.
LEMMA StartOnce ==
    ASSUME [Next]_vars
    PROVE  /\ boot' = "start" => boot = "start" /\ (link = "down" => link' = "down")
           /\ link' = "up" => link = "up" \/ connect
<1>1. MainStep => \/ connect
                  \/ boot # "start" /\ boot' # "start" /\ UNCHANGED link
                  \/ UNCHANGED <<boot, link>>
  <2>1. wait_for_bootstrap => boot # "start" /\ boot' # "start" /\ UNCHANGED link
    BY DEF wait_for_bootstrap, Main
  <2>2. wait_for_seeding \/ seed_positions_from_broker \/ resolve_hedge_contracts
          => boot # "start" /\ boot' # "start" /\ UNCHANGED link
    BY DEF wait_for_seeding, seed_positions_from_broker, resolve_hedge_contracts, Main, client
  <2>3. AskChain("resolve", "resolving") \/ AskChain("chain", "listing")
          => boot # "start" /\ boot' # "start" /\ UNCHANGED link
    BY DEF AskChain, Main, Ask
  <2>4. resolve_underlying \/ wait_for_underlying
          => boot # "start" /\ boot' # "start" /\ UNCHANGED link
    BY DEF resolve_underlying, wait_for_underlying, client
  <2>5. subscribe_product => \/ boot # "start" /\ boot' # "start" /\ UNCHANGED link
                             \/ UNCHANGED <<boot, link>>
    BY DEF subscribe_product, qualify_option, Qualified, Main, Ask, client
  <2> QED
    BY <2>1, <2>2, <2>3, <2>4, <2>5 DEF MainStep
<1>2. connect => boot = "start" /\ boot' # "start"
  BY DEF connect, Main
<1>3. Recenter => UNCHANGED <<boot, link>>
  BY DEF Recenter, run_window_recenter, qualify_option, Qualified, Ask, client
<1>4. Gateway => UNCHANGED <<boot, link>>
  BY DEF Gateway, Receive, adapter, runtime
<1>5. Dispatch => UNCHANGED <<boot, link>>
  BY DEF Dispatch, runtime
<1>6. (\E t \in Task : Timeout(t)) => UNCHANGED <<boot, link>>
  BY DEF Timeout, runtime, client
<1>7. Eof => UNCHANGED boot /\ link = "up" /\ link' = "lost"
  BY DEF Eof, runtime
<1>8. disconnect => boot = "running" /\ boot' = "stopped" /\ link' = "lost"
  BY DEF disconnect, Main
<1>9. alloc_order_id => UNCHANGED <<boot, link>>
  BY DEF alloc_order_id, runtime
<1>10. UNCHANGED vars \/ (\E p \in Ticks : Tick(p) \/ Fit(p)) => UNCHANGED <<boot, link>>
  BY DEF vars, client, runtime, Tick, Fit
<1> QED
  BY <1>1, <1>2, <1>3, <1>4, <1>5, <1>6, <1>7, <1>8, <1>9, <1>10 DEF Next

LEMMA AwaitInvInductive == DataInv /\ AwaitInv /\ [Next]_vars => AwaitInv'
<1> SUFFICES ASSUME DataInv, AwaitInv, [Next]_vars PROVE AwaitInv'
  OBVIOUS
<1> DEFINE A(r) == \E t \in Task : call[t].req = r /\ call[t].st = "waiting"
           B(r) == \E t \in Task : call'[t].req = r /\ call'[t].st = "waiting"
           G == \A r \in DOMAIN pend' : (r \in DOMAIN pend /\ (A(r) => B(r))) \/ (link # "down" /\ (link = "up" => B(r)))
<1>0. DOMAIN call = Task /\ Free.st = "free"
  BY DEF DataInv, Free
<1>1. ASSUME G, connect => DOMAIN pend' = {} PROVE AwaitInv'
  <2>1. MainFree'
    BY MainFreeInductive DEF AwaitInv
  <2>2. ASSUME boot' = "start" PROVE link' = "down" /\ DOMAIN pend' = {}
    <3>1. boot = "start" /\ link = "down" /\ link' = "down" /\ DOMAIN pend = {}
      BY <2>2, StartOnce DEF AwaitInv
    <3> QED
      BY <1>1, <3>1
  <2>3. ASSUME link' = "up", NEW r \in DOMAIN pend' PROVE B(r)
    <3>1. link = "up" \/ DOMAIN pend' = {}
      BY <1>1, <2>3, StartOnce
    <3>2. link = "up"
      BY <2>3, <3>1
    <3>3. r \in DOMAIN pend => A(r)
      BY <3>2 DEF AwaitInv, PendingAwaited
    <3> QED
      BY <1>1, <2>3, <3>2, <3>3
  <2> QED
    BY <2>1, <2>2, <2>3 DEF AwaitInv, PendingAwaited
<1>2. CASE connect
  <2>1. UNCHANGED <<pend, call>> /\ boot = "start"
    BY <1>2 DEF connect, Main, adapter
  <2>2. DOMAIN pend' = {}
    BY <2>1 DEF AwaitInv
  <2> QED
    BY <1>1, <2>2
<1>3. CASE UNCHANGED <<pend, call>> /\ ~connect
  BY <1>1, <1>3
<1>4. CASE Dispatch
  <2> PICK d \in Messages : Dispatched(d)
    BY <1>4, DispatchEffect
  <2>1. ~connect
    <3>1. dispatching /\ UNCHANGED boot
      BY <1>4 DEF Dispatch, runtime
    <3> QED
      BY <3>1 DEF connect, Main
  <2>2. CASE UNCHANGED <<pend, call>>
    BY <1>3, <2>1, <2>2
  <2>3. CASE UNCHANGED call /\ DOMAIN pend' = DOMAIN pend
    BY <1>1, <2>1, <2>3
  <2>4. CASE /\ pend' = [q \in DOMAIN pend \ {d.req} |-> pend[q]]
             /\ \E st \in {"ok", "failed"} : \E res \in {<<>>, pend[d.req]} :
                   Resolve(d.req, st, res)
    <3>1. ASSUME NEW r \in DOMAIN pend', A(r) PROVE B(r)
      <4>1. r \in DOMAIN pend /\ r # d.req
        BY <2>4, <3>1
      <4>2. PICK t \in Task : call[t].req = r /\ call[t].st = "waiting"
        BY <3>1
      <4>3. call'[t] = call[t]
        <5> PICK st \in {"ok", "failed"}, res \in {<<>>, pend[d.req]} : Resolve(d.req, st, res)
          BY <2>4
        <5> QED
          BY <4>1, <4>2, ResolveEffect
      <4> QED
        BY <4>2, <4>3
    <3>2. DOMAIN pend' \subseteq DOMAIN pend
      BY <2>4
    <3> HIDE DEF A, B
    <3>3. G
      BY <3>1, <3>2
    <3> QED
      BY <1>1, <2>1, <3>3
  <2> QED
    BY <2>2, <2>3, <2>4 DEF Dispatched
<1>5. CASE disconnect
  <2>1. DOMAIN pend' = {}
    BY <1>5 DEF disconnect
  <2> QED
    BY <1>1, <2>1
<1>6. ASSUME NEW t \in Task, Timeout(t) PROVE AwaitInv'
  <2>1. /\ pend' = [q \in DOMAIN pend \ {call[t].req} |-> pend[q]]
        /\ \A u \in Task \ {t} : call'[u] = call[u]
        /\ UNCHANGED boot
    BY <1>0, <1>6 DEF Timeout, runtime
  <2>2. ~connect
    BY <2>1 DEF connect, Main
  <2>3. ASSUME NEW r \in DOMAIN pend', A(r) PROVE B(r)
    BY <2>1, <2>3
  <2> QED
    BY <1>1, <2>1, <2>2, <2>3
<1>7. ASSUME NEW t \in Task, NEW ask, Ask(t, ask), MayAsk(t) PROVE AwaitInv'
  <2> PICK r : Asked(t, ask, r)
    BY <1>7, AskEffect
  <2>1. call[t] = Free
    BY <1>7 DEF MayAsk, AwaitInv, MainFree
  <2>2. /\ pend' = [q \in DOMAIN pend \union {r} |-> IF q = r THEN <<>> ELSE pend[q]]
        /\ \A u \in Task \ {t} : call'[u] = call[u]
        /\ call'[t].req = r /\ (link = "up" => call'[t].st = "waiting")
        /\ link # "down"
    BY <1>0 DEF Asked
  <2>3. ASSUME NEW q \in DOMAIN pend, A(q) PROVE B(q)
    <3>1. PICK u \in Task : call[u].req = q /\ call[u].st = "waiting"
      BY <2>3
    <3>2. u # t
      BY <1>0, <2>1, <3>1
    <3> QED
      BY <2>2, <3>1, <3>2
  <2>4. G
    BY <2>2, <2>3
  <2>5. connect => DOMAIN pend' = {}
    <3>1. connect => UNCHANGED pend /\ boot = "start"
      BY DEF connect, Main, adapter
    <3> QED
      BY <3>1 DEF AwaitInv
  <2> QED
    BY <1>1, <2>4, <2>5
<1>8. ASSUME NEW t \in Task, CallTaken(t) PROVE AwaitInv'
  <2>1. UNCHANGED pend /\ call[t].st # "waiting" /\ \A u \in Task \ {t} : call'[u] = call[u]
    BY <1>0, <1>8 DEF CallTaken, adapter
  <2>2. ASSUME NEW r, A(r) PROVE B(r)
    BY <2>1, <2>2
  <2>3. connect => DOMAIN pend' = {}
    <3>1. connect => UNCHANGED pend /\ boot = "start"
      BY DEF connect, Main, adapter
    <3> QED
      BY <3>1 DEF AwaitInv
  <2> QED
    BY <1>1, <2>1, <2>2, <2>3
<1>9. CASE wait_for_bootstrap \/ Gateway \/ Eof \/ alloc_order_id
  BY <1>2, <1>3, <1>9 DEF wait_for_bootstrap, Gateway, Receive, Eof, alloc_order_id, adapter
<1>10. CASE UNCHANGED <<client, adapter, call, used>>
  BY <1>2, <1>3, <1>10 DEF adapter
<1> QED
  BY <1>2, <1>4, <1>5, <1>6, <1>7, <1>8, <1>9, <1>10, StepKinds

LEMMA AwaitInvHolds == Spec => []AwaitInv
<1>1. ASSUME Init PROVE AwaitInv
  <2>1. boot = "start" /\ link = "down" /\ DOMAIN pend = {} /\ call["main"] = Free
    BY <1>1 DEF Init, Task
  <2> QED
    BY <2>1 DEF AwaitInv, MainFree, PendingAwaited
<1> QED
  BY <1>1, AwaitInvInductive, DataInvHolds, PTL DEF Spec

\* While the connection stands no entry of pending_contract_details outlives
\* the timeout, the answer or the error of its call.
THEOREM PendingAwaitedAlways == Spec => []PendingAwaited
<1>1. AwaitInv => PendingAwaited
  BY DEF AwaitInv
<1> QED
  BY <1>1, AwaitInvHolds, PTL

-----------------------------------------------------------------------------
(* The seeding of the portfolio.                                           *)

Before(s, i, h) == \E k \in DOMAIN s : k < i /\ s[k] = Msg("position", 0, h)

\* The positions stay in front of their end.
QueueInv ==
    /\ \A j \in jobs : \A i \in DOMAIN j : j[i].type = "positionEnd" =>
          \A h \in Held : \/ h \in cache \/ Before(j, i, h)
                          \/ \E k \in DOMAIN chan : chan[k] = Msg("position", 0, h)
    /\ \A i \in DOMAIN chan : chan[i].type = "positionEnd" =>
          \A h \in Held : h \in cache \/ Before(chan, i, h)
    /\ "positionEnd" \in done => Held \subseteq cache

SeedInv ==
    /\ cache \subseteq Held /\ seed \subseteq Held
    /\ ~lost => QueueInv
    /\ (boot \in {"resolve", "resolving", "seed"} /\ ~lost) => "positionEnd" \in done
    /\ SeedWhole

\* The course of the boot, as far as the seeding goes.
LEMMA SeedSteps ==
    ASSUME [Next]_vars
    PROVE  /\ lost' = lost \/ lost' = TRUE
           /\ \/ UNCHANGED <<boot, seed>>
              \/ boot' \in {"bootstrap", "failed", "seeding", "stopped"}
              \/ boot' = "resolve" /\ (SeededWhole \/ lost' = TRUE)
              \/ boot = "resolve" /\ boot' = "resolving"
              \/ boot = "resolving" /\ boot' = "seed"
              \/ boot = "seed" /\ boot' = "chain" /\ seed' = cache
              \/ /\ boot \in {"chain", "listing", "tick", "legs"} /\ UNCHANGED seed
                 /\ boot' \in {"listing", "tick", "legs", "running"}
<1>1. connect \/ wait_for_bootstrap =>
        boot' \in {"bootstrap", "failed", "seeding"} /\ UNCHANGED lost
  BY DEF connect, wait_for_bootstrap, Main, counts
<1>2. wait_for_seeding =>
        /\ boot' = "resolve" /\ (SeededWhole \/ lost' = TRUE)
        /\ lost' = lost \/ lost' = TRUE
  BY DEF wait_for_seeding, Main
<1>3. AskChain("resolve", "resolving") => boot = "resolve" /\ boot' = "resolving" /\ UNCHANGED lost
  BY DEF AskChain, Main, Ask
<1>4. resolve_hedge_contracts => boot = "resolving" /\ boot' = "seed" /\ UNCHANGED lost
  BY DEF resolve_hedge_contracts, Main, counts
<1>5. seed_positions_from_broker => boot = "seed" /\ boot' = "chain" /\ seed' = cache /\ UNCHANGED lost
  BY DEF seed_positions_from_broker, Main, counts
<1>6. AskChain("chain", "listing") => boot = "chain" /\ boot' = "listing" /\ UNCHANGED <<seed, lost>>
  BY DEF AskChain, Main, Ask
<1>7. resolve_underlying \/ wait_for_underlying =>
        /\ boot \in {"listing", "tick"} /\ boot' \in {"tick", "legs", "running"}
        /\ UNCHANGED <<seed, lost>>
  BY DEF resolve_underlying, wait_for_underlying, counts
<1>8. subscribe_product => \/ UNCHANGED <<boot, seed, lost>>
                           \/ boot = "legs" /\ boot' = "running" /\ UNCHANGED <<seed, lost>>
  BY DEF subscribe_product, qualify_option, Qualified, Main, Ask, counts
<1>9. Recenter => UNCHANGED <<boot, seed, lost>>
  BY DEF Recenter, run_window_recenter, qualify_option, Qualified, Ask, counts
<1>10. Gateway => UNCHANGED <<boot, seed>> /\ (lost' = lost \/ lost' = TRUE)
  BY DEF Gateway, Receive, runtime
<1>11. Dispatch => UNCHANGED <<boot, seed, lost>>
  BY DEF Dispatch, runtime, counts
<1>12. Eof \/ alloc_order_id => UNCHANGED <<boot, seed, lost>>
  BY DEF Eof, alloc_order_id, runtime
<1>13. (\E t \in Task : Timeout(t)) => UNCHANGED <<boot, seed, lost>>
  BY DEF Timeout, runtime
<1>14. disconnect => boot' = "stopped" /\ UNCHANGED lost
  BY DEF disconnect, Main
<1>15. UNCHANGED vars \/ (\E p \in Ticks : Tick(p) \/ Fit(p)) => UNCHANGED <<boot, seed, lost>>
  BY DEF vars, runtime, counts, Tick, Fit
<1>16. MainStep => \/ connect \/ wait_for_bootstrap \/ wait_for_seeding
                   \/ AskChain("resolve", "resolving") \/ resolve_hedge_contracts
                   \/ seed_positions_from_broker \/ AskChain("chain", "listing")
                   \/ resolve_underlying \/ wait_for_underlying \/ subscribe_product
  BY DEF MainStep
<1> QED
  BY <1>1, <1>2, <1>3, <1>4, <1>5, <1>6, <1>7, <1>8, <1>9, <1>10, <1>11, <1>12, <1>13,
     <1>14, <1>15, <1>16 DEF Next

\* The portfolio is seeded from the adapter's positions only.
LEMMA SeedTaken ==
    ASSUME [Next]_vars
    PROVE  seed' = seed \/ seed' = cache
<1>1. connect \/ wait_for_bootstrap \/ wait_for_seeding \/ resolve_hedge_contracts
        \/ resolve_underlying \/ wait_for_underlying => UNCHANGED seed
  BY DEF connect, wait_for_bootstrap, wait_for_seeding, resolve_hedge_contracts,
         resolve_underlying, wait_for_underlying
<1>2. AskChain("resolve", "resolving") \/ AskChain("chain", "listing") => UNCHANGED seed
  BY DEF AskChain
<1>3. seed_positions_from_broker => seed' = cache
  BY DEF seed_positions_from_broker
<1>4. subscribe_product \/ Recenter => UNCHANGED seed
  BY DEF subscribe_product, Recenter, run_window_recenter, qualify_option, Qualified
<1>5. Gateway \/ Dispatch \/ Eof \/ alloc_order_id \/ (\E t \in Task : Timeout(t))
        => UNCHANGED seed
  BY DEF Gateway, Receive, Dispatch, Eof, alloc_order_id, Timeout, runtime
<1>6. disconnect \/ (\E p \in Ticks : Tick(p) \/ Fit(p)) \/ UNCHANGED vars => UNCHANGED seed
  BY DEF disconnect, Tick, Fit, vars, runtime
<1> QED
  BY <1>1, <1>2, <1>3, <1>4, <1>5, <1>6 DEF Next, MainStep

\* New jobs in which the positions stand in front of their end.
LEMMA QueueNewJobs ==
    ASSUME QueueInv, NEW S, jobs' \subseteq jobs \union S, UNCHANGED <<chan, done, cache>>,
           \A j \in S : \A i \in DOMAIN j :
              j[i].type = "positionEnd" => \A h \in Held : Before(j, i, h)
    PROVE  QueueInv'
  BY DEF QueueInv

LEMMA QueueInvInductive ==
    ASSUME DataInv, QueueInv, [Next]_vars, ~lost'
    PROVE  QueueInv'
<1> USE DEF QueueInv
<1>1. ASSUME UNCHANGED <<chan, done, cache>>, jobs' \subseteq jobs PROVE QueueInv'
  BY <1>1
<1>2. ASSUME UNCHANGED <<chan, done, cache>>, NEW m, m.type # "positionEnd",
             jobs' \subseteq jobs \union {<<m>>}
      PROVE QueueInv'
  <2> DEFINE S == {<<m>>}
  <2>1. \A j \in S : \A i \in DOMAIN j : j[i].type # "positionEnd"
    BY <1>2
  <2>2. jobs' \subseteq jobs \union S
    BY <1>2
  <2> HIDE DEF S, QueueInv
  <2> QED
    BY <1>2, <2>1, <2>2, QueueNewJobs
<1>3. CASE connect
  <2> DEFINE S == {<<Msg("nextValidId", 0, 1)>>, <<Msg("managedAccounts", 0, 0)>>}
  <2>1. \A j \in S : \A i \in DOMAIN j : j[i].type # "positionEnd"
    BY DEF Msg
  <2>2. jobs' \subseteq jobs \union S /\ UNCHANGED <<chan, done, cache>>
    BY <1>3 DEF connect, adapter
  <2> HIDE DEF S, QueueInv
  <2> QED
    BY <2>1, <2>2, QueueNewJobs
<1>4. CASE wait_for_bootstrap
  <2> DEFINE S == {<<Msg("accountEnd", 0, 0)>>, <<Msg("openOrderEnd", 0, 0)>>, PositionsJob}
  <2>1. ASSUME NEW j \in S, NEW i \in DOMAIN j, j[i].type = "positionEnd", NEW h \in Held
        PROVE  Before(j, i, h)
    <3>1. CASE j = PositionsJob
      BY <2>1, <3>1, PositionsJobOK DEF Before
    <3>2. CASE j \in {<<Msg("accountEnd", 0, 0)>>, <<Msg("openOrderEnd", 0, 0)>>}
      <4>1. j[i].type # "positionEnd"
        BY <2>1, <3>2 DEF Msg
      <4> QED
        BY <2>1, <4>1
    <3> QED
      BY <3>1, <3>2
  <2>2. jobs' \subseteq jobs \union S /\ UNCHANGED <<chan, done, cache>>
    BY <1>4 DEF wait_for_bootstrap, adapter, PositionsJob
  <2> HIDE DEF S, QueueInv
  <2> QED
    BY <2>1, <2>2, QueueNewJobs
<1>5. CASE Eof \/ disconnect
  <2>1. jobs' \subseteq jobs /\ UNCHANGED <<chan, done, cache>>
    BY <1>5 DEF Eof, disconnect, adapter
  <2> QED
    BY <1>1, <2>1
<1>6. CASE alloc_order_id
  <2>1. PICK v : jobs' \subseteq jobs \union {<<Msg("nextValidId", 0, v)>>}
    BY <1>6 DEF alloc_order_id
  <2>2. UNCHANGED <<chan, done, cache>> /\ Msg("nextValidId", 0, v).type # "positionEnd"
    BY <1>6 DEF alloc_order_id, adapter, Msg
  <2> QED
    BY <1>2, <2>1, <2>2
<1>7. ASSUME NEW t \in Task, NEW ask, Ask(t, ask) PROVE QueueInv'
  <2> PICK r : Asked(t, ask, r)
    BY <1>7, AskEffect
  <2>1. UNCHANGED <<chan, done, cache>> /\ Msg("error", r, 200).type # "positionEnd" /\ r \in Req
    BY DEF Asked, Msg
  <2>2. CASE jobs' = jobs \union {Answer(r, ask)}
    <3> DEFINE S == {Answer(r, ask)}
    <3>1. \A j \in S : \A i \in DOMAIN j : j[i].type # "positionEnd"
      BY <2>1, AnswerOK
    <3>2. jobs' \subseteq jobs \union S
      BY <2>2
    <3> HIDE DEF QueueInv, S
    <3> QED
      BY <2>1, <3>1, <3>2, QueueNewJobs
  <2>3. CASE jobs' = jobs \union {<<Msg("error", r, 200)>>}
    BY <1>2, <2>1, <2>3
  <2>4. CASE jobs' = jobs
    BY <1>1, <2>1, <2>4
  <2> QED
    BY <2>2, <2>3, <2>4 DEF Asked
<1>8. CASE \E t \in Task : Timeout(t)
  BY <1>1, <1>8 DEF Timeout, client
<1>9. CASE \E t \in Task : CallTaken(t)
  BY <1>1, <1>9 DEF CallTaken, client, adapter
<1>10. CASE UNCHANGED <<client, adapter, call, used>>
  BY <1>1, <1>10 DEF client, adapter
<1>11. CASE Gateway
  <2> PICK j \in jobs : Receive(j)
    BY <1>11 DEF Gateway
  <2>1. /\ j \in Seq(Messages) /\ j # <<>> /\ chan \in Seq(Messages)
        /\ \A k \in jobs' : k \in jobs \/ k = Tail(j)
        /\ chan' = Append(chan, Head(j)) /\ UNCHANGED <<done, cache>>
    BY ReceiveEffect DEF adapter, DataInv
  <2> DEFINE n == Len(chan)
  <2>2. /\ n \in Nat /\ DOMAIN chan = 1 .. n /\ DOMAIN chan' = 1 .. n + 1
        /\ \A i \in 1 .. n : chan'[i] = chan[i]
        /\ chan'[n + 1] = j[1]
    BY <2>1
  <2>3. /\ 1 \in DOMAIN j /\ DOMAIN j \subseteq Nat
        /\ \A i \in DOMAIN Tail(j) : i \in Nat /\ i + 1 \in DOMAIN j /\ Tail(j)[i] = j[i + 1]
        /\ \A i \in DOMAIN j : i # 1 => i >= 1 /\ i - 1 \in DOMAIN Tail(j) /\ Tail(j)[i - 1] = j[i]
    BY <2>1
  <2> HIDE DEF n
  <2>4. ASSUME NEW h \in Held, NEW k \in DOMAIN chan, chan[k] = Msg("position", 0, h)
        PROVE  \E q \in DOMAIN chan' : chan'[q] = Msg("position", 0, h)
    BY <2>2, <2>4
  <2>5. ASSUME NEW i \in DOMAIN Tail(j), Tail(j)[i].type = "positionEnd", NEW h \in Held
        PROVE  \/ h \in cache \/ Before(Tail(j), i, h)
               \/ \E q \in DOMAIN chan' : chan'[q] = Msg("position", 0, h)
    <3>1. i + 1 \in DOMAIN j /\ j[i + 1].type = "positionEnd" /\ i \in Nat
      BY <2>3, <2>5
    <3>2. CASE Before(j, i + 1, h)
      <4>1. PICK k \in DOMAIN j : k < i + 1 /\ j[k] = Msg("position", 0, h)
        BY <3>2 DEF Before
      <4>2. CASE k = 1
        <5>1. n + 1 \in DOMAIN chan'
          BY <2>2
        <5> QED
          BY <2>2, <4>1, <4>2, <5>1
      <4>3. CASE k # 1
        <5>1. k - 1 \in DOMAIN Tail(j) /\ Tail(j)[k - 1] = Msg("position", 0, h) /\ k - 1 < i
          BY <2>3, <3>1, <4>1, <4>3
        <5> QED
          BY <5>1 DEF Before
      <4> QED
        BY <4>2, <4>3
    <3> QED
      BY <2>4, <3>1, <3>2
  <2>6. ASSUME NEW i \in DOMAIN chan', chan'[i].type = "positionEnd", NEW h \in Held
        PROVE  h \in cache \/ Before(chan', i, h)
    <3>1. CASE i \in 1 .. n
      <4>1. h \in cache \/ Before(chan, i, h)
        BY <2>2, <2>6, <3>1
      <4> QED
        BY <2>2, <4>1 DEF Before
    <3>2. CASE i = n + 1
      <4>1. j[1].type = "positionEnd"
        BY <2>2, <2>6, <3>2
      <4>2. ~Before(j, 1, h)
        BY <2>1 DEF Before
      <4>3. h \in cache \/ \E k \in DOMAIN chan : chan[k] = Msg("position", 0, h)
        BY <2>3, <4>1, <4>2
      <4> QED
        BY <2>2, <3>2, <4>3 DEF Before
    <3> QED
      BY <2>2, <3>1, <3>2
  <2>7. ASSUME NEW k \in jobs', NEW i \in DOMAIN k, k[i].type = "positionEnd", NEW h \in Held
        PROVE  \/ h \in cache \/ Before(k, i, h)
               \/ \E q \in DOMAIN chan' : chan'[q] = Msg("position", 0, h)
    <3>1. CASE k \in jobs
      BY <2>4, <2>7, <3>1
    <3>2. CASE k = Tail(j)
      BY <2>5, <2>7, <3>2
    <3> QED
      BY <2>1, <3>1, <3>2
  <2> QED
    BY <2>1, <2>6, <2>7
<1>12. CASE Dispatch
  <2> PICK m \in Messages : Dispatched(m)
    BY <1>12, DispatchEffect
  <2>1. /\ chan \in Seq(Messages) /\ chan # <<>> /\ m = Head(chan) /\ chan' = Tail(chan)
        /\ jobs' = jobs
    BY DEF Dispatched, DataInv
  <2>2. /\ 1 \in DOMAIN chan /\ DOMAIN chan \subseteq Nat /\ m = chan[1]
        /\ \A i \in DOMAIN chan' : i \in Nat /\ i + 1 \in DOMAIN chan /\ chan'[i] = chan[i + 1]
        /\ \A i \in DOMAIN chan : i # 1 => i >= 1 /\ i - 1 \in DOMAIN chan' /\ chan'[i - 1] = chan[i]
    BY <2>1
  <2>3. /\ cache \subseteq cache'
        /\ m.type = "position" => m.val \in cache'
        /\ "positionEnd" \in done' => "positionEnd" \in done \/ m.type = "positionEnd"
    BY DEF Dispatched
  <2>4. ASSUME NEW h \in Held, NEW i, i \in Nat, NEW k \in DOMAIN chan, k < i + 1,
               chan[k] = Msg("position", 0, h)
        PROVE  h \in cache' \/ Before(chan', i, h)
    <3>1. CASE k = 1
      <4>1. m.type = "position" /\ m.val = h
        BY <2>2, <2>4, <3>1 DEF Msg
      <4> QED
        BY <2>3, <4>1
    <3>2. CASE k # 1
      <4>1. k - 1 \in DOMAIN chan' /\ chan'[k - 1] = Msg("position", 0, h) /\ k - 1 < i
        BY <2>2, <2>4, <3>2
      <4> QED
        BY <4>1 DEF Before
    <3> QED
      BY <3>1, <3>2
  <2>5. ASSUME NEW i \in DOMAIN chan', chan'[i].type = "positionEnd", NEW h \in Held
        PROVE  h \in cache' \/ Before(chan', i, h)
    <3>1. i \in Nat /\ i + 1 \in DOMAIN chan /\ chan[i + 1].type = "positionEnd"
      BY <2>2, <2>5
    <3>2. h \in cache \/ Before(chan, i + 1, h)
      BY <3>1
    <3> QED
      BY <2>3, <2>4, <3>1, <3>2 DEF Before
  <2>6. ASSUME "positionEnd" \in done' PROVE Held \subseteq cache'
    <3>1. CASE "positionEnd" \in done
      BY <2>3, <3>1
    <3>2. CASE m.type = "positionEnd"
      <4>1. \A h \in Held : h \in cache \/ Before(chan, 1, h)
        BY <2>2, <3>2
      <4>2. \A h \in Held : ~Before(chan, 1, h)
        BY <2>1 DEF Before
      <4> QED
        BY <2>3, <4>1, <4>2
    <3> QED
      BY <2>3, <2>6, <3>1, <3>2
  <2>7. ASSUME NEW h \in Held, NEW k \in DOMAIN chan, chan[k] = Msg("position", 0, h)
        PROVE  h \in cache' \/ \E q \in DOMAIN chan' : chan'[q] = Msg("position", 0, h)
    <3>1. k \in Nat /\ k < k + 1
      BY <2>2
    <3>2. h \in cache' \/ Before(chan', k, h)
      BY <2>4, <2>7, <3>1
    <3> QED
      BY <3>2 DEF Before
  <2>8. ASSUME NEW j \in jobs', NEW i \in DOMAIN j, j[i].type = "positionEnd", NEW h \in Held
        PROVE  \/ h \in cache' \/ Before(j, i, h)
               \/ \E q \in DOMAIN chan' : chan'[q] = Msg("position", 0, h)
    BY <2>1, <2>3, <2>7, <2>8
  <2> QED
    BY <2>5, <2>6, <2>8
<1> QED
  BY <1>3, <1>4, <1>5, <1>6, <1>7, <1>8, <1>9, <1>10, <1>11, <1>12, StepKinds

LEMMA SeedInvInductive == DataInv /\ SeedInv /\ [Next]_vars => SeedInv'
<1> SUFFICES ASSUME DataInv, SeedInv, [Next]_vars PROVE SeedInv'
  OBVIOUS
<1>1. lost' = lost \/ lost' = TRUE
  BY SeedSteps
<1>2. ~lost' => ~lost /\ QueueInv /\ QueueInv'
  BY <1>1, QueueInvInductive DEF SeedInv
<1>3. cache' \subseteq Held /\ cache \subseteq cache' /\ done \subseteq done'
  <2>1. CASE Dispatch
    <3> PICK m \in Messages : Dispatched(m)
      BY <2>1, DispatchEffect
    <3>1. m.type = "position" => m.val \in Held
      BY MessageOfType
    <3> QED
      BY <3>1 DEF Dispatched, SeedInv
  <2>2. CASE UNCHANGED <<cache, done>>
    BY <2>2 DEF SeedInv
  <2>3. connect \/ wait_for_bootstrap \/ Eof \/ disconnect \/ alloc_order_id
          => UNCHANGED <<cache, done>>
    BY DEF connect, wait_for_bootstrap, Eof, disconnect, alloc_order_id, adapter
  <2>4. Gateway \/ (\E t \in Task : Timeout(t) \/ CallTaken(t)) => UNCHANGED <<cache, done>>
    BY DEF Gateway, Receive, Timeout, CallTaken, adapter
  <2>5. (\E t \in Task : \E ask : Ask(t, ask)) => UNCHANGED <<cache, done>>
    BY DEF Ask
  <2>6. UNCHANGED <<client, adapter, call, used>> => UNCHANGED <<cache, done>>
    BY DEF adapter
  <2> QED
    BY <2>1, <2>2, <2>3, <2>4, <2>5, <2>6, StepKinds
<1>4. ASSUME boot' \in {"resolve", "resolving", "seed"}, ~lost' PROVE "positionEnd" \in done'
  <2>1. boot \in {"resolve", "resolving", "seed"} \/ SeededWhole
    BY <1>4, SeedSteps
  <2>2. "positionEnd" \in done
    BY <1>2, <1>4, <2>1 DEF SeedInv, SeededWhole
  <2> QED
    BY <1>3, <2>2
<1>5. SeedWhole'
  <2> SUFFICES ASSUME boot' \in {"chain", "listing", "tick", "legs", "running"}, ~lost'
               PROVE  seed' = Held
    BY DEF SeedWhole
  <2>1. CASE boot = "seed" /\ seed' = cache
    BY <1>2, <2>1 DEF SeedInv, QueueInv
  <2>2. CASE UNCHANGED seed /\ boot \in {"chain", "listing", "tick", "legs", "running"}
    BY <1>2, <2>2 DEF SeedInv, SeedWhole
  <2> QED
    BY <2>1, <2>2, SeedSteps
<1>6. seed' \subseteq Held
  BY SeedTaken DEF SeedInv
<1> QED
  BY <1>2, <1>3, <1>4, <1>5, <1>6 DEF SeedInv

LEMMA SeedInvHolds == Spec => []SeedInv
<1>1. ASSUME Init PROVE SeedInv
  <2>1. /\ jobs = {} /\ chan = <<>> /\ DOMAIN chan = {} /\ done = {} /\ cache = {}
        /\ seed = {} /\ boot = "start"
    BY <1>1 DEF Init
  <2> QED
    BY <2>1 DEF SeedInv, QueueInv, SeedWhole
<1> QED
  BY <1>1, SeedInvInductive, DataInvHolds, PTL DEF Spec

\* Unless the 15 s wait gave up or the dispatch channel dropped a frame, the
\* portfolio is seeded with every position of the account.
THEOREM SeedWholeAlways == Spec => []SeedWhole
<1>1. SeedInv => SeedWhole
  BY DEF SeedInv
<1> QED
  BY <1>1, SeedInvHolds, PTL

-----------------------------------------------------------------------------
(* Market-data lines and the window.                                       *)

\* At the boot main subscribes and there is no recentering; afterwards it is
\* the other way round.
TurnInv ==
    /\ boot # "legs" => todo["main"] = {} /\ call["main"].ask = Chain
    /\ boot \notin {"running", "stopped"} =>
          fwd = 0 /\ todo["recenter"] = {} /\ call["recenter"] = Free
    /\ boot \notin {"legs", "running", "stopped"} => registered = {}

\* What is to be subscribed is not registered, and neither is the leg a task
\* is asking about.
ToSubscribe ==
    \A t \in Task :
        /\ todo[t] \intersect registered = {}
        /\ call[t].ask # Chain => call[t].ask \notin registered \union todo[t]

\* What a task has left of its pass, the leg it is asking about included.
Ahead(t) == todo[t] \union ({call[t].ask} \ {Chain})

\* Every planned or registered leg has the grid's strike or, when it is a held
\* one, the position's; the recentering plans the grid's only.
StrikeInv ==
    /\ \A p \in Ahead("main") \union registered :
          p = OnGrid(Leg(p)) \/ (Leg(p) \in Held /\ p = Parsed(Leg(p)))
    /\ \A p \in Ahead("recenter") : p = OnGrid(Leg(p))

\* A line belongs to a registered leg; a second one is taken for the strike
\* the leg is not registered with, and only main ever plans the position's.
LegLines(l) ==
    /\ lines[l] \in Nat
    /\ lines[l] > 0 => \E q \in registered : Leg(q) = l
    /\ lines[l] > 1 => l \in Held /\ l[2] \in Drifting
    /\ lines[l] > 1 /\ Parsed(l) \notin registered =>
          lines[l] = 2 /\ Parsed(l) \notin Ahead("main")

LineInv ==
    /\ DOMAIN todo = Task /\ DOMAIN front = Task /\ DOMAIN lines = Legs
    /\ TurnInv
    /\ ToSubscribe
    /\ StrikeInv
    /\ \A l \in Legs : LegLines(l)

\* A listed leg of the last pass is registered or still to be asked about.
PassInv ==
    pass # 0 => \A p \in Window(pass, front["recenter"]) :
        Leg(p) \in Listed => \/ \E q \in registered : Leg(q) = Leg(p)
                             \/ p \in Ahead("recenter")

\* The two strikes of a leg, and what the window holds.
LEMMA Strikes ==
    /\ \A l \in Held : Leg(Parsed(l)) = l
    /\ \A p, e : \A q \in Window(p, e) : q # Chain /\ q = OnGrid(Leg(q))
    /\ \A l : OnGrid(l) # Parsed(l) => l[2] \in Drifting
    /\ \A l : OnGrid(l) # Chain /\ Parsed(l) # Chain
<1>1. \A l \in Held : Leg(Parsed(l)) = l
  BY SessionAssumption DEF Leg, Parsed
<1>2. ASSUME NEW p, NEW e, NEW q \in Window(p, e) PROVE q # Chain /\ q = OnGrid(Leg(q))
  <2>1. PICK k \in generate_strikes(round_to_increment(p)) : q = OnGrid(<<e, k>>)
    BY DEF Window
  <2>2. Leg(q) = <<e, k>>
    BY <2>1 DEF OnGrid, Leg
  <2> QED
    BY <2>1, <2>2 DEF OnGrid, Chain
<1>3. \A l : OnGrid(l) # Parsed(l) => l[2] \in Drifting
  BY DEF OnGrid, Parsed
<1>4. \A l : OnGrid(l) # Chain /\ Parsed(l) # Chain
  BY DEF OnGrid, Parsed, Chain
<1> QED
  BY <1>1, <1>2, <1>3, <1>4

\* A step that leaves the subscriptions alone.
NoSubscription ==
    /\ UNCHANGED <<todo, registered, lines, fwd, pass>>
    /\ front'["recenter"] = front["recenter"] /\ DOMAIN front' = DOMAIN front
    /\ call'["main"].ask \in {call["main"].ask, Chain}
    /\ call'["recenter"].ask = call["recenter"].ask
    /\ call["recenter"] = Free => call'["recenter"] = Free
    /\ \/ UNCHANGED boot
       \/ boot \notin {"legs", "running", "stopped"} /\ boot' # "legs"
       \/ boot = "legs" /\ boot' = "running" /\ todo["main"] = {} /\ call["main"] = Free
       \/ boot = "running" /\ boot' = "stopped"

LEMMA CallsKept ==
    ASSUME DataInv, NEW t \in Task,
           Dispatch \/ disconnect \/ \E u \in Task : Timeout(u)
    PROVE  call'[t].ask = call[t].ask
<1>0. CallOK(call[t]) /\ DOMAIN call = Task
  BY DEF DataInv
<1>1. CASE Dispatch
  <2> PICK d \in Messages : Dispatched(d)
    BY <1>1, DispatchEffect
  <2>1. CASE UNCHANGED call
    BY <2>1
  <2>2. CASE \E st \in {"ok", "failed"} : \E res \in {<<>>, pend[d.req]} : Resolve(d.req, st, res)
    <3> PICK st \in {"ok", "failed"}, res \in {<<>>, pend[d.req]} : Resolve(d.req, st, res)
      BY <2>2
    <3>1. \/ call'[t] = call[t]
          \/ call'[t] = [st |-> st, req |-> d.req, ask |-> call[t].ask, res |-> res]
      BY ResolveEffect
    <3> QED
      BY <3>1
  <2> QED
    BY <2>1, <2>2 DEF Dispatched
<1>2. CASE disconnect
  <2>1. call'[t] = call[t] \/ call'[t] = [call[t] EXCEPT !.st = "failed"]
    BY <1>2 DEF disconnect
  <2> QED
    BY <1>0, <2>1, FailedCallOK
<1>3. ASSUME NEW u \in Task, Timeout(u) PROVE call'[t].ask = call[t].ask
  <2>0. call' = [call EXCEPT ![u] = [call[u] EXCEPT !.st = "failed"]]
    BY <1>3 DEF Timeout
  <2>1. call'[t] = call[t] \/ call'[t] = [call[t] EXCEPT !.st = "failed"]
    <3>1. CASE u = t
      BY <1>0, <2>0, <3>1
    <3>2. CASE u # t
      BY <1>0, <2>0, <3>2
    <3> QED
      BY <3>1, <3>2
  <2> QED
    BY <1>0, <2>1, FailedCallOK
<1> QED
  BY <1>1, <1>2, <1>3

LEMMA LineSteps ==
    ASSUME DataInv, DOMAIN front = Task, [Next]_vars
    PROVE  \/ NoSubscription
           \/ wait_for_underlying /\ und # 0
           \/ qualify_option("main") /\ boot = "legs"
           \/ qualify_option("recenter")
           \/ \E t \in Task : Qualified(t)
           \/ run_window_recenter
           \/ \E p \in Ticks : Fit(p)
<1>0. "main" \in Task /\ "recenter" \in Task /\ DOMAIN call = Task /\ Free.st = "free" /\ Free.ask = Chain
  BY DEF Task, DataInv, Free
<1> USE DEF NoSubscription
<1>1. CASE connect
  BY <1>1 DEF connect, Main
<1>2. CASE wait_for_bootstrap
  BY <1>2 DEF wait_for_bootstrap, Main
<1>3. CASE wait_for_seeding
  BY <1>3 DEF wait_for_seeding, Main
<1>4. CASE AskChain("resolve", "resolving") \/ AskChain("chain", "listing")
  <2>1. Ask("main", Chain)
    BY <1>4 DEF AskChain
  <2> PICK r : Asked("main", Chain, r)
    BY <1>0, <2>1, AskEffect
  <2>2. call'["main"].ask = Chain /\ call'["recenter"] = call["recenter"]
    BY <1>0 DEF Asked
  <2> QED
    BY <1>4, <2>2 DEF AskChain, Main
<1>5. CASE resolve_hedge_contracts
  <2>1. call'["main"].ask = Chain /\ call'["recenter"] = call["recenter"]
    BY <1>0, <1>5 DEF resolve_hedge_contracts
  <2> QED
    BY <1>5, <2>1 DEF resolve_hedge_contracts, Main
<1>6. CASE seed_positions_from_broker
  BY <1>6 DEF seed_positions_from_broker, Main
<1>7. CASE resolve_underlying
  <2>1. call'["main"].ask = Chain /\ call'["recenter"] = call["recenter"]
    BY <1>0, <1>7 DEF resolve_underlying
  <2>2. front'["recenter"] = front["recenter"] /\ DOMAIN front' = DOMAIN front
    BY <1>0, <1>7 DEF resolve_underlying
  <2> QED
    BY <1>7, <2>1, <2>2 DEF resolve_underlying
<1>8. CASE wait_for_underlying /\ und = 0
  BY <1>8 DEF wait_for_underlying
<1>9. CASE subscribe_product
  BY <1>0, <1>9 DEF subscribe_product, Main
<1>10. CASE Gateway \/ Eof \/ alloc_order_id
  <2>1. UNCHANGED <<runtime, call>>
    BY <1>10 DEF Gateway, Receive, Eof, alloc_order_id
  <2> QED
    BY <2>1 DEF runtime
<1>11. CASE Dispatch \/ \E t \in Task : Timeout(t)
  <2>1. UNCHANGED runtime
    BY <1>11 DEF Dispatch, Timeout
  <2>2. /\ call'["main"].ask = call["main"].ask /\ call'["recenter"].ask = call["recenter"].ask
        /\ call["recenter"] = Free => call'["recenter"] = Free
    BY <1>0, <1>11, CallsKept, OthersLeave
  <2> QED
    BY <2>1, <2>2 DEF runtime
<1>12. CASE disconnect
  <2>1. /\ call'["main"].ask = call["main"].ask /\ call'["recenter"].ask = call["recenter"].ask
        /\ call["recenter"] = Free => call'["recenter"] = Free
    BY <1>0, <1>12, CallsKept, OthersLeave
  <2> QED
    BY <1>12, <2>1 DEF disconnect, Main
<1>13. CASE UNCHANGED vars \/ \E p \in Ticks : Tick(p)
  BY <1>13 DEF vars, runtime, Tick
<1>14. Recenter => run_window_recenter \/ qualify_option("recenter") \/ Qualified("recenter")
  BY DEF Recenter
<1> HIDE DEF NoSubscription
<1> QED
  BY <1>0, <1>1, <1>2, <1>3, <1>4, <1>5, <1>6, <1>7, <1>8, <1>9, <1>10, <1>11, <1>12, <1>13,
     <1>14 DEF Next, MainStep

\* A step that takes no line, registers nothing and plans nothing for main.
LEMMA LinesKept ==
    ASSUME LineInv, UNCHANGED <<lines, registered>>, Ahead("main")' \subseteq Ahead("main")
    PROVE  \A l \in Legs : LegLines(l)'
  BY DEF LineInv, LegLines

LEMMA LineInvInductive ==
    ASSUME DataInv, OwnInv, MainFree, SeedInv, LineInv, [Next]_vars
    PROVE  LineInv'
<1>0. /\ "main" \in Task /\ "recenter" \in Task /\ \A t \in Task : t = "main" \/ t = "recenter"
      /\ DOMAIN call = Task /\ Free.ask = Chain
      /\ DOMAIN todo = Task /\ DOMAIN front = Task /\ DOMAIN lines = Legs
  BY DEF Task, DataInv, Free, LineInv
<1> DEFINE R == \A l \in Legs : LegLines(l)'
           D == DOMAIN todo' = Task /\ DOMAIN front' = Task /\ DOMAIN lines' = Legs
<1>1. ASSUME D, TurnInv', ToSubscribe', StrikeInv', R PROVE LineInv'
  BY <1>1 DEF LineInv
<1>2. ASSUME UNCHANGED <<lines, registered>>, D, TurnInv', ToSubscribe',
             \A t \in Task : Ahead(t)' \subseteq Ahead(t)
      PROVE  LineInv'
  <2>1. R
    BY <1>0, <1>2, LinesKept
  <2>2. StrikeInv'
    BY <1>0, <1>2 DEF LineInv, StrikeInv
  <2> QED
    BY <1>1, <1>2, <2>1, <2>2
<1>3. CASE NoSubscription
  <2>1. D
    BY <1>0, <1>3 DEF NoSubscription
  <2>2. TurnInv'
    BY <1>0, <1>3 DEF NoSubscription, LineInv, TurnInv
  <2>3. ToSubscribe'
    BY <1>0, <1>3 DEF NoSubscription, LineInv, ToSubscribe
  <2>4. \A t \in Task : Ahead(t)' \subseteq Ahead(t)
    BY <1>0, <1>3 DEF NoSubscription, Ahead
  <2> QED
    BY <1>2, <1>3, <2>1, <2>2, <2>3, <2>4 DEF NoSubscription
<1>4. CASE wait_for_underlying /\ und # 0
  <2> DEFINE W == Window(und, pick_option_expiry(front["main"]))
  <2>1. /\ boot = "tick" /\ boot' = "legs" /\ UNCHANGED <<call, front, registered, lines, fwd>>
        /\ todo' = [todo EXCEPT !["main"] = W \union {Parsed(l) : l \in seed}]
    BY <1>4 DEF wait_for_underlying, planned
  <2>2. registered = {} /\ call["main"].ask = Chain
    BY <2>1 DEF LineInv, TurnInv
  <2>3. todo'["recenter"] = todo["recenter"] /\ D
    BY <1>0, <2>1
  <2>4. TurnInv'
    BY <2>1, <2>2, <2>3 DEF LineInv, TurnInv
  <2>5. ToSubscribe'
    BY <1>0, <2>1, <2>2, <2>3 DEF LineInv, ToSubscribe
  <2>6. Ahead("main")' = W \union {Parsed(l) : l \in seed} /\ Ahead("recenter")' = Ahead("recenter")
    BY <1>0, <2>1, <2>2, <2>3 DEF Ahead
  <2> HIDE DEF W
  <2>7. \A p \in W : p = OnGrid(Leg(p))
    BY Strikes DEF W
  <2>8. \A l \in seed : Leg(Parsed(l)) \in Held /\ Parsed(l) = Parsed(Leg(Parsed(l)))
    BY Strikes DEF SeedInv
  <2>9. StrikeInv'
    BY <2>1, <2>2, <2>6, <2>7, <2>8 DEF LineInv, StrikeInv
  <2>10. R
    BY <2>1, <2>2 DEF LineInv, LegLines
  <2> QED
    BY <1>1, <2>3, <2>4, <2>5, <2>9, <2>10
<1>5. ASSUME NEW t \in Task, qualify_option(t), t = "main" => boot = "legs" PROVE LineInv'
  <2>1. PICK l \in todo[t] :
           /\ call[t] = Free /\ todo' = [todo EXCEPT ![t] = @ \ {l}] /\ Ask(t, l)
           /\ UNCHANGED <<boot, front, registered, lines, fwd>>
    BY <1>5 DEF qualify_option
  <2> PICK r : Asked(t, l, r)
    BY <2>1, AskEffect
  <2>3. call'[t].ask = l /\ \A u \in Task \ {t} : call'[u] = call[u] /\ todo'[u] = todo[u]
    BY <1>0, <2>1 DEF Asked
  <2>4. todo'[t] = todo[t] \ {l} /\ D
    BY <1>0, <2>1
  <2>5. TurnInv'
    <3>1. CASE t = "main"
      BY <1>0, <1>5, <2>1, <2>3, <2>4, <3>1 DEF LineInv, TurnInv
    <3>2. CASE t = "recenter"
      <4>1. boot \in {"running", "stopped"}
        BY <2>1, <3>2 DEF LineInv, TurnInv
      <4> QED
        BY <1>0, <2>1, <2>3, <2>4, <3>2, <4>1 DEF LineInv, TurnInv
    <3> QED
      BY <1>0, <3>1, <3>2
  <2>6. ToSubscribe'
    BY <2>1, <2>3, <2>4 DEF LineInv, ToSubscribe
  <2>7. \A u \in Task : Ahead(u)' \subseteq Ahead(u)
    BY <2>1, <2>3, <2>4 DEF Ahead
  <2> QED
    BY <1>2, <2>1, <2>4, <2>5, <2>6, <2>7
<1>6. ASSUME NEW t \in Task, Qualified(t) PROVE LineInv'
  <2> DEFINE a == call[t].ask
             res == call[t].res
             l == Leg(a)
  <2>1. /\ a # Chain /\ call' = [call EXCEPT ![t] = Free]
        /\ UNCHANGED <<boot, front, todo, fwd>>
        /\ \/ /\ res # <<>> /\ register_option(a)
              /\ lines' = [lines EXCEPT ![Head(res)] = @ + 1] \/ UNCHANGED lines
           \/ UNCHANGED <<registered, lines>>
    BY <1>6 DEF Qualified, subscribe_ticks
  <2>2. res # <<>> => Head(res) = l
    <3>1. res \in Seq(Details)
      BY DEF DataInv, CallOK
    <3>2. res # <<>> => Head(res) = res[1] /\ 1 \in DOMAIN res
      BY <3>1
    <3>3. 1 \in DOMAIN res => Fits(a, res[1])
      BY DEF OwnInv
    <3> QED
      BY <2>1, <3>2, <3>3 DEF Fits
  <2>3. a \notin registered /\ a \notin todo[t] /\ a \in Ahead(t)
    BY <2>1 DEF LineInv, ToSubscribe, Ahead
  <2>4. \A u \in Task \ {t} : todo[u] = {} /\ call[u].ask = Chain
    <3>1. t = "main" => boot = "legs"
      BY <2>1 DEF LineInv, TurnInv
    <3>2. t = "recenter" => boot \in {"running", "stopped"}
      BY <1>0, <2>1 DEF LineInv, TurnInv
    <3> QED
      BY <1>0, <3>1, <3>2 DEF LineInv, TurnInv
  <2>5. /\ call'[t] = Free /\ \A u \in Task \ {t} : call'[u] = call[u]
        /\ registered \subseteq registered' /\ registered' \subseteq registered \union {a}
    BY <1>0, <2>1 DEF register_option
  <2>6. boot \in {"legs", "running", "stopped"}
    BY <1>0, <2>1 DEF LineInv, TurnInv
  <2>7. \/ UNCHANGED lines
        \/ lines' = [lines EXCEPT ![l] = @ + 1] /\ register_option(a)
    BY <2>1, <2>2
  <2> HIDE DEF a, res
  <2>8. TurnInv'
    BY <1>0, <2>1, <2>5, <2>6 DEF LineInv, TurnInv
  <2>9. ToSubscribe'
    BY <1>0, <2>1, <2>3, <2>4, <2>5 DEF LineInv, ToSubscribe
  <2>10. \A u \in Task : Ahead(u)' \subseteq Ahead(u)
    BY <1>0, <2>1, <2>5 DEF Ahead
  <2>11. a \notin Ahead(t)'
    BY <1>0, <2>1, <2>3, <2>5 DEF Ahead
  <2>12. /\ a = OnGrid(l) \/ (l \in Held /\ a = Parsed(l))
         /\ t = "recenter" => a = OnGrid(l)
    BY <1>0, <2>3 DEF LineInv, StrikeInv
  <2>13. StrikeInv'
    BY <1>0, <2>5, <2>10, <2>12 DEF LineInv, StrikeInv
  \* The leg that was asked about is found under its other strike, or is new.
  <2>14. ASSUME NEW q \in registered, Leg(q) = l
         PROVE  /\ l \in Held /\ l[2] \in Drifting
                /\ Parsed(l) \in registered \/ (a = Parsed(l) /\ t = "main")
    <3>1. q = OnGrid(l) \/ (l \in Held /\ q = Parsed(l))
      BY <2>14 DEF LineInv, StrikeInv
    <3>2. q # a
      BY <2>3
    <3> QED
      BY <1>0, <2>12, <3>1, <3>2, Strikes
  <2> HIDE DEF l
  <2>15. R
    <3> SUFFICES ASSUME NEW k \in Legs PROVE LegLines(k)'
      OBVIOUS
    <3>0. LegLines(k) /\ Ahead("main")' \subseteq Ahead("main")
      BY <1>0, <2>10 DEF LineInv
    <3>1. CASE lines'[k] = lines[k]
      BY <2>5, <3>0, <3>1 DEF LegLines
    <3>2. CASE k = l /\ lines'[k] = lines[k] + 1 /\ register_option(a)
      <4>1. CASE lines[k] = 0
        <5>1. \E q \in registered' : Leg(q) = l
          BY <3>2 DEF register_option, l
        <5> QED
          BY <3>0, <3>2, <4>1, <5>1 DEF LegLines
      <4>2. CASE lines[k] > 0
        <5>1. PICK q \in registered : Leg(q) = l
          BY <3>0, <3>2, <4>2 DEF LegLines
        <5>2. registered' = registered
          BY <3>2, <5>1 DEF register_option, l
        <5>3. /\ l \in Held /\ l[2] \in Drifting
              /\ Parsed(l) \in registered \/ (a = Parsed(l) /\ t = "main")
          BY <2>14, <5>1
        <5>4. ASSUME Parsed(l) \notin registered
              PROVE  lines[k] = 1 /\ Parsed(l) \notin Ahead("main")'
          <6>1. Parsed(l) \in Ahead("main") /\ Parsed(l) \notin Ahead("main")'
            BY <2>3, <2>11, <5>3, <5>4
          <6> QED
            BY <3>0, <3>2, <4>2, <5>4, <6>1 DEF LegLines
        <5>5. \E x \in registered' : Leg(x) = l
          BY <5>1, <5>2
        <5>6. lines'[k] \in Nat /\ lines'[k] > 0
          BY <3>0, <3>2 DEF LegLines
        <5>7. Parsed(l) \notin registered' => lines'[k] = 2 /\ Parsed(l) \notin Ahead("main")'
          BY <3>2, <5>2, <5>4
        <5> QED
          BY <3>2, <5>3, <5>5, <5>6, <5>7 DEF LegLines
      <4> QED
        BY <3>0, <4>1, <4>2 DEF LegLines
    <3> QED
      BY <1>0, <2>7, <3>1, <3>2
  <2>16. D
    BY <1>0, <2>1
  <2> QED
    BY <1>1, <2>8, <2>9, <2>13, <2>15, <2>16
<1>7. CASE run_window_recenter
  <2>1. /\ call["recenter"] = Free /\ fwd > 0 /\ UNCHANGED <<call, boot, registered, lines, fwd>>
        /\ \E exp : /\ front' = [front EXCEPT !["recenter"] = exp]
                    /\ todo' = [todo EXCEPT !["recenter"] = Window(fwd, exp) \ registered]
    BY <1>7 DEF run_window_recenter, Missing
  <2>2. todo'["main"] = todo["main"] /\ todo'["recenter"] \intersect registered = {} /\ D
    BY <1>0, <2>1
  <2>3. boot \in {"running", "stopped"}
    BY <2>1 DEF LineInv, TurnInv
  <2>4. TurnInv'
    BY <2>1, <2>2, <2>3 DEF LineInv, TurnInv
  <2>5. ToSubscribe'
    BY <1>0, <2>1, <2>2 DEF LineInv, ToSubscribe
  <2>6. Ahead("main")' = Ahead("main") /\ Ahead("recenter")' = todo'["recenter"]
    BY <1>0, <2>1, <2>2 DEF Ahead
  <2>7. \A p \in todo'["recenter"] : p = OnGrid(Leg(p))
    BY <1>0, <2>1, Strikes
  <2>8. StrikeInv'
    BY <2>1, <2>6, <2>7 DEF LineInv, StrikeInv
  <2>9. R
    BY <2>1, <2>6, LinesKept
  <2> QED
    BY <1>1, <2>2, <2>4, <2>5, <2>8, <2>9
<1>8. CASE \E p \in Ticks : Fit(p)
  <2>1. boot = "running" /\ UNCHANGED <<call, boot, front, todo, registered, lines>>
    BY <1>8 DEF Fit
  <2>2. TurnInv' /\ ToSubscribe' /\ D
    BY <1>0, <2>1 DEF LineInv, TurnInv, ToSubscribe
  <2>3. \A t \in Task : Ahead(t)' \subseteq Ahead(t)
    BY <2>1 DEF Ahead
  <2> QED
    BY <1>2, <2>1, <2>2, <2>3
<1> QED
  BY <1>0, <1>3, <1>4, <1>5, <1>6, <1>7, <1>8, LineSteps

LEMMA PassInvInductive ==
    ASSUME DataInv, LineInv, PassInv, [Next]_vars
    PROVE  PassInv'
<1>0. /\ "main" \in Task /\ "recenter" \in Task /\ Free.ask = Chain
      /\ DOMAIN call = Task /\ DOMAIN todo = Task /\ DOMAIN front = Task
      /\ \A t \in Task : t = "main" \/ t = "recenter"
  BY DEF Task, DataInv, Free, LineInv
<1>1. \A p, e : Chain \notin Window(p, e)
  BY Strikes
<1>2. ASSUME pass' = pass \/ pass' = 0, front'["recenter"] = front["recenter"],
             registered \subseteq registered',
             pass' # 0 => \A p \in Ahead("recenter") : Leg(p) \in Listed =>
                 \/ p \in Ahead("recenter")'
                 \/ \E q \in registered' : Leg(q) = Leg(p)
      PROVE  PassInv'
  BY <1>2 DEF PassInv
<1>3. CASE NoSubscription
  <2>1. Ahead("recenter")' = Ahead("recenter")
    BY <1>3 DEF NoSubscription, Ahead
  <2> QED
    BY <1>2, <1>3, <2>1 DEF NoSubscription
<1>4. CASE wait_for_underlying /\ und # 0
  <2>1. todo'["recenter"] = todo["recenter"] /\ UNCHANGED <<call, registered, pass, front>>
    BY <1>0, <1>4 DEF wait_for_underlying
  <2>2. Ahead("recenter")' = Ahead("recenter")
    BY <2>1 DEF Ahead
  <2> QED
    BY <1>2, <2>1, <2>2
<1>5. ASSUME NEW t \in Task, qualify_option(t) PROVE PassInv'
  <2>1. PICK l \in todo[t] :
           /\ call[t] = Free /\ todo' = [todo EXCEPT ![t] = @ \ {l}] /\ Ask(t, l)
           /\ UNCHANGED <<front, registered, pass>>
    BY <1>5 DEF qualify_option
  <2> PICK r : Asked(t, l, r)
    BY <2>1, AskEffect
  <2>2. call'[t].ask = l /\ \A u \in Task \ {t} : call'[u] = call[u] /\ todo'[u] = todo[u]
    BY <1>0, <2>1 DEF Asked
  <2>3. todo'[t] = todo[t] \ {l}
    BY <1>0, <2>1
  <2>4. Ahead("recenter") \subseteq Ahead("recenter")' \union {Chain}
    BY <1>0, <2>1, <2>2, <2>3 DEF Ahead
  <2> QED
    BY <1>1, <2>1, <2>4 DEF PassInv
<1>6. ASSUME NEW t \in Task, Qualified(t) PROVE PassInv'
  <2> DEFINE a == call[t].ask
  <2>1. /\ call' = [call EXCEPT ![t] = Free] /\ UNCHANGED <<front, todo>>
        /\ register_option(a) \/ (call[t].res = <<>> /\ UNCHANGED registered)
        /\ pass' = IF t = "recenter" /\ call[t].res = <<>> /\ Leg(a) \in Listed
                   THEN 0 ELSE pass
    BY <1>6 DEF Qualified
  <2>2. registered \subseteq registered' /\ (pass' = pass \/ pass' = 0)
    BY <2>1 DEF register_option
  <2>3. CASE t = "main"
    <3>1. Ahead("recenter")' = Ahead("recenter")
      BY <1>0, <2>1, <2>3 DEF Ahead
    <3> QED
      BY <1>2, <2>1, <2>2, <3>1
  <2>4. CASE t = "recenter"
    <3>1. Ahead("recenter") \subseteq Ahead("recenter")' \union {a}
      BY <1>0, <2>1, <2>4 DEF Ahead
    <3>2. pass' # 0 /\ Leg(a) \in Listed => \E q \in registered' : Leg(q) = Leg(a)
      BY <2>1, <2>4 DEF register_option
    <3> QED
      BY <1>2, <2>1, <2>2, <3>1, <3>2
  <2> QED
    BY <1>0, <2>3, <2>4
<1>7. CASE run_window_recenter
  <2>1. /\ pass' = fwd /\ UNCHANGED registered
        /\ \E exp : /\ front' = [front EXCEPT !["recenter"] = exp]
                    /\ todo' = [todo EXCEPT !["recenter"] = Window(fwd, exp) \ registered]
    BY <1>7 DEF run_window_recenter, Missing
  <2>2. todo'["recenter"] = Window(pass', front'["recenter"]) \ registered
    BY <1>0, <2>1
  <2> QED
    BY <2>1, <2>2 DEF PassInv, Ahead
<1>8. CASE \E p \in Ticks : Fit(p)
  <2>1. UNCHANGED <<call, front, todo, registered, pass>>
    BY <1>8 DEF Fit
  <2>2. Ahead("recenter")' = Ahead("recenter")
    BY <2>1 DEF Ahead
  <2> QED
    BY <1>2, <2>1, <2>2
<1> QED
  BY <1>0, <1>3, <1>4, <1>5, <1>6, <1>7, <1>8, LineSteps

LEMMA LineInvHolds == Spec => [](LineInv /\ PassInv)
<1>1. ASSUME Init PROVE LineInv /\ PassInv
  <2>1. /\ call = [t \in Task |-> Free] /\ todo = [t \in Task |-> {}]
        /\ front = [t \in Task |-> 0] /\ lines = [l \in Legs |-> 0]
        /\ registered = {} /\ fwd = 0 /\ pass = 0 /\ boot = "start"
    BY <1>1 DEF Init
  <2>2. /\ \A t \in Task : call[t] = Free /\ todo[t] = {}
        /\ "main" \in Task /\ "recenter" \in Task /\ Free.ask = Chain
    BY <2>1 DEF Task, Free
  <2>3. TurnInv /\ ToSubscribe
    BY <2>1, <2>2 DEF TurnInv, ToSubscribe
  <2>4. StrikeInv
    BY <2>1, <2>2 DEF StrikeInv, Ahead
  <2>5. \A l \in Legs : LegLines(l)
    BY <2>1 DEF LegLines
  <2> QED
    BY <2>1, <2>3, <2>4, <2>5 DEF LineInv, PassInv
<1>2. AwaitInv => MainFree
  BY DEF AwaitInv
<1> QED
  BY <1>1, <1>2, LineInvInductive, PassInvInductive, DataInvHolds, OwnInvHolds, AwaitInvHolds,
     SeedInvHolds, PTL DEF Spec

\* The boot's subscriptions and the recentering take one market-data line for a
\* leg, whatever answers are late, refused or lost in between, unless the
\* account holds the leg at a strike that drifts; and such a leg has a third
\* line only while market_data has it under the position's strike.
THEOREM LinesPerLegAlways == Spec => []LinesPerLeg
<1>1. ASSUME LineInv PROVE LinesPerLeg
  <2> SUFFICES ASSUME NEW l \in Legs
               PROVE  \/ lines[l] <= 1
                      \/ /\ l \in Held /\ l[2] \in Drifting
                         /\ lines[l] <= 2 \/ Parsed(l) \in registered
    BY DEF LinesPerLeg
  <2>1. LegLines(l)
    BY <1>1 DEF LineInv
  <2> QED
    BY <2>1 DEF LegLines
<1> QED
  BY <1>1, LineInvHolds, PTL

\* A pass of the recentering whose questions were answered leaves every listed
\* leg around its forward registered, the ones earlier passes missed included.
THEOREM WindowCoveredAlways == Spec => []WindowCovered
<1>1. ASSUME PassInv PROVE WindowCovered
  <2> SUFFICES ASSUME pass # 0, todo["recenter"] = {}, call["recenter"] = Free,
                      NEW p \in Window(pass, front["recenter"]), Leg(p) \in Listed
               PROVE  \E q \in registered : Leg(q) = Leg(p)
    BY DEF WindowCovered
  <2>1. Ahead("recenter") = {}
    BY DEF Free, Ahead
  <2> QED
    BY <1>1, <2>1 DEF PassInv
<1> QED
  BY <1>1, LineInvHolds, PTL
=============================================================================
