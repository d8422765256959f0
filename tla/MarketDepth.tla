---------------------------- MODULE MarketDepth ----------------------------
(***************************************************************************)
(* Level-2 depth: run_depth_rotator (corsair_broker/src/subscriptions.rs)  *)
(* shares IBKR's few depth lines among the option legs; NativeBroker keeps *)
(* the routes of the subscriptions and broadcasts the updates, pump_depth  *)
(* applies them to the leg's DepthBook (corsair_market_data), whose first  *)
(* levels the tick fast path sends to the trader.                          *)
(*                                                                         *)
(* A leg is its strike, so its distance to the underlying decides the      *)
(* order; one side of the book is kept, and a level is its price.  The     *)
(* socket is FIFO both ways: IBKR acts on a frame when it is sent, and     *)
(* what it has sent before is still on the wire.  Request ids are only     *)
(* compared, so one that nothing mentions any more stands for a new one.   *)
(***************************************************************************)
EXTENDS Integers, Sequences, FiniteSets, SequencesExt

CONSTANTS
    Legs,           \* strikes of the option legs
    Orders,         \* iteration orders of the options map
    Spots,          \* underlying prices
    Watched,        \* legs whose market moves
    Prices,         \* price levels
    Rows,           \* NUM_ROWS, also the book's cap
    MaxActive,      \* MAX_ACTIVE
    FixedNearest,   \* FIXED_NEAREST
    MaxWire,        \* bound: depth messages on the wire, and in the channel
    MaxMoves,       \* bound: moves of the underlying
    MaxRejects,     \* bound: depth requests IBKR turns down
    MayLag,         \* may pump_depth lag behind the broadcast?
    MayBreak        \* may the connection break?

ASSUME DepthAssumption ==
    /\ Legs \subseteq Nat \ {0} /\ IsFiniteSet(Legs)
    /\ Spots \subseteq Int /\ Watched \subseteq Legs
    /\ Orders \subseteq SetToSeqs(Legs)
    /\ Prices \subseteq Nat /\ Rows \in Nat \ {0} /\ MaxWire \in Nat /\ MaxMoves \in Nat
    /\ MaxRejects \in Nat /\ MayLag \in BOOLEAN /\ MayBreak \in BOOLEAN
    /\ FixedNearest \in Nat /\ MaxActive \in Nat /\ FixedNearest < MaxActive

Take(k, n) == IF k < n THEN k ELSE n
RotateSlots == MaxActive - FixedNearest
\* Cycles one round of the rotation takes over all the legs; one, if all are
\* always on.
Patience ==
    IF Cardinality(Legs) <= FixedNearest THEN 1
    ELSE (Cardinality(Legs) - FixedNearest + RotateSlots - 1) \div RotateSlots
Req == 1 .. MaxActive + MaxWire + 2
NoReq == 0

VARIABLES
    und,        \* the underlying's price
    quoted,     \* legs registered, qualified and with a bid or an ask
    iter,       \* the iteration order of the options map
    cursor,     \* rotate_cursor
    todo,       \* the rotator's work in this cycle: cancels, then adds
    active,     \* the rotator's handles: the request of a leg, or NoReq
    routes,     \* depth_routes: the leg of a request, or 0
    wire,       \* IBKR's depth messages to the dispatcher
    chan,       \* the depth broadcast, pump_depth's side
    books,      \* market_data: the depth book of each leg
    ibkr,       \* IBKR: the book it streams on a request, or <<-1>>
    link,       \* does the connection stand?
    moves, rejects, \* bounds on what the market and IBKR may do
    synced,     \* history: no update lost since the leg's last subscription
    missed      \* history: cycles a quoted leg has gone without depth since the
                \* market last changed

rotator == <<cursor, todo, active>>
market == <<und, quoted, iter, moves>>
history == <<synced, missed>>
vars == <<und, quoted, iter, cursor, todo, active, routes, wire, chan, books,
          ibkr, link, moves, rejects, synced, missed>>

NotStreamed == <<-1>>
Streamed == {r \in Req : ibkr[r] # NotStreamed}

-----------------------------------------------------------------------------
(* DepthBook::apply.                                                       *)

\* Mutant: an insert into a full book is dropped, except at its end.
ApplyDroppingInserts(book, u) ==
    CASE u.op = 0 -> IF Len(book) = Rows /\ u.pos < Rows THEN book
                     ELSE InsertAt(book, IF u.pos < Len(book) THEN u.pos + 1
                                         ELSE Len(book) + 1, u.price)
      [] u.op = 1 -> IF u.pos < Len(book) THEN [book EXCEPT ![u.pos + 1] = u.price]
                     ELSE IF u.pos = Len(book) /\ Len(book) < Rows
                          THEN Append(book, u.price) ELSE book
      [] u.op = 2 -> IF u.pos < Len(book) THEN RemoveAt(book, u.pos + 1) ELSE book

\* 0 inserts at a position, the deepest level of a full book falls off; 1
\* replaces, or adds right below the last level; 2 deletes.
apply(book, u) ==
    CASE u.op = 0 ->
           LET b == IF Len(book) = Rows THEN Front(book) ELSE book
           IN  IF u.pos > Rows THEN book
               ELSE InsertAt(b, 1 + (IF u.pos < Len(b) THEN u.pos ELSE Len(b)),
                             u.price)
      [] u.op = 1 ->
           IF u.pos < Len(book) THEN [book EXCEPT ![u.pos + 1] = u.price]
           ELSE IF u.pos = Len(book) /\ Len(book) < Rows THEN Append(book, u.price)
           ELSE book
      [] u.op = 2 ->
           IF u.pos < Len(book) THEN RemoveAt(book, u.pos + 1) ELSE book

-----------------------------------------------------------------------------
(* The rotator.                                                            *)

Dist(l) == IF l > und THEN l - und ELSE und - l

\* Where a leg stands in the map's iteration order.
Place(l) == CHOOSE i \in DOMAIN iter : iter[i] = l

\* The sort is stable, so legs at the same distance stay in the map's order.
NoFurther(k, l) ==
    \/ Dist(k) < Dist(l)
    \/ Dist(k) = Dist(l) /\ Place(k) <= Place(l)

\* A leg's position among those with a market, nearest first.
Rank(l) == Cardinality({k \in quoted : NoFurther(k, l)})

\* The legs with a market, nearest first.
Candidates ==
    [n \in 1 .. Cardinality(quoted) |-> CHOOSE l \in quoted : Rank(l) = n]

Fixed(c) == SubSeq(c, 1, Take(FixedNearest, Len(c)))
Pool(c) == SubSeq(c, FixedNearest + 1, Len(c))

\* The always-on legs, then RotateSlots of the rest from the cursor on.
Chosen(c) ==
    LET n == Len(Pool(c))
    IN  Fixed(c) \o [i \in 1 .. Take(RotateSlots, n) |->
                        Pool(c)[(((cursor % n) + (i - 1)) % n) + 1]]

\* Mutant: the cursor stays where it is.
NextCursorStuck(c) == cursor

NextCursor(c) ==
    LET n == Len(Pool(c))
    IN  IF n = 0 THEN cursor ELSE (cursor + Take(RotateSlots, n)) % n

Idle == [cancel |-> <<>>, add |-> <<>>]

\* The legs still to be added, from the first one without a handle on: those
\* that have one are passed over.
NotYet(legs, held) ==
    LET first == CHOOSE i \in 1 .. Len(legs) + 1 :
                     /\ i <= Len(legs) => held[legs[i]] = NoReq
                     /\ \A j \in 1 .. i - 1 : held[legs[j]] # NoReq
    IN  SubSeq(legs, first, Len(legs))

\* Mutant: the legs no longer wanted are not cancelled.
PlanAddingFirst(chosen) == [cancel |-> <<>>, add |-> NotYet(chosen, active)]

Plan(chosen) ==
    [cancel |-> SetToSeq({l \in Legs : active[l] # NoReq /\ l \notin Range(chosen)}),
     add |-> NotYet(chosen, active)]

\* One tick of the 30 s cadence.
Cycle ==
    /\ todo = Idle
    /\ LET c == Candidates
       IN  cursor' = NextCursor(c) /\ todo' = Plan(Chosen(c))
    /\ missed' = [l \in Legs |->
                     IF active[l] # NoReq \/ l \notin quoted THEN 0
                     ELSE Take(missed[l] + 1, Patience + 1)]
    /\ UNCHANGED <<market, active, routes, wire, chan, books, ibkr, link,
                   rejects, synced>>

\* unsubscribe_market_depth: the handle and its route go, then the frame is
\* sent; a failure is only logged.
unsubscribe_market_depth ==
    /\ todo.cancel # <<>>
    /\ LET l == Head(todo.cancel)
           r == active[l]
       IN  /\ active' = [active EXCEPT ![l] = NoReq]
           /\ routes' = [routes EXCEPT ![r] = 0]
           /\ ibkr' = [ibkr EXCEPT ![r] = NotStreamed]
    /\ todo' = [todo EXCEPT !.cancel = Tail(@)]
    /\ UNCHANGED <<market, cursor, wire, chan, books, link, rejects, history>>

FreshReq ==
    CHOOSE r \in Req :
        /\ routes[r] = 0 /\ ibkr[r] = NotStreamed
        /\ \A l \in Legs : active[l] # r
        /\ \A i \in DOMAIN wire : wire[i].req # r

\* Mutant: a failed send leaves the route behind.
SubscribeWithoutUnwind ==
    /\ todo.cancel = <<>> /\ todo.add # <<>>
    /\ LET l == Head(todo.add)
           r == FreshReq
       IN  /\ routes' = [routes EXCEPT ![r] = l]
           /\ IF link
              THEN /\ active' = [active EXCEPT ![l] = r]
                   /\ ibkr' = [ibkr EXCEPT ![r] = <<>>]
                   /\ synced' = [synced EXCEPT ![l] = TRUE]
              ELSE UNCHANGED <<active, ibkr, synced>>
    /\ todo' = [todo EXCEPT !.add = NotYet(Tail(@), active')]
    /\ UNCHANGED <<market, cursor, wire, chan, books, link, rejects, missed>>

\* subscribe_market_depth: the route is in place before the frame is sent,
\* and is taken back when the send fails.  IBKR starts to stream, or turns
\* the request down with an error that nobody connects to the handle.
subscribe_market_depth ==
    /\ todo.cancel = <<>> /\ todo.add # <<>>
    /\ LET l == Head(todo.add)
           r == FreshReq
       IN  \/ /\ link
              /\ routes' = [routes EXCEPT ![r] = l]
              /\ active' = [active EXCEPT ![l] = r]
              /\ synced' = [synced EXCEPT ![l] = TRUE]
              /\ \/ ibkr' = [ibkr EXCEPT ![r] = <<>>] /\ UNCHANGED rejects
                 \/ rejects < MaxRejects /\ rejects' = rejects + 1 /\ UNCHANGED ibkr
           \/ /\ ~link
              /\ UNCHANGED <<routes, active, synced, ibkr, rejects>>
    /\ todo' = [todo EXCEPT !.add = NotYet(Tail(@), active')]
    /\ UNCHANGED <<market, cursor, wire, chan, books, link, missed>>

-----------------------------------------------------------------------------
(* The updates.                                                            *)

\* The update fits a book at IBKR.
Fits(book, u) ==
    IF u.op = 0 THEN u.pos <= Len(book) /\ u.pos < Rows ELSE u.pos < Len(book)

\* IBKR's book after an update; what falls below the rows asked for is gone.
Revised(book, u) ==
    CASE u.op = 0 -> LET b == InsertAt(book, u.pos + 1, u.price)
                     IN  SubSeq(b, 1, Take(Len(b), Rows))
      [] u.op = 1 -> ReplaceAt(book, u.pos + 1, u.price)
      [] u.op = 2 -> RemoveAt(book, u.pos + 1)

\* IBKR changes a book it streams and tells which level changed.
Stream(r, u) ==
    /\ ibkr[r] # NotStreamed /\ routes[r] \in Watched
    /\ Len(wire) < MaxWire
    /\ Fits(ibkr[r], u)
    /\ ibkr' = [ibkr EXCEPT ![r] = Revised(@, u)]
    /\ wire' = Append(wire, [req |-> r, u |-> u])
    /\ UNCHANGED <<market, rotator, routes, chan, books, link, rejects, history>>

\* The MarketDepth arm of route: an update of an unknown request is dropped.
Route ==
    /\ wire # <<>>
    /\ LET m == Head(wire)
       IN  IF routes[m.req] # 0
           THEN /\ Len(chan) < MaxWire
                /\ chan' = Append(chan, [leg |-> routes[m.req], u |-> m.u])
           ELSE UNCHANGED chan
    /\ wire' = Tail(wire)
    /\ UNCHANGED <<market, rotator, routes, books, ibkr, link, rejects, history>>

pump_depth ==
    /\ chan # <<>>
    /\ books' = [books EXCEPT ![Head(chan).leg] = apply(@, Head(chan).u)]
    /\ chan' = Tail(chan)
    /\ UNCHANGED <<market, rotator, routes, wire, ibkr, link, rejects, history>>

\* The broadcast overwrote what pump_depth had not read.
Lagged ==
    /\ MayLag
    /\ chan # <<>>
    /\ synced' = [synced EXCEPT ![Head(chan).leg] = FALSE]
    /\ chan' = Tail(chan)
    /\ UNCHANGED <<market, rotator, routes, wire, books, ibkr, link, rejects, missed>>

-----------------------------------------------------------------------------
(* The market and the connection.                                          *)

Move(p) ==
    /\ moves < MaxMoves /\ p # und
    /\ und' = p /\ moves' = moves + 1
    /\ missed' = [k \in Legs |-> 0]
    /\ UNCHANGED <<quoted, iter, rotator, routes, wire, chan, books, ibkr, link,
                   rejects, synced>>

\* A leg gets its first bid or ask; the map may have been rehashed.
Register(l, order) ==
    /\ l \notin quoted
    /\ quoted' = quoted \union {l}
    /\ iter' = order
    /\ missed' = [k \in Legs |-> 0]
    /\ UNCHANGED <<und, moves, rotator, routes, wire, chan, books, ibkr, link,
                   rejects, synced>>

\* Nothing reconnects the adapter; what was on the wire is lost.
Break ==
    /\ MayBreak /\ link
    /\ link' = FALSE
    /\ ibkr' = [r \in Req |-> NotStreamed]
    /\ wire' = <<>>
    /\ UNCHANGED <<market, rotator, routes, chan, books, rejects, history>>

Init ==
    /\ und \in Spots /\ quoted = Watched
    /\ iter \in Orders
    /\ cursor = 0 /\ todo = Idle /\ active = [l \in Legs |-> NoReq]
    /\ routes = [r \in Req |-> 0] /\ wire = <<>> /\ chan = <<>>
    /\ books = [l \in Legs |-> <<>>] /\ ibkr = [r \in Req |-> NotStreamed]
    /\ link = TRUE /\ moves = 0 /\ rejects = 0
    /\ synced = [l \in Legs |-> TRUE] /\ missed = [l \in Legs |-> 0]

Updates ==
    {u \in [op : 0 .. 2, pos : 0 .. Rows - 1, price : Prices] :
        u.op = 2 => u.price = CHOOSE p \in Prices : TRUE}

Next ==
    \/ Cycle \/ unsubscribe_market_depth \/ subscribe_market_depth
    \/ \E r \in Req, u \in Updates : Stream(r, u)
    \/ Route \/ pump_depth \/ Lagged
    \/ \E p \in Spots : Move(p)
    \/ \E l \in Legs, order \in Orders : Register(l, order)
    \/ Break

Spec == Init /\ [][Next]_vars

-----------------------------------------------------------------------------
(* Properties.                                                             *)

\* Types; a book never holds more levels than were asked for.
TypeOK ==
    /\ und \in Spots /\ quoted \subseteq Legs /\ iter \in Orders
    /\ cursor \in 0 .. Cardinality(Legs)
    /\ active \in [Legs -> Req \union {NoReq}]
    /\ routes \in [Req -> Legs \union {0}]
    /\ \A l \in Legs : books[l] \in Seq(Prices) /\ Len(books[l]) <= Rows
    /\ link \in BOOLEAN /\ synced \in [Legs -> BOOLEAN]

\* IBKR allows MAX_ACTIVE concurrent depth requests; an excess one is turned
\* down.  The rotator's cancels and adds, done one by one while the cursor and
\* the underlying move, never have more of them open at once.
DepthWithinLimit == Cardinality(Streamed) <= MaxActive

\* No update of the leg is in flight: none that the dispatcher has broadcast,
\* and none of the current request on the wire.
Settled(l) ==
    /\ \A i \in DOMAIN chan : chan[i].leg # l
    /\ \A i \in DOMAIN wire : wire[i].req # active[l]

\* Unless the broadcast lagged, the book of a subscribed leg is IBKR's book,
\* level by level from the top, whenever nothing is in flight:
\* whatever an earlier subscription left behind stays below it, although the
\* late updates of the old request and the new ones meet in one channel.
BookFollows ==
    \A l \in Legs :
        (active[l] # NoReq /\ synced[l] /\ link /\ active[l] \in Streamed) =>
            (Settled(l) => IsPrefix(ibkr[active[l]], books[l]))

\* Every route belongs to a handle the rotator holds, so no update of a
\* cancelled or never granted subscription can reach a book and the map does
\* not grow over the session.
RoutesOwned ==
    \A r \in Req : routes[r] # 0 => active[routes[r]] = r

\* The wings are not locked out: while the market and the connection stand, no
\* leg with a market goes without a subscription for more cycles than one
\* round of the rotation takes.
EveryLegCovered ==
    link => \A l \in Legs : missed[l] <= Patience

\* TickEvent says of depth_bid_0 and the like that they are None when the
\* rotator has not subscribed the leg.  Nothing clears a book, so this fails.
DepthOnlyWhileSubscribed ==
    \A l \in Legs : books[l] # <<>> => active[l] # NoReq
=============================================================================
