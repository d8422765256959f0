------------------------------ MODULE Session ------------------------------
(***************************************************************************)
(* A session with the IBKR gateway, from the boot of the daemon on:        *)
(* NativeClient's handshake, receive task and order ids, NativeBroker's    *)
(* dispatcher and pending requests (corsair_broker_ibkr_native), the boot  *)
(* sequence of Runtime::new (runtime.rs) and the market-data subscriptions *)
(* with the window recentering (subscriptions.rs), for one product.        *)
(*                                                                         *)
(* Prices are in half strike increments, expiries in days; call and put    *)
(* are treated alike, so a leg is <<expiry, strike>>.  The f64 of a strike *)
(* that was computed may differ in its last bits from the one parsed from  *)
(* the same number, so a planned leg is <<expiry, strike, noise>>.  What   *)
(* the gateway will still send is a set of jobs, each a sequence of        *)
(* messages; the socket's latency is that of the jobs.  A request id that  *)
(* nothing mentions any more stands for a new one: ids are only compared.  *)
(***************************************************************************)
EXTENDS Integers, Sequences, FiniteSets, SequencesExt

CONSTANTS
    Futures,        \* expiries of the listed futures
    Today,          \* current date
    Lockout,        \* hedge_lockout_days
    Width,          \* strikes subscribed on each side of the money
    Ticks,          \* prices the underlying may trade at
    Held,           \* option legs the account holds
    Listed,         \* legs IBKR lists
    Drifting,       \* strikes n for which n * strike_increment is not the nearest f64
    Cap,            \* DISPATCH_CHANNEL_CAP
    MaxLines,       \* bound: no pass is made once a leg has as many lines
    Budgets         \* bounds, one of which each behaviour starts with: records of how
                    \* many timeouts beat an answer that is coming (early), requests
                    \* the gateway ignores or refuses (faults), order ids are asked
                    \* for (orders), fits find a new forward (fits) and connections
                    \* are closed by either side (breaks)

ASSUME SessionAssumption ==
    /\ Futures \subseteq Int /\ Today \in Int /\ Lockout \in Nat /\ Width \in Nat
    /\ Ticks \subseteq Nat /\ Cap \in Nat \ {0} /\ MaxLines \in Nat
    /\ IsFiniteSet(Held) /\ Held \union Listed \subseteq Int \X Int
    /\ Budgets \subseteq [early : Nat, faults : Nat, orders : Nat, fits : Nat, breaks : Nat]

\* Finitely many futures are listed, and dates can be put in order.
ASSUME FuturesAssumption ==
    /\ IsFiniteSet(Futures)
    /\ \E s \in [1 .. Cardinality(Futures) -> Futures] :
           \A i \in 1 .. Cardinality(Futures) - 1 : s[i] > s[i + 1]

Task == {"main", "recenter"}
Req == 1 .. 4       \* bound: request ids in use at once, leaked ones included
Chain == <<>>       \* the subject of list_chain; that of qualify_option is the leg

VARIABLES
    link,       \* "down", "up", or "lost": the gateway is gone
    jobs,       \* what the gateway is going to send
    chan,       \* the bounded channel from the receive task to the dispatcher
    dispatching,\* has the dispatcher been spawned?
    nextId,     \* next_order_id, 0 until the gateway has sent one
    accounts,   \* has managedAccounts come?
    done,       \* seeding flags
    cache,      \* the adapter's positions
    pend,       \* pending_contract_details: what has come for a request
    call,       \* a task's call: "free", "waiting", "ok" or "failed", the request,
                \* its subject and the answer
    boot,       \* where main is
    seed,       \* the positions the portfolio was seeded with
    hedge,      \* the hedge contract's expiry, 0 when unresolved
    front,      \* main's front future; the recentering's cached front expiry
    und,        \* the underlying's price in market_data, 0 when unknown
    todo,       \* the planned legs a task still has to subscribe in this pass
    registered, \* legs of market_data, as the first to register each had planned it
    lines,      \* tick routes of each leg
    fwd,        \* forward of the last fit, 0 before the first
    used,       \* order ids handed out, in order
    budget,     \* what is left of the bounds
    lost,       \* history: a frame was dropped, or the seeding wait gave up
    pass        \* history: forward of the recentering's last pass, 0 once a listed
                \* leg of it was not answered

client == <<link, jobs, chan, dispatching, nextId, accounts>>
adapter == <<done, cache, pend>>
runtime == <<boot, seed, hedge, front, und, todo, registered, lines, fwd, pass>>
counts == <<budget, lost>>
vars == <<client, adapter, call, runtime, used, counts>>

Spend(what) == budget[what] > 0 /\ budget' = [budget EXCEPT ![what] = @ - 1]

Msg(t, r, v) == [type |-> t, req |-> r, val |-> v]
Free == [st |-> "free", req |-> 0, ask |-> Chain, res |-> <<>>]

-----------------------------------------------------------------------------
(* Strikes and expiries.                                                   *)

round_to_increment(p) == (p + 1) \div 2

generate_strikes(atm) == (atm - Width) .. (atm + Width)

\* The strike as round_to_increment and generate_strikes compute it, and as a
\* position of the feed has it.
OnGrid(l) == <<l[1], l[2], IF l[2] \in Drifting THEN 1 ELSE 0>>
Parsed(l) == <<l[1], l[2], 0>>

\* strike_key of market_data, and qualify_option before it asks: the noise goes.
Leg(p) == <<p[1], p[2]>>

Window(p, exp) == {OnGrid(<<exp, k>>) : k \in generate_strikes(round_to_increment(p))}

pick_option_expiry(fut) == fut - 1

\* The legs there are lines for.
Expiries == {pick_option_expiry(e) : e \in Futures} \union {l[1] : l \in Listed \union Held}
Legs == Listed \union Held
            \union {Leg(q) : q \in UNION {Window(p, e) : p \in Ticks, e \in Expiries}}

Earliest(S) == CHOOSE e \in S : \A f \in S : e <= f

-----------------------------------------------------------------------------
(* Requests.                                                               *)

Mentioned ==
    {call[t].req : t \in Task} \union DOMAIN pend
        \union {m.req : m \in UNION {{j[i] : i \in DOMAIN j} : j \in jobs}}
        \union {chan[i].req : i \in DOMAIN chan}

\* Mutant: the id of a request that is no longer pending is used again.
AllocReusing == CHOOSE r \in Req : r \notin DOMAIN pend
alloc_req_id == CHOOSE r \in Req : r \notin Mentioned

\* What the gateway sends for a request: the leg, if it is listed, or the
\* futures, the front one last.
Answer(r, ask) ==
    IF ask # Chain
    THEN (IF Leg(ask) \in Listed THEN <<Msg("details", r, Leg(ask))>> ELSE <<>>)
            \o <<Msg("detailsEnd", r, 0)>>
    ELSE LET n == Cardinality(Futures)
             order == CHOOSE s \in [1 .. n -> Futures] :
                         \A i \in 1 .. n - 1 : s[i] > s[i + 1]
         IN  [i \in 1 .. n |-> Msg("details", r, <<order[i]>>)] \o <<Msg("detailsEnd", r, 0)>>

\* list_chain and qualify_option up to the await: the entry is made, the frame
\* sent.  When the send fails the call fails at once and the entry stays.
Ask(t, ask) ==
    LET r == alloc_req_id
        waiting == [st |-> "waiting", req |-> r, ask |-> ask, res |-> <<>>]
    IN  /\ Req \ Mentioned # {}
        /\ pend' = [q \in DOMAIN pend \union {r} |-> IF q = r THEN <<>> ELSE pend[q]]
        /\ \/ /\ link = "up"
              /\ jobs' = jobs \union {Answer(r, ask)}
              /\ call' = [call EXCEPT ![t] = waiting]
              /\ UNCHANGED budget
           \/ /\ link = "up" /\ Spend("faults")
              /\ \/ jobs' = jobs
                 \/ jobs' = jobs \union {<<Msg("error", r, 200)>>}
              /\ call' = [call EXCEPT ![t] = waiting]
           \/ /\ link = "lost"
              /\ \/ call' = [call EXCEPT ![t] = waiting]
                 \/ call' = [call EXCEPT ![t] = [waiting EXCEPT !.st = "failed"]]
              /\ UNCHANGED <<jobs, budget>>
        /\ UNCHANGED <<link, chan, dispatching, nextId, accounts, done, cache,
                       lost>>

\* Is an answer to r still on its way?
Coming(r) ==
    \/ \E j \in jobs : \E i \in DOMAIN j : j[i].req = r
    \/ \E i \in DOMAIN chan : chan[i].req = r

\* Mutant: the entry of a call that timed out is left behind.
TimeoutLeaving(t) ==
    /\ call[t].st = "waiting"
    /\ \/ ~Coming(call[t].req) /\ UNCHANGED budget
       \/ Spend("early")
    /\ call' = [call EXCEPT ![t].st = "failed"]
    /\ UNCHANGED <<client, adapter, runtime, used, lost>>

\* The 10 s and 60 s timeouts: the entry is removed and the call fails.
Timeout(t) ==
    /\ call[t].st = "waiting"
    /\ \/ ~Coming(call[t].req) /\ UNCHANGED budget
       \/ Spend("early")
    /\ pend' = [q \in DOMAIN pend \ {call[t].req} |-> pend[q]]
    /\ call' = [call EXCEPT ![t].st = "failed"]
    /\ UNCHANGED <<client, done, cache, runtime, used, lost>>

-----------------------------------------------------------------------------
(* The receive task and the dispatcher.                                    *)

\* Mutant: the gateway's id replaces the local one.
TakeGatewayId(v) == v

\* nextValidId is merged with the local counter.
NextValidId(v) == IF v > nextId THEN v ELSE nextId

\* One frame: the two messages the client keeps state for, then the dispatch
\* channel, which drops the frame when it is full.
Receive(j) ==
    /\ link = "up"
    /\ LET m == Head(j)
       IN  /\ nextId' = IF m.type = "nextValidId" THEN NextValidId(m.val) ELSE nextId
           /\ accounts' = (accounts \/ m.type = "managedAccounts")
           /\ IF Len(chan) < Cap
              THEN chan' = Append(chan, m) /\ UNCHANGED lost
              ELSE lost' = TRUE /\ UNCHANGED chan
    /\ jobs' = (jobs \ {j}) \union (IF Len(j) = 1 THEN {} ELSE {Tail(j)})
    /\ UNCHANGED <<link, dispatching, adapter, call, runtime, used, budget>>

\* A waiting call gets its answer through the oneshot.
Resolve(r, st, res) ==
    call' = [t \in Task |->
                IF call[t].req = r /\ call[t].st = "waiting"
                THEN [call[t] EXCEPT !.st = st, !.res = res] ELSE call[t]]

Drop(r) == pend' = [q \in DOMAIN pend \ {r} |-> pend[q]]

\* NativeBroker::route, for the messages of the session.
Dispatch ==
    /\ dispatching /\ chan # <<>>
    /\ LET m == Head(chan)
       IN  \/ /\ m.type = "position"
              /\ cache' = cache \union {m.val}
              /\ UNCHANGED <<done, pend, call>>
           \/ /\ m.type \in {"positionEnd", "openOrderEnd", "accountEnd"}
              /\ done' = done \union {m.type}
              /\ UNCHANGED <<cache, pend, call>>
           \/ /\ m.type = "details"
              /\ pend' = [q \in DOMAIN pend |->
                             IF q = m.req THEN Append(pend[q], m.val) ELSE pend[q]]
              /\ UNCHANGED <<done, cache, call>>
           \/ /\ m.type = "detailsEnd" /\ m.req \in DOMAIN pend
              /\ Resolve(m.req, "ok", pend[m.req]) /\ Drop(m.req)
              /\ UNCHANGED <<done, cache>>
           \/ /\ m.type = "error" /\ m.req \in DOMAIN pend
              /\ Resolve(m.req, "failed", <<>>) /\ Drop(m.req)
              /\ UNCHANGED <<done, cache>>
           \/ /\ \/ m.type \in {"nextValidId", "managedAccounts"}
                 \/ m.type \in {"detailsEnd", "error"} /\ m.req \notin DOMAIN pend
              /\ UNCHANGED <<done, cache, pend, call>>
    /\ chan' = Tail(chan)
    /\ UNCHANGED <<link, jobs, dispatching, nextId, accounts, runtime, used, counts>>

\* The gateway goes away.  The receive task ends with a log line, and what it
\* had not read is gone.  Nobody else is told: the dispatcher's channel stays
\* open, for the client keeps a sender.
Eof ==
    /\ Spend("breaks") /\ link = "up"
    /\ link' = "lost" /\ jobs' = {}
    /\ UNCHANGED <<chan, dispatching, nextId, accounts, adapter, call, runtime,
                   used, lost>>

\* alloc_order_id, for place_order; IBKR then sends nextValidId again, with
\* what it has processed by then.
alloc_order_id ==
    /\ boot = "running" /\ nextId > 0 /\ Spend("orders")
    /\ used' = Append(used, nextId)
    /\ nextId' = nextId + 1
    /\ \/ link = "up" /\ \E v \in 1 .. nextId + 1 : jobs' = jobs \union {<<Msg("nextValidId", 0, v)>>}
       \/ link = "lost" /\ UNCHANGED jobs
    /\ UNCHANGED <<link, chan, dispatching, accounts, adapter, call, runtime, lost>>

-----------------------------------------------------------------------------
(* The boot of the daemon.                                                 *)

Main(from, to) == boot = from /\ boot' = to

\* How the version handshake may end.
read_handshake_reply == {"version", "old version", "closed", "malformed", "timeout"}

\* NativeClient::connect: the TCP connect, the version handshake and startApi;
\* the daemon ends with an error unless all succeed.
connect ==
    /\ \E reply \in read_handshake_reply :
         IF reply = "version"
         THEN /\ Main("start", "bootstrap")
              /\ link' = "up"
              /\ jobs' = {<<Msg("nextValidId", 0, 1)>>, <<Msg("managedAccounts", 0, 0)>>}
         ELSE Main("start", "failed") /\ UNCHANGED <<link, jobs>>
    /\ UNCHANGED <<chan, dispatching, nextId, accounts, adapter, call, seed, hedge,
                   front, und, todo, registered, lines, fwd, pass, used, counts>>

\* Mutant: the positions are taken without waiting for their end.
SeededOnAccount == "accountEnd" \in done
SeededWhole == {"positionEnd", "openOrderEnd", "accountEnd"} \subseteq done

\* A wait that polls gives up only when nothing more comes, or too early.
GivesUp ==
    \/ ~Coming(0) /\ UNCHANGED budget
    \/ Spend("early")

\* wait_for_bootstrap, then the dispatcher and the requests for the account's
\* state; the daemon ends when the wait or a send fails.
wait_for_bootstrap ==
    /\ \/ /\ Main("bootstrap", "seeding")
          /\ nextId > 0 /\ accounts
          /\ dispatching' = TRUE
          /\ jobs' = IF link # "up" THEN jobs
                     ELSE jobs \union
                        {<<Msg("accountEnd", 0, 0)>>, <<Msg("openOrderEnd", 0, 0)>>,
                         [i \in 1 .. Cardinality(Held) |->
                            Msg("position", 0, SetToSeq(Held)[i])]
                            \o <<Msg("positionEnd", 0, 0)>>}
          /\ UNCHANGED budget
       \/ /\ Main("bootstrap", "failed")
          /\ IF nextId > 0 /\ accounts
             THEN link = "lost" /\ UNCHANGED budget
             ELSE GivesUp
          /\ UNCHANGED <<dispatching, jobs>>
    /\ UNCHANGED <<link, chan, nextId, accounts, adapter, call, seed, hedge, front,
                   und, todo, registered, lines, fwd, pass, used, lost>>

\* wait_for_seeding, up to 15 s; the boot goes on either way.
wait_for_seeding ==
    /\ Main("seeding", "resolve")
    /\ \/ SeededWhole /\ UNCHANGED <<budget, lost>>
       \/ ~SeededWhole /\ GivesUp /\ lost' = TRUE
    /\ UNCHANGED <<client, adapter, call, seed, hedge, front, und, todo, registered,
                   lines, fwd, pass, used>>

\* The futures of the answer that expire on or after a date.
From(day) == {res[1] : res \in {call["main"].res[i] : i \in DOMAIN call["main"].res}}
                \intersect {e \in Futures : e >= day}

AskChain(from, to) ==
    /\ Main(from, to)
    /\ Ask("main", Chain)
    /\ UNCHANGED <<seed, hedge, front, und, todo, registered, lines, fwd, pass, used>>

\* resolve_hedge_contracts: the first future past the lockout.
resolve_hedge_contracts ==
    /\ Main("resolving", "seed")
    /\ call["main"].st # "waiting"
    /\ LET ok == From(Today + Lockout)
       IN  hedge' = IF ok = {} THEN hedge ELSE Earliest(ok)
    /\ call' = [call EXCEPT !["main"] = Free]
    /\ UNCHANGED <<client, adapter, seed, front, und, todo, registered, lines, fwd, pass,
                   used, counts>>

\* seed_positions_from_broker, and the account snapshot, which only copies.
seed_positions_from_broker ==
    /\ Main("seed", "chain")
    /\ seed' = cache
    /\ UNCHANGED <<client, adapter, call, hedge, front, und, todo, registered, lines,
                   fwd, pass, used, counts>>

\* resolve_underlying and the tick subscriptions of the underlying and of the
\* hedge contract; a failure leaves the product without market data.
resolve_underlying ==
    /\ boot = "listing" /\ call["main"].st # "waiting"
    /\ LET ok == From(Today)
       IN  \/ /\ ok # {}
              /\ front' = [front EXCEPT !["main"] = Earliest(ok)]
              /\ boot' = "tick"
           \/ /\ ok = {} \/ link = "lost"
              /\ boot' = "running"
              /\ UNCHANGED front
    /\ call' = [call EXCEPT !["main"] = Free]
    /\ UNCHANGED <<client, adapter, seed, hedge, und, todo, registered, lines, fwd, pass,
                   used, counts>>

\* The first tick of the underlying.
Tick(p) ==
    /\ link = "up" /\ boot = "tick" /\ und = 0
    /\ und' = p
    /\ UNCHANGED <<client, adapter, call, boot, seed, hedge, front, todo, registered,
                   lines, fwd, pass, used, counts>>

\* The window and the account's legs, put into one set by expiry and strike bits.
planned(window) == window \union {Parsed(l) : l \in seed}

\* wait_for_underlying, up to 10 s; without a tick no option is subscribed.
wait_for_underlying ==
    /\ boot = "tick"
    /\ \/ /\ und # 0
          /\ todo' = [todo EXCEPT !["main"] =
                planned(Window(und, pick_option_expiry(front["main"])))]
          /\ boot' = "legs" /\ UNCHANGED budget
       \/ /\ und = 0
          /\ \/ link = "lost" /\ UNCHANGED budget
             \/ Spend("faults")
          /\ boot' = "running" /\ UNCHANGED todo
    /\ UNCHANGED <<client, adapter, call, seed, hedge, front, und, registered, lines,
                   fwd, pass, used, lost>>

-----------------------------------------------------------------------------
(* qualify_and_subscribe, for the boot and for the recentering.            *)

\* The boot's set is a HashSet, which has no order; a pass goes up the strikes.
qualify_option(t) ==
    /\ call[t] = Free
    /\ \E p \in todo[t] :
         /\ t = "recenter" => \A q \in todo[t] : p[2] <= q[2]
         /\ todo' = [todo EXCEPT ![t] = @ \ {p}]
         /\ Ask(t, p)
    /\ UNCHANGED <<boot, seed, hedge, front, und, registered, lines, fwd, pass, used>>

\* A line at IBKR for the leg; a failed send takes its route back.
subscribe_ticks(l) ==
    \/ lines' = [lines EXCEPT ![l] = @ + 1]
    \/ link = "lost" /\ UNCHANGED lines

\* A leg that is there keeps the strike it was first registered with.
register_option(p) ==
    registered' = IF Leg(p) \in {Leg(q) : q \in registered} THEN registered
                  ELSE registered \union {p}

\* The answer: the leg is registered, its contract cached, and its ticks are
\* subscribed; the registration stays when that fails.
Qualified(t) ==
    /\ call[t].ask # Chain /\ call[t].st # "waiting"
    /\ LET res == call[t].res
       IN  \/ /\ res # <<>>
              /\ register_option(call[t].ask)
              /\ subscribe_ticks(Head(res))
           \/ /\ res = <<>>
              /\ UNCHANGED <<registered, lines>>
    /\ pass' = IF t = "recenter" /\ call[t].res = <<>> /\ Leg(call[t].ask) \in Listed
                THEN 0 ELSE pass
    /\ call' = [call EXCEPT ![t] = Free]
    /\ UNCHANGED <<client, adapter, boot, seed, hedge, front, und, todo, fwd, used,
                   counts>>

subscribe_product ==
    \/ qualify_option("main") /\ boot = "legs"
    \/ Qualified("main")
    \/ /\ Main("legs", "running")
       /\ todo["main"] = {} /\ call["main"] = Free
       /\ UNCHANGED <<client, adapter, call, seed, hedge, front, und, todo, registered,
                      lines, fwd, pass, used, counts>>

\* The vol-surface task, started after the boot's subscriptions, finds a
\* forward from the legs of the front expiry.
Fit(f) ==
    /\ boot = "running" /\ registered # {} /\ Spend("fits") /\ f # fwd
    /\ fwd' = f
    /\ UNCHANGED <<client, adapter, call, boot, seed, hedge, front, und, todo,
                   registered, lines, pass, used, lost>>

\* Mutant: every leg of the window, subscribed or not.
MissingAll(window) == window
\* Mutant: a window is planned once; what failed is not tried again.
MissingOnce(window) == IF window \intersect registered = {} THEN window ELSE {}
\* already_subbed: strike bits against strike bits.
Missing(window) == window \ registered

\* One pass of run_window_recenter: the front expiry is the earliest of the
\* registered legs, looked up once.
run_window_recenter ==
    /\ todo["recenter"] = {} /\ call["recenter"] = Free
    /\ fwd > 0 /\ registered # {}
    /\ \A l \in Legs : lines[l] < MaxLines
    /\ LET exp == IF front["recenter"] # 0 THEN front["recenter"]
                  ELSE Earliest({l[1] : l \in registered})
       IN  /\ front' = [front EXCEPT !["recenter"] = exp]
           /\ todo' = [todo EXCEPT !["recenter"] = Missing(Window(fwd, exp))]
    /\ pass' = fwd
    /\ UNCHANGED <<client, adapter, call, boot, seed, hedge, und, registered, lines,
                   fwd, used, counts>>

\* runtime.shutdown: every waiting call fails, the socket is closed.
disconnect ==
    /\ Spend("breaks")
    /\ Main("running", "stopped")
    /\ call' = [t \in Task |-> IF call[t].st = "waiting"
                               THEN [call[t] EXCEPT !.st = "failed"] ELSE call[t]]
    /\ pend' = <<>> /\ link' = "lost" /\ jobs' = {}
    /\ UNCHANGED <<chan, dispatching, nextId, accounts, done, cache, seed, hedge,
                   front, und, todo, registered, lines, fwd, pass, used, lost>>

-----------------------------------------------------------------------------
Init ==
    /\ link = "down" /\ jobs = {} /\ chan = <<>> /\ dispatching = FALSE
    /\ nextId = 0 /\ accounts = FALSE /\ done = {} /\ cache = {} /\ pend = <<>>
    /\ call = [t \in Task |-> Free] /\ boot = "start" /\ seed = {} /\ hedge = 0
    /\ front = [t \in Task |-> 0] /\ und = 0 /\ todo = [t \in Task |-> {}]
    /\ registered = {} /\ lines = [l \in Legs |-> 0] /\ fwd = 0 /\ pass = 0 /\ used = <<>>
    /\ budget \in Budgets /\ lost = FALSE

MainStep ==
    \/ connect \/ wait_for_bootstrap \/ wait_for_seeding
    \/ AskChain("resolve", "resolving") \/ resolve_hedge_contracts
    \/ seed_positions_from_broker
    \/ AskChain("chain", "listing") \/ resolve_underlying
    \/ wait_for_underlying \/ subscribe_product

Recenter == run_window_recenter \/ qualify_option("recenter") \/ Qualified("recenter")

Gateway == \E j \in jobs : Receive(j)

Next ==
    \/ MainStep \/ Recenter \/ Gateway \/ Dispatch
    \/ \E t \in Task : Timeout(t)
    \/ Eof \/ disconnect \/ alloc_order_id
    \/ \E p \in Ticks : Tick(p) \/ Fit(p)

Spec == Init /\ [][Next]_vars

\* The daemon's tasks and timers keep running, and a gateway that is up sends
\* what it owes.  Nothing is assumed of the market.
FairSpec ==
    /\ Spec
    /\ WF_vars(MainStep) /\ WF_vars(Recenter) /\ WF_vars(Gateway) /\ WF_vars(Dispatch)
    /\ \A t \in Task : WF_vars(Timeout(t))

-----------------------------------------------------------------------------
(* Properties.                                                             *)

\* A call gets the answer to its own question, although answers of calls that
\* timed out are still on their way when the next one is made.
AnswersOwn ==
    \A t \in Task : \A i \in DOMAIN call[t].res :
            IF call[t].ask # Chain THEN call[t].res[i] = Leg(call[t].ask)
            ELSE call[t].res[i] \in {<<e>> : e \in Futures}

\* While the connection stands, every pending entry has a call that waits for
\* it: none outlives its timeout, its answer or its error.
PendingAwaited ==
    link = "up" => \A r \in DOMAIN pend :
        \E t \in Task : call[t].req = r /\ call[t].st = "waiting"

\* "A partial snapshot can mask short inventory at boot": unless the 15 s wait
\* gave up or a frame was dropped, the portfolio starts with every position.
SeedWhole ==
    (boot \in {"chain", "listing", "tick", "legs", "running"} /\ ~lost) => seed = Held

\* No order id is handed out twice, although the gateway repeats nextValidId
\* with values the local counter has passed.
OrderIdsFresh == \A i, j \in DOMAIN used : i < j => used[i] < used[j]

\* Boot and recentering together take one market-data line per leg, whatever
\* timeouts, refusals and late answers come between.  The exception is a leg the
\* account holds whose strike drifts: it is planned as two.  That costs a second
\* line, and more only when the position's strike is the registered one.
LinesPerLeg ==
    \A l \in Legs :
        \/ lines[l] <= 1
        \/ /\ l \in Held /\ l[2] \in Drifting
           /\ lines[l] <= 2 \/ Parsed(l) \in registered

\* Known to fail: a pass "only ADDS missing strikes", so what it is about to
\* subscribe has no line.  A held leg that market_data has under the position's
\* strike is not found under the grid's, and gets one more line in every pass.
OnlyMissingAdded == \A p \in todo["recenter"] : lines[Leg(p)] = 0

\* A leg that a timeout, an error or a dropped frame kept out at boot or in an
\* earlier pass is tried again: a pass whose questions are answered ends with
\* every listed leg around its forward registered.
WindowCovered ==
    (pass # 0 /\ todo["recenter"] = {} /\ call["recenter"] = Free) =>
        {Leg(p) : p \in Window(pass, front["recenter"])} \intersect Listed
            \subseteq {Leg(q) : q \in registered}

\* Known to fail: an entry whose frame could not be sent stays for ever, and a
\* recentering that goes on without a connection leaves one in every pass.
NothingLeaks ==
    \A r \in DOMAIN pend : \E t \in Task : call[t].req = r /\ call[t].st = "waiting"

\* Known to fail: the cached front expiry of the recentering is the boot's
\* ("boot path established it").  It is the earliest registered leg's, a held
\* leg's when no front leg could be qualified at boot.
WindowOnFront ==
    (front["recenter"] # 0 /\ front["main"] # 0) =>
        front["recenter"] = pick_option_expiry(front["main"])

\* Known to fail: resolve_hedge_contracts logs "hedge will retry on next
\* periodic"; nothing does.
HedgeResolvedYet == <>(link = "lost" \/ boot = "failed" \/ hedge # 0)
=============================================================================
