----------------------------- MODULE LockOrder -----------------------------
(***************************************************************************)
(* The broker's tasks and the mutexes of Runtime (runtime.rs, tasks.rs,    *)
(* ipc.rs, subscriptions.rs, vol_surface.rs).  A task runs one critical    *)
(* section after another, never awaits inside one, and drops the guards of *)
(* a section in the reverse order; what it does with the data is left out. *)
(*                                                                         *)
(* A section is given by its chain of nested locks.  Every task may start  *)
(* any of its sections at any time: a task between sections holds nothing, *)
(* so their order cannot matter to who waits for whom.  A std Mutex is not *)
(* re-entrant.                                                             *)
(***************************************************************************)
EXTENDS Naturals, Sequences, FiniteSets

CONSTANT Tasks      \* the tasks that run, a subset of AllTasks

\* The mutexes two tasks share.  seen_orders, recently_terminated,
\* contract_by_key, ipc_server, latency_samples and the caches of the tick
\* fast path are only ever taken alone and for one map access.
Locks == {"account", "hedge", "portfolio", "market_data", "risk",
          "constraint", "snapshot", "qualified_contracts", "vol_surface_cache"}

-----------------------------------------------------------------------------
(* The sections of each task.                                              *)

\* handle_fill: the hedge fill, the option lookup, add_fill, the daily P&L
\* check, rebalance_on_fill, and place_hedge_order's two reads.
pump_fills ==
    {<<"hedge">>, <<"portfolio">>, <<"market_data">>,
     <<"portfolio", "market_data", "risk", "hedge">>,
     <<"portfolio", "hedge">>}

pump_ticks == {<<"market_data">>}

pump_connection == {<<"risk">>}

periodic_greek_refresh == {<<"portfolio", "market_data">>}

periodic_risk_check ==
    {<<"account">>, <<"hedge">>,
     <<"portfolio", "market_data", "risk", "hedge">>}

periodic_hedge ==
    {<<"hedge">>, <<"market_data">>,
     <<"portfolio", "market_data">>, <<"portfolio", "hedge">>}

\* A snapshot that did not need the portfolio any more.
periodic_snapshot_ungated ==
    {<<"account", "constraint">>, <<"risk", "hedge", "market_data", "snapshot">>,
     <<"snapshot">>}

\* build_chain_payload reads the vol surface inside the section and lets it
\* go before the publisher is locked; write_built locks it again alone.
periodic_snapshot ==
    {<<"account", "constraint">>,
     <<"portfolio", "risk", "hedge", "market_data", "vol_surface_cache">>,
     <<"portfolio", "risk", "hedge", "market_data", "snapshot">>,
     <<"snapshot">>}

daily_halt_rollover == {<<"portfolio">>, <<"risk">>}

\* The poll, resync_realized_pnl_from_ibkr and compute_raw_synthetic_margin.
periodic_account_poll ==
    {<<"account">>, <<"hedge">>, <<"portfolio">>,
     <<"portfolio", "market_data">>, <<"constraint">>}

\* forward_fills, for the notification of a fill.
build_fill_notify_context ==
    {<<"portfolio">>, <<"market_data">>, <<"hedge">>,
     <<"vol_surface_cache">>, <<"account">>}

periodic_risk_state == {<<"portfolio">>, <<"hedge">>, <<"account">>}

fit_and_publish ==
    {<<"portfolio">>, <<"market_data">>, <<"vol_surface_cache">>}

run_depth_rotator ==
    {<<"portfolio">>, <<"market_data", "qualified_contracts">>,
     <<"qualified_contracts">>}

\* With qualify_and_subscribe.
run_window_recenter ==
    {<<"vol_surface_cache">>, <<"market_data">>, <<"qualified_contracts">>}

Sections ==
    [pump_fills |-> pump_fills, pump_ticks |-> pump_ticks,
     pump_connection |-> pump_connection,
     periodic_greek_refresh |-> periodic_greek_refresh,
     periodic_risk_check |-> periodic_risk_check,
     periodic_hedge |-> periodic_hedge,
     periodic_snapshot |-> periodic_snapshot,
     daily_halt_rollover |-> daily_halt_rollover,
     periodic_account_poll |-> periodic_account_poll,
     build_fill_notify_context |-> build_fill_notify_context,
     periodic_risk_state |-> periodic_risk_state,
     fit_and_publish |-> fit_and_publish,
     run_depth_rotator |-> run_depth_rotator,
     run_window_recenter |-> run_window_recenter]

AllTasks == DOMAIN Sections

ASSUME TasksAssumption == Tasks \subseteq AllTasks

-----------------------------------------------------------------------------
VARIABLE stack      \* the locks each task holds, in the order it took them

Held(t) == {stack[t][i] : i \in 1 .. Len(stack[t])}

Free(l) == \A t \in Tasks : l \notin Held(t)

\* The locks t may be about to take, given what it holds.
Wants(t) ==
    {c[Len(stack[t]) + 1] : c \in {c \in Sections[t] :
        /\ Len(c) > Len(stack[t])
        /\ SubSeq(c, 1, Len(stack[t])) = stack[t]}}

Acquire(t, l) ==
    /\ Free(l)
    /\ stack' = [stack EXCEPT ![t] = Append(@, l)]

Release(t) ==
    /\ stack[t] # <<>>
    /\ stack' = [stack EXCEPT ![t] = SubSeq(@, 1, Len(@) - 1)]

Init == stack = [t \in Tasks |-> <<>>]

Next == \E t \in Tasks : Release(t) \/ \E l \in Wants(t) : Acquire(t, l)

Spec == Init /\ [][Next]_stack

-----------------------------------------------------------------------------
\* The tasks that hold a lock and may be waiting for another.
Waiting == {t \in Tasks : stack[t] # <<>> /\ Wants(t) # {}}

\* No group of tasks waits in a circle: however its members go on, one of
\* them asks for nothing that a member (itself included) holds.  The tasks
\* disagree about the order: the snapshot takes risk, hedge, market_data, the
\* risk check and the fill path market_data, risk, hedge.  What keeps them
\* apart is that both take portfolio first.
NoCircularWait ==
    \A S \in SUBSET Waiting : S # {} =>
        \E t \in S : \A l \in Wants(t) : \A u \in S : l \notin Held(u)

\* runtime.rs: "All hot paths take at most one lock at a time, or strictly in
\* this order": account, hedge, portfolio, market_data, risk, constraint.
Convention ==
    <<"account", "hedge", "portfolio", "market_data", "risk", "constraint">>
InDocumentedOrder ==
    \A t \in Tasks : \A i, j \in 1 .. Len(stack[t]) : \A m, n \in 1 .. Len(Convention) :
        (i < j /\ stack[t][i] = Convention[m] /\ stack[t][j] = Convention[n])
            => m < n
=============================================================================
