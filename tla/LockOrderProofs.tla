-------------------------- MODULE LockOrderProofs --------------------------
(***************************************************************************)
(* No set of the broker's tasks ever waits in a circle, whichever of them  *)
(* run: THEOREM NoCircularWaitEver.  The chains of nested locks share four *)
(* facts (ChainFacts) that no single lock order explains; with the two     *)
(* facts that hold of every reachable state, that a task's stack is the    *)
(* start of one of its chains and that a lock has one holder, they decide  *)
(* who can wait for whom.                                                  *)
(***************************************************************************)
EXTENDS LockOrder, SequenceTheorems, TLAPS

\* The locks that end every chain they are in.
LastLocks == {"constraint", "qualified_contracts"}

\* What the chains of the sections have in common: no lock is taken twice, a
\* nested chain starts with portfolio, or is one of two short ones, and the
\* last locks come last.
ChainOK(c) ==
    /\ c \in Seq(Locks)
    /\ \A i, j \in 1 .. Len(c) : i # j => c[i] # c[j]
    /\ \A i \in 1 .. Len(c) - 1 : c[i] \notin LastLocks
    /\ Len(c) >= 2 =>
          \/ c[1] = "portfolio"
          \/ c[1] = "account" /\ Len(c) = 2 /\ c[2] = "constraint"
          \/ c[1] = "market_data" /\ Len(c) = 2 /\ c[2] = "qualified_contracts"

\* What a task holds is the start of one of its chains.
Started(t) ==
    \E c \in Sections[t] :
        /\ Len(stack[t]) <= Len(c)
        /\ \A i \in 1 .. Len(stack[t]) : stack[t][i] = c[i]

\* A lock has at most one holder.
OneHolder ==
    \A t, u \in Tasks : t # u =>
        \A i \in 1 .. Len(stack[t]), j \in 1 .. Len(stack[u]) :
            stack[t][i] # stack[u][j]

LockInv ==
    /\ stack \in [Tasks -> Seq(Locks)]
    /\ \A t \in Tasks : Started(t)
    /\ OneHolder

-----------------------------------------------------------------------------
\* The four facts, read off the sections of the fourteen tasks.
LEMMA ChainFacts ==
    ASSUME NEW t \in AllTasks, NEW c \in Sections[t]
    PROVE  ChainOK(c)
<1>1. \A a \in Locks : ChainOK(<<a>>)
  BY DEF ChainOK
<1>2. ChainOK(<<"account", "constraint">>)
  BY DEF ChainOK, LastLocks, Locks
<1>3. ChainOK(<<"market_data", "qualified_contracts">>)
  BY DEF ChainOK, LastLocks, Locks
<1>4. ChainOK(<<"portfolio", "market_data">>)
  BY DEF ChainOK, LastLocks, Locks
<1>5. ChainOK(<<"portfolio", "hedge">>)
  BY DEF ChainOK, LastLocks, Locks
<1>6. ChainOK(<<"portfolio", "market_data", "risk", "hedge">>)
  BY DEF ChainOK, LastLocks, Locks
<1>7. ChainOK(<<"portfolio", "risk", "hedge", "market_data", "vol_surface_cache">>)
  BY DEF ChainOK, LastLocks, Locks
<1>8. ChainOK(<<"portfolio", "risk", "hedge", "market_data", "snapshot">>)
  BY DEF ChainOK, LastLocks, Locks
<1> DEFINE T ==
        {"pump_fills", "pump_ticks", "pump_connection", "periodic_greek_refresh",
         "periodic_risk_check", "periodic_hedge", "periodic_snapshot",
         "daily_halt_rollover", "periodic_account_poll", "build_fill_notify_context",
         "periodic_risk_state", "fit_and_publish", "run_depth_rotator",
         "run_window_recenter"}
<1>9. t \in T
  BY DEF AllTasks, Sections
<1>10. CASE t = "pump_fills"
  <2>1. c \in pump_fills
    BY <1>10 DEF Sections
  <2> QED
    BY ONLY <2>1, <1>1, <1>2, <1>3, <1>4, <1>5, <1>6, <1>7, <1>8 DEF pump_fills, Locks
<1>11. CASE t = "pump_ticks"
  <2>1. c \in pump_ticks
    BY <1>11 DEF Sections
  <2> QED
    BY ONLY <2>1, <1>1, <1>2, <1>3, <1>4, <1>5, <1>6, <1>7, <1>8 DEF pump_ticks, Locks
<1>12. CASE t = "pump_connection"
  <2>1. c \in pump_connection
    BY <1>12 DEF Sections
  <2> QED
    BY ONLY <2>1, <1>1, <1>2, <1>3, <1>4, <1>5, <1>6, <1>7, <1>8 DEF pump_connection, Locks
<1>13. CASE t = "periodic_greek_refresh"
  <2>1. c \in periodic_greek_refresh
    BY <1>13 DEF Sections
  <2> QED
    BY ONLY <2>1, <1>1, <1>2, <1>3, <1>4, <1>5, <1>6, <1>7, <1>8 DEF periodic_greek_refresh, Locks
<1>14. CASE t = "periodic_risk_check"
  <2>1. c \in periodic_risk_check
    BY <1>14 DEF Sections
  <2> QED
    BY ONLY <2>1, <1>1, <1>2, <1>3, <1>4, <1>5, <1>6, <1>7, <1>8 DEF periodic_risk_check, Locks
<1>15. CASE t = "periodic_hedge"
  <2>1. c \in periodic_hedge
    BY <1>15 DEF Sections
  <2> QED
    BY ONLY <2>1, <1>1, <1>2, <1>3, <1>4, <1>5, <1>6, <1>7, <1>8 DEF periodic_hedge, Locks
<1>16. CASE t = "periodic_snapshot"
  <2>1. c \in periodic_snapshot
    BY <1>16 DEF Sections
  <2> QED
    BY ONLY <2>1, <1>1, <1>2, <1>3, <1>4, <1>5, <1>6, <1>7, <1>8 DEF periodic_snapshot, Locks
<1>17. CASE t = "daily_halt_rollover"
  <2>1. c \in daily_halt_rollover
    BY <1>17 DEF Sections
  <2> QED
    BY ONLY <2>1, <1>1, <1>2, <1>3, <1>4, <1>5, <1>6, <1>7, <1>8 DEF daily_halt_rollover, Locks
<1>18. CASE t = "periodic_account_poll"
  <2>1. c \in periodic_account_poll
    BY <1>18 DEF Sections
  <2> QED
    BY ONLY <2>1, <1>1, <1>2, <1>3, <1>4, <1>5, <1>6, <1>7, <1>8 DEF periodic_account_poll, Locks
<1>19. CASE t = "build_fill_notify_context"
  <2>1. c \in build_fill_notify_context
    BY <1>19 DEF Sections
  <2> QED
    BY ONLY <2>1, <1>1, <1>2, <1>3, <1>4, <1>5, <1>6, <1>7, <1>8 DEF build_fill_notify_context, Locks
<1>20. CASE t = "periodic_risk_state"
  <2>1. c \in periodic_risk_state
    BY <1>20 DEF Sections
  <2> QED
    BY ONLY <2>1, <1>1, <1>2, <1>3, <1>4, <1>5, <1>6, <1>7, <1>8 DEF periodic_risk_state, Locks
<1>21. CASE t = "fit_and_publish"
  <2>1. c \in fit_and_publish
    BY <1>21 DEF Sections
  <2> QED
    BY ONLY <2>1, <1>1, <1>2, <1>3, <1>4, <1>5, <1>6, <1>7, <1>8 DEF fit_and_publish, Locks
<1>22. CASE t = "run_depth_rotator"
  <2>1. c \in run_depth_rotator
    BY <1>22 DEF Sections
  <2> QED
    BY ONLY <2>1, <1>1, <1>2, <1>3, <1>4, <1>5, <1>6, <1>7, <1>8 DEF run_depth_rotator, Locks
<1>23. CASE t = "run_window_recenter"
  <2>1. c \in run_window_recenter
    BY <1>23 DEF Sections
  <2> QED
    BY ONLY <2>1, <1>1, <1>2, <1>3, <1>4, <1>5, <1>6, <1>7, <1>8 DEF run_window_recenter, Locks
<1> QED
  BY ONLY <1>9, <1>10, <1>11, <1>12, <1>13, <1>14, <1>15, <1>16, <1>17, <1>18, <1>19, <1>20, <1>21, <1>22, <1>23

-----------------------------------------------------------------------------
\* A lock that a task wants is the next one of a chain that starts with what
\* the task holds.
LEMMA WantedIsNext ==
    ASSUME LockInv, NEW t \in Tasks, NEW l \in Wants(t)
    PROVE  \E c \in Sections[t] :
              /\ ChainOK(c)
              /\ Len(stack[t]) < Len(c)
              /\ \A i \in 1 .. Len(stack[t]) : stack[t][i] = c[i]
              /\ l = c[Len(stack[t]) + 1]
<1> DEFINE n == Len(stack[t])
<1>1. t \in AllTasks
  BY TasksAssumption
<1>2. stack[t] \in Seq(Locks) /\ n \in Nat
  BY DEF LockInv
<1>3. PICK c \in Sections[t] : Len(c) > n /\ SubSeq(c, 1, n) = stack[t] /\ l = c[n + 1]
  BY DEF Wants
<1>4. ChainOK(c)
  BY <1>1, ChainFacts
<1>5. c \in Seq(Locks)
  BY <1>4 DEF ChainOK
<1>6. ASSUME NEW i \in 1 .. n PROVE stack[t][i] = c[i]
  BY <1>2, <1>3, <1>5
<1> QED
  BY <1>2, <1>3, <1>4, <1>5, <1>6

\* Releasing a lock or taking a wanted one keeps every stack the start of a
\* chain and every lock with one holder: Acquire's guard is what the second
\* needs.
LEMMA LockInvInductive == LockInv /\ [Next]_stack => LockInv'
<1> SUFFICES ASSUME LockInv, [Next]_stack PROVE LockInv'
  OBVIOUS
<1>0. stack \in [Tasks -> Seq(Locks)]
  BY DEF LockInv
<1>1. ASSUME NEW t \in Tasks, Release(t) PROVE LockInv'
  <2> DEFINE s == stack[t]
             r == SubSeq(s, 1, Len(s) - 1)
  <2>1. s \in Seq(Locks) /\ s # <<>> /\ Len(s) \in Nat /\ Len(s) > 0
    BY <1>0, <1>1 DEF Release
  <2>2. /\ r \in Seq(Locks)
        /\ Len(r) = Len(s) - 1
        /\ \A i \in 1 .. Len(r) : r[i] = s[i]
    BY <2>1
  <2>3. /\ stack' \in [Tasks -> Seq(Locks)]
        /\ stack'[t] = r
        /\ \A u \in Tasks : u # t => stack'[u] = stack[u]
    BY <1>0, <1>1, <2>2 DEF Release
  <2> HIDE DEF r
  <2>4. ASSUME NEW u \in Tasks PROVE Started(u)'
    <3>1. PICK c \in Sections[u] :
            /\ Len(stack[u]) <= Len(c)
            /\ \A i \in 1 .. Len(stack[u]) : stack[u][i] = c[i]
      BY DEF LockInv, Started
    <3>2. u \in AllTasks /\ c \in Seq(Locks)
      BY TasksAssumption, ChainFacts DEF ChainOK
    <3>3. CASE u # t
      BY <3>1, <3>3, <2>3 DEF Started
    <3>4. CASE u = t
      <4>1. Len(r) <= Len(c) /\ \A i \in 1 .. Len(r) : r[i] = c[i]
        BY <3>1, <3>2, <3>4, <2>1, <2>2
      <4> QED
        BY <4>1, <2>3, <3>4 DEF Started
    <3> QED
      BY <3>3, <3>4
  <2>5. OneHolder'
    <3> SUFFICES ASSUME NEW u \in Tasks, NEW v \in Tasks, u # v,
                        NEW i \in 1 .. Len(stack'[u]), NEW j \in 1 .. Len(stack'[v])
                 PROVE  stack'[u][i] # stack'[v][j]
      BY DEF OneHolder
    <3>1. ASSUME NEW w \in Tasks, NEW k \in 1 .. Len(stack'[w])
          PROVE  k \in 1 .. Len(stack[w]) /\ stack'[w][k] = stack[w][k]
      <4>1. CASE w = t
        BY <4>1, <3>1, <2>1, <2>2, <2>3
      <4>2. CASE w # t
        BY <4>2, <3>1, <2>3
      <4> QED
        BY <4>1, <4>2
    <3> QED
      BY <3>1 DEF LockInv, OneHolder
  <2> QED
    BY <2>3, <2>4, <2>5 DEF LockInv
<1>2. ASSUME NEW t \in Tasks, NEW l \in Wants(t), Acquire(t, l) PROVE LockInv'
  <2> DEFINE s == stack[t]
             r == Append(s, l)
  <2>1. s \in Seq(Locks) /\ Len(s) \in Nat
    BY <1>0
  <2>2. PICK c \in Sections[t] :
              /\ ChainOK(c)
              /\ Len(s) < Len(c)
              /\ \A i \in 1 .. Len(s) : s[i] = c[i]
              /\ l = c[Len(s) + 1]
    BY WantedIsNext
  <2>3. c \in Seq(Locks) /\ l \in Locks
    BY <2>1, <2>2 DEF ChainOK
  <2>4. /\ r \in Seq(Locks)
        /\ Len(r) = Len(s) + 1
        /\ r[Len(s) + 1] = l
        /\ \A i \in 1 .. Len(s) : r[i] = s[i]
    BY <2>1, <2>3
  <2>5. /\ stack' \in [Tasks -> Seq(Locks)]
        /\ stack'[t] = r
        /\ \A u \in Tasks : u # t => stack'[u] = stack[u]
    BY <1>0, <1>2, <2>4 DEF Acquire
  <2> HIDE DEF r
  <2>6. ASSUME NEW u \in Tasks PROVE Started(u)'
    <3>1. CASE u # t
      <4>1. Started(u) /\ stack'[u] = stack[u]
        BY <3>1, <2>5 DEF LockInv
      <4> QED
        BY <4>1 DEF Started
    <3>2. CASE u = t
      <4>1. Len(r) <= Len(c) /\ \A i \in 1 .. Len(r) : r[i] = c[i]
        BY <2>1, <2>2, <2>3, <2>4
      <4> QED
        BY <4>1, <2>5, <3>2 DEF Started
    <3> QED
      BY <3>1, <3>2
  <2>7. ASSUME NEW u \in Tasks, NEW j \in 1 .. Len(stack[u]) PROVE stack[u][j] # l
    BY <1>2 DEF Acquire, Free, Held
  <2>8. ASSUME NEW u \in Tasks, u # t, NEW i \in 1 .. Len(r), NEW j \in 1 .. Len(stack[u])
        PROVE  r[i] # stack[u][j]
    <3>1. CASE i = Len(s) + 1
      BY <3>1, <2>4, <2>7, <2>8
    <3>2. CASE i \in 1 .. Len(s)
      BY <3>2, <2>4, <2>8 DEF LockInv, OneHolder
    <3> QED
      BY <3>1, <3>2, <2>1, <2>4
  <2>9. OneHolder'
    <3> SUFFICES ASSUME NEW u \in Tasks, NEW v \in Tasks, u # v,
                        NEW i \in 1 .. Len(stack'[u]), NEW j \in 1 .. Len(stack'[v])
                 PROVE  stack'[u][i] # stack'[v][j]
      BY DEF OneHolder
    <3>1. CASE u = t
      BY <3>1, <2>5, <2>8
    <3>2. CASE v = t
      BY <3>2, <2>5, <2>8
    <3>3. CASE u # t /\ v # t
      BY <3>3, <2>5 DEF LockInv, OneHolder
    <3> QED
      BY <3>1, <3>2, <3>3
  <2> QED
    BY <2>5, <2>6, <2>9 DEF LockInv
<1>3. CASE UNCHANGED stack
  BY <1>3 DEF LockInv, Started, OneHolder
<1> QED
  BY <1>1, <1>2, <1>3 DEF Next

\* Every task starts with an empty stack.
LEMMA LockInvHolds == Spec => []LockInv
<1>1. Init => LockInv
  <2> SUFFICES ASSUME Init PROVE LockInv
    OBVIOUS
  <2>1. /\ stack \in [Tasks -> Seq(Locks)]
        /\ \A t \in Tasks : stack[t] = <<>> /\ Len(stack[t]) = 0
    BY DEF Init
  <2>2. ASSUME NEW t \in Tasks PROVE Started(t)
    <3>1. t \in AllTasks
      BY TasksAssumption
    <3>2. \E c \in Sections[t] : TRUE
      <4>1. Sections[t] \in
              {pump_fills, pump_ticks, pump_connection, periodic_greek_refresh,
               periodic_risk_check, periodic_hedge, periodic_snapshot,
               daily_halt_rollover, periodic_account_poll,
               build_fill_notify_context, periodic_risk_state, fit_and_publish,
               run_depth_rotator, run_window_recenter}
        BY <3>1 DEF AllTasks, Sections
      <4>2. /\ pump_fills # {} /\ pump_ticks # {} /\ pump_connection # {}
            /\ periodic_greek_refresh # {} /\ periodic_risk_check # {}
            /\ periodic_hedge # {} /\ periodic_snapshot # {}
        BY DEF pump_fills, pump_ticks, pump_connection, periodic_greek_refresh,
               periodic_risk_check, periodic_hedge, periodic_snapshot
      <4>3. /\ daily_halt_rollover # {} /\ periodic_account_poll # {}
            /\ build_fill_notify_context # {} /\ periodic_risk_state # {}
            /\ fit_and_publish # {} /\ run_depth_rotator # {}
            /\ run_window_recenter # {}
        BY DEF daily_halt_rollover, periodic_account_poll,
               build_fill_notify_context, periodic_risk_state, fit_and_publish,
               run_depth_rotator, run_window_recenter
      <4> QED
        BY <4>1, <4>2, <4>3
    <3>3. PICK c \in Sections[t] : TRUE
      BY <3>2
    <3>4. Len(c) \in Nat
      BY <3>1, ChainFacts DEF ChainOK
    <3> QED
      BY <2>1, <3>3, <3>4 DEF Started
  <2>3. OneHolder
    BY <2>1 DEF OneHolder
  <2> QED
    BY <2>1, <2>2, <2>3 DEF LockInv
<1> QED
  BY <1>1, LockInvInductive, PTL DEF Spec

-----------------------------------------------------------------------------
\* A task that holds a lock and wants another holds portfolio, or is the
\* snapshot between account and constraint, or the depth rotator between
\* market_data and qualified_contracts.  It holds none of the last locks.
LEMMA WaitingShape ==
    ASSUME LockInv, NEW t \in Waiting
    PROVE  /\ \A i \in 1 .. Len(stack[t]) : stack[t][i] \notin LastLocks
           /\ \/ stack[t][1] = "portfolio" /\ 1 \in 1 .. Len(stack[t])
              \/ Wants(t) \subseteq LastLocks
<1> DEFINE n == Len(stack[t])
<1>1. t \in Tasks /\ stack[t] \in Seq(Locks) /\ n \in Nat /\ n >= 1 /\ Wants(t) # {}
  BY DEF Waiting, LockInv
<1>2. PICK k \in Wants(t) : TRUE
  BY <1>1
<1>3. PICK c \in Sections[t] :
            /\ ChainOK(c)
            /\ n < Len(c)
            /\ \A i \in 1 .. n : stack[t][i] = c[i]
  BY <1>1, <1>2, WantedIsNext
<1>4. Len(c) \in Nat
  BY <1>3 DEF ChainOK
<1>5. \A i \in 1 .. n : stack[t][i] \notin LastLocks
  BY <1>1, <1>3, <1>4 DEF ChainOK
<1>6. ASSUME stack[t][1] # "portfolio", NEW l \in Wants(t)
      PROVE  l \in LastLocks
  <2>1. PICK d \in Sections[t] :
            /\ ChainOK(d)
            /\ n < Len(d)
            /\ \A i \in 1 .. n : stack[t][i] = d[i]
            /\ l = d[n + 1]
    BY <1>1, <1>6, WantedIsNext
  <2>2. Len(d) \in Nat /\ d[1] # "portfolio" /\ Len(d) >= 2
    BY <1>1, <1>6, <2>1 DEF ChainOK
  <2>3. Len(d) = 2 /\ d[2] \in LastLocks
    BY <2>1, <2>2 DEF ChainOK, LastLocks
  <2> QED
    BY <1>1, <2>1, <2>3
<1> QED
  BY <1>1, <1>5, <1>6

\* Whichever tasks run, no set of them waits in a circle.  One that wants a
\* last lock waits for no member of the set, since waiting tasks hold none;
\* if there is none such, all hold portfolio, so there is one, and no chain
\* takes a lock twice.
THEOREM NoCircularWaitEver == Spec => []NoCircularWait
<1>1. LockInv => NoCircularWait
  <2> SUFFICES ASSUME LockInv, NEW S \in SUBSET Waiting, S # {}
               PROVE  \E t \in S : \A l \in Wants(t) : \A u \in S : l \notin Held(u)
    BY DEF NoCircularWait
  <2>1. CASE \E t \in S : Wants(t) \subseteq LastLocks
    <3>1. ASSUME NEW u \in S PROVE \A l \in LastLocks : l \notin Held(u)
      BY <3>1, WaitingShape DEF Held
    <3> QED
      BY <2>1, <3>1
  <2>2. CASE \A t \in S : ~(Wants(t) \subseteq LastLocks)
    <3>1. PICK t \in S : TRUE
      OBVIOUS
    <3>2. ASSUME NEW u \in S
          PROVE  u \in Tasks /\ stack[u][1] = "portfolio" /\ 1 \in 1 .. Len(stack[u])
      BY <2>2, <3>2, WaitingShape DEF Waiting
    <3>3. ASSUME NEW u \in S PROVE u = t
      <4>1. /\ t \in Tasks /\ stack[t][1] = "portfolio" /\ 1 \in 1 .. Len(stack[t])
            /\ u \in Tasks /\ stack[u][1] = "portfolio" /\ 1 \in 1 .. Len(stack[u])
        BY <3>2
      <4> QED
        BY <4>1 DEF LockInv, OneHolder
    <3>4. ASSUME NEW l \in Wants(t) PROVE l \notin Held(t)
      <4>1. t \in Tasks /\ stack[t] \in Seq(Locks) /\ Len(stack[t]) \in Nat
        BY DEF Waiting, LockInv
      <4>2. PICK c \in Sections[t] :
                /\ ChainOK(c)
                /\ Len(stack[t]) < Len(c)
                /\ \A i \in 1 .. Len(stack[t]) : stack[t][i] = c[i]
                /\ l = c[Len(stack[t]) + 1]
        BY <4>1, <3>4, WantedIsNext
      <4>3. Len(c) \in Nat
        BY <4>2 DEF ChainOK
      <4>4. \A i \in 1 .. Len(stack[t]) : l # stack[t][i]
        BY <4>1, <4>2, <4>3 DEF ChainOK
      <4> QED
        BY <4>4 DEF Held
    <3> QED
      BY <3>3, <3>4
  <2> QED
    BY <2>1, <2>2
<1> QED
  BY <1>1, LockInvHolds, PTL
=============================================================================
