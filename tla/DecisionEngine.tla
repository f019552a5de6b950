---------------------------- MODULE DecisionEngine ----------------------------
(***************************************************************************)
(* The order lifecycle of decision_engine.py: run_cycle turns the signals  *)
(* of a TDash run into market and limit orders, background_check confirms  *)
(* or escalates the limit orders and simulates one-cancels-other for the   *)
(* take-profit and stop-loss legs.  Both keep what they know in the file   *)
(* agent_state.json, which each loads once, edits in memory and rewrites   *)
(* whole.                                                                  *)
(*                                                                         *)
(* The two jobs of agent.py's scheduler are the processes "main"           *)
(* (run_once) and "bg" (background_check).  A handler is cut at the calls  *)
(* where another job, the broker's market or a crash can get in between:   *)
(* a load, an account fetch, each order, the two halves of a save.         *)
(*                                                                         *)
(* Left out: prices (they choose between market and limit and decide how   *)
(* many legs are accepted, so both are choices here; a market BUY is sent  *)
(* in dollars and counts as the shares it was planned for), cash and the   *)
(* ETFs, entry dates and the portfolio sync file.  A run has one signal    *)
(* per ticker.  A call made while the market is closed changes none of     *)
(* this state.                                                             *)
(*                                                                         *)
(* A definition named ..._Mutant is a plausible bug in the definition that *)
(* follows it; no other definition uses it.                                *)
(***************************************************************************)
EXTENDS Integers, FiniteSets

CONSTANTS
    Tickers,       \* the stocks signals are about (never QQQ or SPY)
    SignalSets,    \* what a published run may contain
    LegCounts,     \* how many of the TP and SL legs a placement may leave
    MaxPositions,  \* trading.max_positions
    MaxNew,        \* trading.max_new_per_cycle
    MaxRuns,       \* bound: TDash runs published
    MaxExecs,      \* bound: executions of one run
    MaxLegs,       \* bound: TP and SL legs placed
    FaultSets      \* the sets of faults to consider, see FaultKinds

\* "overlap": APScheduler runs the two jobs at the same time (18:00 UTC).
\* "midpublish": TDash writes a new run while a job is active.
\* "broker": a call to TDash or the broker fails, or an order is rejected.
\* "late": a place_order call that raises has reached the broker all the same.
\* "disk": agent_state.json cannot be opened for writing.
\* "crash": the process dies and is started again.
FaultKinds == {"overlap", "midpublish", "broker", "late", "disk", "crash"}

Actions == {"HOLD", "NEW", "ADD", "TRIM", "SELL"}

\* tdash_connector.Signal after _filter_signals: a dropped signal is a HOLD;
\* bracket says whether it carries a take-profit or stop-loss price.
Signal == [action : Actions, qty : Nat, bracket : BOOLEAN]

ASSUME TickersAssumption == IsFiniteSet(Tickers)
ASSUME SignalsAssumption == SignalSets \subseteq [Tickers -> Signal]
ASSUME LegCountsAssumption == LegCounts \subseteq 0..2
ASSUME LimitsAssumption == MaxPositions \in Nat /\ MaxNew \in Nat
ASSUME BoundsAssumption == MaxRuns \in Nat /\ MaxExecs \in Nat /\ MaxLegs \in Nat
ASSUME FaultsAssumption == FaultSets \subseteq SUBSET FaultKinds

VARIABLES
    faults,   \* the faults this behaviour may have
    \* the durable and external state
    file,     \* agent_state.json: last_run_id, pending_buys, tp_sl_pairs
    torn,     \* the file is truncated: a save was begun and not finished
    held,     \* broker: shares held, per ticker
    resting,  \* broker: shares in unfilled limit BUY orders, per ticker
    legs,     \* broker: live conditional SELL orders (TP and SL legs)
    nextId,   \* broker: the next conditional order id
    latest,   \* TDash: the newest run, 0 when there is none
    sigs,     \* TDash: the signals of the newest run
    \* the two jobs
    pc,       \* where each job is
    st,       \* each job's copy of the state dict
    run,      \* the run each job's cycle is executing
    want,     \* the signals of that run
    plans,    \* the plans each job's cycle has left to execute
    acct,     \* background_check: its account snapshot (positions only)
    peek,     \* background_check: latest_run_id
    scan,     \* background_check: pending tickers left to look at
    changed,  \* background_check: the state dict must be saved
    \* history
    execs,    \* how many cycles went on to execute each run
    signalled \* shares that executed plans asked to buy, per ticker

fileVars == <<file, torn>>
brokerVars == <<held, resting, legs, nextId>>
envVars == <<faults, latest, sigs>>
bgVars == <<acct, peek, scan, changed>>
vars == <<faults, file, torn, held, resting, legs, nextId, latest, sigs, pc, st, acct,
          run, want, plans, peek, scan, changed, execs, signalled>>

Jobs == {"main", "bg"}
Runs == 1..MaxRuns
Holdings == [Tickers -> Nat]

\* pending_buys[t]: quantity 0 is "no entry"; old is "placed 60 minutes ago".
Pending == [qty : Nat, old : BOOLEAN]
NoPending == [qty |-> 0, old |-> FALSE]

\* tp_sl_pairs[t] is the set of recorded leg ids; {} is "no entry".
StateDict == [last_run : 0..MaxRuns,
              pending  : [Tickers -> Pending],
              pairs    : [Tickers -> SUBSET Nat]]
DefaultState == [last_run |-> 0,
                 pending  |-> [t \in Tickers |-> NoPending],
                 pairs    |-> [t \in Tickers |-> {}]]

Leg == [id : Nat, ticker : Tickers, qty : Nat]

Plan == [kind : {"none", "market", "limit", "sell"}, qty : Nat, bracket : BOOLEAN]
NoPlan == [kind |-> "none", qty |-> 0, bracket |-> FALSE]
NoPlans == [t \in Tickers |-> NoPlan]
NoSignals == [t \in Tickers |-> [action |-> "HOLD", qty |-> 1, bracket |-> FALSE]]
Nothing == [t \in Tickers |-> 0]

CyclePCs == {"cycle", "signals", "account", "exec", "write"}
BgPCs == {"bgAccount", "scan", "bgSave", "bgWrite", "stamp"}

TypeOK ==
    /\ faults \in FaultSets
    /\ file \in StateDict /\ torn \in BOOLEAN
    /\ held \in Holdings /\ resting \in Holdings
    /\ legs \subseteq Leg /\ nextId \in Nat
    /\ latest \in 0..MaxRuns /\ sigs \in [Tickers -> Signal]
    /\ pc \in [Jobs -> {"idle"} \cup CyclePCs \cup BgPCs]
    /\ st \in [Jobs -> StateDict]
    /\ run \in [Jobs -> 0..MaxRuns] /\ want \in [Jobs -> [Tickers -> Signal]]
    /\ plans \in [Jobs -> [Tickers -> Plan]]
    /\ acct \in Holdings /\ peek \in 0..MaxRuns /\ scan \subseteq Tickers /\ changed \in BOOLEAN
    /\ execs \in [Runs -> Nat] /\ signalled \in Holdings

Init ==
    /\ faults \in FaultSets
    /\ file = DefaultState /\ torn = FALSE
    /\ held = Nothing /\ resting = Nothing /\ legs = {} /\ nextId = 0
    /\ latest = 0 /\ sigs = NoSignals
    /\ pc = [j \in Jobs |-> "idle"]
    /\ st = [j \in Jobs |-> DefaultState]
    /\ run = [j \in Jobs |-> 0] /\ want = [j \in Jobs |-> NoSignals]
    /\ plans = [j \in Jobs |-> NoPlans]
    /\ acct = Nothing /\ peek = 0 /\ scan = {} /\ changed = FALSE
    /\ execs = [r \in Runs |-> 0] /\ signalled = Nothing

-----------------------------------------------------------------------------
(* Helpers *)

\* A job starts when the other is idle, unless the scheduler overlaps them.
\* Bounds: no job starts that could execute a run more than MaxExecs times, or
\* when MaxLegs legs have been placed (jobs that lose their saves repeat orders).
MayStart(j) ==
    /\ pc[j] = "idle"
    /\ "overlap" \in faults \/ \A k \in Jobs : pc[k] = "idle"
    /\ nextId < MaxLegs
    /\ \/ latest = 0 \/ (~torn /\ file.last_run = latest)
       \/ latest > 0 /\ execs[latest] < MaxExecs

\* _load_state: a file cut short by a save does not parse and yields the default.
Loaded == IF torn THEN DefaultState ELSE file

\* Where a job goes when its cycle returns: run_once ends, background_check
\* goes on to its guard.
AfterCycle(j) == IF j = "main" THEN "idle" ELSE "stamp"

\* The handler returns: its local variables are gone.
Leave(j, where) ==
    /\ pc' = [pc EXCEPT ![j] = where]
    /\ st' = [st EXCEPT ![j] = DefaultState]
    /\ run' = [run EXCEPT ![j] = 0] /\ want' = [want EXCEPT ![j] = NoSignals]
    /\ plans' = [plans EXCEPT ![j] = NoPlans]

LeaveBg(where) ==
    /\ Leave("bg", where)
    /\ acct' = Nothing /\ scan' = {} /\ changed' = FALSE
    /\ peek' = IF where = "idle" THEN 0 ELSE peek

\* The newest run is not the one on record: background_check's trigger and the
\* idempotency check of run_cycle.
NewRun_Mutant == latest # 0
NewRun == latest # 0 /\ latest # Loaded.last_run

\* _reconcile_tp_sl_pairs(s, a): the pairs of tickers not held in snapshot a
\* are forgotten, whether or not cancelling their legs succeeds.
Gone(a) == {t \in Tickers : a[t] = 0}
Reconciled(s, a) ==
    [s EXCEPT !.pairs = [t \in Tickers |-> IF t \in Gone(a) THEN {} ELSE s.pairs[t]]]
CancelOrphans(s, a) ==
    LET orphans == UNION {s.pairs[t] : t \in Gone(a)}
    IN  \E done \in IF "broker" \in faults THEN SUBSET orphans ELSE {orphans} :
            legs' = {l \in legs : l.id \notin done}

\* place_tp_sl_pair and _place_and_store_tp_sl: n legs for q shares of t are
\* accepted, and the ids that came back replace whatever pair t had.  The id of
\* a leg whose call raised late is not known.
NewIds(n) == nextId .. nextId + n - 1
KnownIds(n) == IF "late" \in faults THEN SUBSET NewIds(n) ELSE {NewIds(n)}
Stored_BothMutant(s, t, ids) ==
    IF ids = {} THEN s ELSE [s EXCEPT !.pairs[t] = nextId .. nextId + 1]
Stored_NoneMutant(s, t, ids) == [s EXCEPT !.pairs[t] = IF ids = {} THEN {-1} ELSE ids]
Stored(s, t, ids) == IF ids = {} THEN s ELSE [s EXCEPT !.pairs[t] = ids]
PlaceLegs(t, q, n) ==
    /\ legs' = legs \cup {[id |-> i, ticker |-> t, qty |-> q] : i \in NewIds(n)}
    /\ nextId' = nextId + n

\* _select_signals: exits always pass.  An entry passes unless its ticker has a
\* pending limit buy, it is not tradable or too small (ok: the others), or, for
\* a NEW name, a cap is reached.  A SELL frees a slot in advance.  The ranking
\* by composite decides which NEW names are dropped.
Exits(w) == {t \in Tickers : w[t].action \in {"SELL", "TRIM"}}
Entries(w, pend) == {t \in Tickers : w[t].action \in {"ADD", "NEW"} /\ pend[t].qty = 0}
News(w) == {t \in Tickers : w[t].action = "NEW"}
EffectiveCount(w, a) == Cardinality({t \in Tickers : a[t] > 0})
                        - Cardinality({t \in Tickers : w[t].action = "SELL"})
Selections(w, a, ok) ==
    LET room == MaxPositions - EffectiveCount(w, a)
        n(e) == Cardinality(e \cap News(w))
    IN  {e \in SUBSET ok :
            /\ ok \ News(w) \subseteq e
            /\ n(e) = 0 \/ (n(e) <= MaxNew /\ n(e) <= room)
            /\ ok \subseteq e \/ n(e) >= MaxNew \/ n(e) >= room}

\* _signal_to_plan with smart order routing: a chosen entry without a price or a
\* quantity gets no plan; of the priced ones, those in mkt trade at or below
\* their entry price.
PlanFor(w, a, mkt, priced, t) ==
    CASE t \in mkt -> [kind |-> "market", qty |-> w[t].qty, bracket |-> w[t].bracket]
      [] t \in priced \ mkt -> [kind |-> "limit", qty |-> w[t].qty, bracket |-> w[t].bracket]
      [] t \in Exits(w) /\ a[t] > 0 /\ (w[t].action = "TRIM" => w[t].qty > 0) ->
            [kind |-> "sell", bracket |-> FALSE,
             qty |-> IF w[t].action = "TRIM" /\ w[t].qty < a[t] THEN w[t].qty ELSE a[t]]
      [] OTHER -> NoPlan

-----------------------------------------------------------------------------
(* run_cycle *)

MainStart ==
    /\ MayStart("main")
    /\ pc' = [pc EXCEPT !["main"] = "cycle"]
    /\ UNCHANGED <<fileVars, brokerVars, envVars, bgVars, st, run, want,
                   plans, execs, signalled>>

\* The state is loaded, then the newest run for its id.  Nothing to do: TDash
\* cannot be read, or the run was already processed.
CycleLoad(j) ==
    /\ pc[j] = "cycle"
    /\ IF NewRun
       THEN \/ /\ pc' = [pc EXCEPT ![j] = "signals"]
               /\ st' = [st EXCEPT ![j] = Loaded]
               /\ run' = [run EXCEPT ![j] = latest]
               /\ UNCHANGED <<want, plans>>
            \/ "broker" \in faults /\ Leave(j, AfterCycle(j))
       ELSE Leave(j, AfterCycle(j))
    /\ UNCHANGED <<fileVars, brokerVars, envVars, bgVars, execs, signalled>>

\* get_portfolio reads the newest run again for its signals, which may be those
\* of a later run by now.  Nothing to do: it cannot be read, or no signal is
\* actionable.
CycleSignals(j) ==
    /\ pc[j] = "signals"
    /\ IF \E t \in Tickers : sigs[t].action # "HOLD"
       THEN \/ /\ pc' = [pc EXCEPT ![j] = "account"]
               /\ want' = [want EXCEPT ![j] = sigs]
               /\ UNCHANGED <<st, run, plans>>
            \/ "broker" \in faults /\ Leave(j, AfterCycle(j))
       ELSE Leave(j, AfterCycle(j))
    /\ UNCHANGED <<fileVars, brokerVars, envVars, bgVars, execs, signalled>>

NothingSelected_Mutant(j) ==
    \E ok \in SUBSET Entries(want[j], st[j].pending) : {} \in Selections(want[j], held, ok)
NothingSelected(j) ==
    /\ Exits(want[j]) = {}
    /\ \E ok \in SUBSET Entries(want[j], st[j].pending) : {} \in Selections(want[j], held, ok)

\* The account cannot be fetched, or no signal passes the selection rules: the
\* cycle returns without saving last_run_id.
CycleGivesUp(j) ==
    /\ pc[j] = "account"
    /\ "broker" \in faults \/ NothingSelected(j)
    /\ Leave(j, AfterCycle(j))
    /\ UNCHANGED <<fileVars, brokerVars, envVars, bgVars, execs, signalled>>

\* Account fetch, selection, reconciliation and plan building.
CycleSelect(j) ==
    /\ pc[j] = "account"
    /\ \E ok \in SUBSET Entries(want[j], st[j].pending) :
       \E chosen \in Selections(want[j], held, ok) :
       \E priced \in SUBSET {t \in chosen : want[j][t].qty > 0} : \E mkt \in SUBSET priced :
          /\ chosen \cup Exits(want[j]) # {}
          /\ plans' = [plans EXCEPT ![j] =
                         [t \in Tickers |-> PlanFor(want[j], held, mkt, priced, t)]]
    /\ st' = [st EXCEPT ![j] = Reconciled(st[j], held)]
    /\ CancelOrphans(st[j], held)
    /\ execs' = [execs EXCEPT ![run[j]] = @ + 1]
    /\ pc' = [pc EXCEPT ![j] = "exec"]
    /\ UNCHANGED <<fileVars, held, resting, nextId, envVars, bgVars, run, want, signalled>>

\* _execute_one for ticker t: exits come before entries.
Executes(j, t, kind) ==
    /\ pc[j] = "exec"
    /\ plans[j][t].kind = kind
    /\ kind # "sell" => \A u \in Tickers : plans[j][u].kind # "sell"
    /\ plans' = [plans EXCEPT ![j][t] = NoPlan]
    /\ UNCHANGED <<fileVars, envVars, bgVars, pc, run, want, execs>>

\* A SELL is a market order for the planned quantity.  The broker rejects it
\* when less is held by now.
ExecuteSell(j, t) ==
    /\ Executes(j, t, "sell")
    /\ \/ /\ held[t] >= plans[j][t].qty
          /\ held' = [held EXCEPT ![t] = @ - plans[j][t].qty]
       \/ /\ held[t] < plans[j][t].qty \/ "broker" \in faults
          /\ held' = held
    /\ UNCHANGED <<resting, legs, nextId, st, signalled>>

\* A market BUY is taken as filled: TP and SL are placed at once, even when the
\* broker's answer reports a failed order.
ExecuteMarketBuy(j, t) ==
    LET p == plans[j][t] IN
    /\ Executes(j, t, "market")
    /\ \/ held' = [held EXCEPT ![t] = @ + p.qty]
       \/ "broker" \in faults /\ held' = held
    /\ \E n \in IF p.bracket THEN LegCounts ELSE {0} :
          /\ PlaceLegs(t, p.qty, n)
          /\ \E ids \in KnownIds(n) : st' = [st EXCEPT ![j] = Stored(@, t, ids)]
    /\ signalled' = [signalled EXCEPT ![t] = @ + p.qty]
    /\ UNCHANGED resting

\* A limit BUY rests at the broker; with a bracket it is noted in pending_buys.
ExecuteLimitBuy_Mutant(j, t) ==
    LET p == plans[j][t] IN
    /\ Executes(j, t, "limit")
    /\ resting' = [resting EXCEPT ![t] = @ + 2 * p.qty]
    /\ st' = IF p.bracket
             THEN [st EXCEPT ![j].pending[t] = [qty |-> p.qty, old |-> FALSE]]
             ELSE st
    /\ signalled' = [signalled EXCEPT ![t] = @ + p.qty]
    /\ UNCHANGED <<held, legs, nextId>>
ExecuteLimitBuy(j, t) ==
    LET p == plans[j][t] IN
    /\ Executes(j, t, "limit")
    /\ resting' = [resting EXCEPT ![t] = @ + p.qty]
    /\ st' = IF p.bracket
             THEN [st EXCEPT ![j].pending[t] = [qty |-> p.qty, old |-> FALSE]]
             ELSE st
    /\ signalled' = [signalled EXCEPT ![t] = @ + p.qty]
    /\ UNCHANGED <<held, legs, nextId>>

\* place_order raises: the plan is logged as failed and dropped, also when the
\* order has reached the broker (a SELL that did is an ExecuteSell).
ExecuteFails(j, t) ==
    LET p == plans[j][t] IN
    /\ \E kind \in {"market", "limit"} : Executes(j, t, kind)
    /\ \/ "broker" \in faults /\ UNCHANGED <<held, resting, signalled>>
       \/ /\ "late" \in faults
          /\ \/ /\ p.kind = "market" /\ held' = [held EXCEPT ![t] = @ + p.qty]
                /\ UNCHANGED resting
             \/ /\ p.kind = "limit" /\ resting' = [resting EXCEPT ![t] = @ + p.qty]
                /\ UNCHANGED held
          /\ signalled' = [signalled EXCEPT ![t] = @ + p.qty]
    /\ UNCHANGED <<legs, nextId, st>>

\* _save_state at the end of the cycle: open() truncates the file, then the
\* whole dict that was loaded at the start is written.
SaveBegin(j) ==
    /\ pc[j] = "exec" /\ plans[j] = NoPlans
    /\ st' = [st EXCEPT ![j].last_run = run[j]]
    /\ torn' = TRUE
    /\ pc' = [pc EXCEPT ![j] = "write"]
    /\ UNCHANGED <<file, brokerVars, envVars, bgVars, run, want, plans, execs, signalled>>

SaveEnd(j) ==
    /\ pc[j] = "write"
    /\ file' = st[j] /\ torn' = FALSE
    /\ Leave(j, AfterCycle(j))
    /\ UNCHANGED <<brokerVars, envVars, bgVars, execs, signalled>>

\* The file cannot be opened: _save_state logs it and returns.
SaveFails(j) ==
    /\ "disk" \in faults
    /\ pc[j] = "exec" /\ plans[j] = NoPlans
    /\ Leave(j, AfterCycle(j))
    /\ UNCHANGED <<fileVars, brokerVars, envVars, bgVars, execs, signalled>>

-----------------------------------------------------------------------------
(* background_check *)

\* Job 0: a new run triggers a cycle.
BgTrigger ==
    /\ MayStart("bg") /\ NewRun
    /\ pc' = [pc EXCEPT !["bg"] = "cycle"]
    /\ peek' = latest
    /\ UNCHANGED <<fileVars, brokerVars, envVars, st, run, want, plans, acct, scan,
                   changed, execs, signalled>>

\* Without a new run, or when TDash cannot be read, jobs 1 to 3 follow.
BgLoad ==
    /\ MayStart("bg")
    /\ ~NewRun \/ "broker" \in faults
    /\ pc' = [pc EXCEPT !["bg"] = "bgAccount"]
    /\ st' = [st EXCEPT !["bg"] = Loaded]
    /\ UNCHANGED <<fileVars, brokerVars, envVars, bgVars, run, want, plans,
                   execs, signalled>>

\* The guard after the triggered cycle: the peeked run is stamped if the file
\* does not name it.
BgStamp_Mutant ==
    pc["bg"] = "stamp" /\ LeaveBg("idle")
    /\ UNCHANGED <<fileVars, brokerVars, envVars, execs, signalled>>
BgStamp ==
    /\ pc["bg"] = "stamp"
    /\ IF Loaded.last_run # peek
       THEN /\ pc' = [pc EXCEPT !["bg"] = "bgSave"]
            /\ st' = [st EXCEPT !["bg"] = [Loaded EXCEPT !.last_run = peek]]
            /\ UNCHANGED <<run, want, plans, bgVars>>
       ELSE LeaveBg("idle")
    /\ UNCHANGED <<fileVars, brokerVars, envVars, execs, signalled>>

BgAccount ==
    /\ pc["bg"] = "bgAccount"
    /\ pc' = [pc EXCEPT !["bg"] = "scan"]
    /\ acct' = held
    /\ scan' = {t \in Tickers : st["bg"].pending[t].qty > 0}
    /\ UNCHANGED <<fileVars, brokerVars, envVars, st, run, want, plans, peek,
                   changed, execs, signalled>>

BgAccountFails ==
    /\ pc["bg"] = "bgAccount" /\ "broker" \in faults
    /\ LeaveBg("idle")
    /\ UNCHANGED <<fileVars, brokerVars, envVars, execs, signalled>>

\* One iteration of the loop over pending_buys.
Scans(t) ==
    /\ pc["bg"] = "scan" /\ t \in scan
    /\ scan' = scan \ {t}
    /\ UNCHANGED <<fileVars, resting, envVars, pc, run, want, plans, acct, peek,
                   execs, signalled>>

\* At least 90% of the quantity is held, however it got there.
Filled_Mutant(t) == acct[t] = st["bg"].pending[t].qty
Filled(t) == acct[t] > 0 /\ 10 * acct[t] >= 9 * st["bg"].pending[t].qty

Resolve(t, q, n) ==
    /\ PlaceLegs(t, q, n)
    /\ \E ids \in KnownIds(n) :
          st' = [st EXCEPT !["bg"] = [Stored(@, t, ids) EXCEPT !.pending[t] = NoPending]]
    /\ changed' = TRUE

BgConfirmFill(t) ==
    /\ Scans(t) /\ Filled(t)
    /\ \E n \in LegCounts : Resolve(t, acct[t], n)
    /\ UNCHANGED held

TimedOut_Mutant(t) == st["bg"].pending[t].old /\ acct[t] > 0
TimedOut(t) == st["bg"].pending[t].old

\* The one-hour timeout: a market order is placed beside the resting limit
\* order and taken as filled.
BgEscalate(t) ==
    LET q == st["bg"].pending[t].qty IN
    /\ Scans(t) /\ ~Filled(t) /\ TimedOut(t)
    /\ \/ held' = [held EXCEPT ![t] = @ + q]
       \/ "broker" \in faults /\ held' = held
    /\ \E n \in LegCounts : Resolve(t, q, n)

\* The escalation's place_order raises: the entry stays pending, also when the
\* order has reached the broker, and is escalated again by a later check.
BgEscalationFails(t) ==
    /\ Scans(t) /\ ~Filled(t) /\ TimedOut(t)
    /\ \/ "broker" \in faults /\ held' = held
       \/ "late" \in faults /\ held' = [held EXCEPT ![t] = @ + st["bg"].pending[t].qty]
    /\ UNCHANGED <<legs, nextId, st, changed>>

BgKeepWaiting(t) ==
    /\ Scans(t) /\ ~Filled(t) /\ ~TimedOut(t)
    /\ UNCHANGED <<held, legs, nextId, st, changed>>

\* After the loop the account is fetched again if an entry was resolved; the
\* old snapshot stays when that fails.
Snapshots_Mutant == {acct}
Snapshots == IF changed THEN {held} \cup (IF "broker" \in faults THEN {acct} ELSE {})
                        ELSE {acct}

\* The dict is saved if an entry was resolved or a pair forgotten.
NeedsSave_Mutant(a) == TRUE
NeedsSave(a) == changed \/ Reconciled(st["bg"], a) # st["bg"]

\* Orphaned legs are cancelled and their pairs forgotten.
BgReconcile ==
    /\ pc["bg"] = "scan" /\ scan = {}
    /\ \E a \in Snapshots :
          /\ CancelOrphans(st["bg"], a)
          /\ IF NeedsSave(a)
             THEN /\ st' = [st EXCEPT !["bg"] = Reconciled(@, a)]
                  /\ pc' = [pc EXCEPT !["bg"] = "bgSave"]
                  /\ UNCHANGED <<run, want, plans, bgVars>>
             ELSE LeaveBg("idle")
    /\ UNCHANGED <<fileVars, held, resting, nextId, envVars, execs, signalled>>

BgSaveBegin ==
    /\ pc["bg"] = "bgSave"
    /\ torn' = TRUE
    /\ pc' = [pc EXCEPT !["bg"] = "bgWrite"]
    /\ UNCHANGED <<file, brokerVars, envVars, bgVars, st, run, want, plans, execs, signalled>>

BgSaveEnd ==
    /\ pc["bg"] = "bgWrite"
    /\ file' = st["bg"] /\ torn' = FALSE
    /\ LeaveBg("idle")
    /\ UNCHANGED <<brokerVars, envVars, execs, signalled>>

BgSaveFails ==
    /\ pc["bg"] = "bgSave" /\ "disk" \in faults
    /\ LeaveBg("idle")
    /\ UNCHANGED <<fileVars, brokerVars, envVars, execs, signalled>>

-----------------------------------------------------------------------------
(* The environment *)

\* TDash writes a new run file.
Publish ==
    /\ latest < MaxRuns
    /\ "midpublish" \in faults \/ \A j \in Jobs : pc[j] = "idle"
    /\ latest' = latest + 1
    /\ sigs' \in SignalSets
    /\ UNCHANGED <<faults, fileVars, brokerVars, bgVars, pc, st, run, want, plans, execs,
                   signalled>>

\* An hour passes over the limit order of t.
Aged(s, t) == IF s.pending[t].qty > 0 THEN [s EXCEPT !.pending[t].old = TRUE] ELSE s
HourPasses(t) ==
    /\ file' = Aged(file, t)
    /\ st' = [j \in Jobs |-> Aged(st[j], t)]
    /\ <<file', st'>> # <<file, st>>
    /\ UNCHANGED <<torn, brokerVars, envVars, bgVars, pc, run, want, plans, execs, signalled>>

\* The market reaches a limit: all or part of what rests for t is bought.
LimitFills(t) ==
    /\ \E q \in 1..resting[t] :
          /\ held' = [held EXCEPT ![t] = @ + q]
          /\ resting' = [resting EXCEPT ![t] = @ - q]
    /\ UNCHANGED <<fileVars, legs, nextId, envVars, bgVars, pc, st, run, want,
                   plans, execs, signalled>>

\* A leg triggers: it sells its quantity, or is rejected when less is held.
LegFires(l) ==
    /\ legs' = legs \ {l}
    /\ held' = IF l.qty <= held[l.ticker]
               THEN [held EXCEPT ![l.ticker] = @ - l.qty]
               ELSE held
    /\ UNCHANGED <<fileVars, resting, nextId, envVars, bgVars, pc, st, run, want,
                   plans, execs, signalled>>

\* The process dies and is started again; the file and the broker remain.
Crash ==
    /\ "crash" \in faults
    /\ pc' = [j \in Jobs |-> "idle"]
    /\ st' = [j \in Jobs |-> DefaultState]
    /\ run' = [j \in Jobs |-> 0] /\ want' = [j \in Jobs |-> NoSignals]
    /\ plans' = [j \in Jobs |-> NoPlans]
    /\ acct' = Nothing /\ peek' = 0 /\ scan' = {} /\ changed' = FALSE
    /\ UNCHANGED <<fileVars, brokerVars, envVars, execs, signalled>>

-----------------------------------------------------------------------------

CycleStep(j) ==
    \/ CycleLoad(j) \/ CycleSignals(j) \/ CycleGivesUp(j) \/ CycleSelect(j)
    \/ \E t \in Tickers : ExecuteSell(j, t) \/ ExecuteMarketBuy(j, t)
                          \/ ExecuteLimitBuy(j, t) \/ ExecuteFails(j, t)
    \/ SaveBegin(j) \/ SaveEnd(j) \/ SaveFails(j)

BgStep ==
    \/ BgTrigger \/ BgLoad \/ BgStamp \/ BgAccount \/ BgAccountFails
    \/ \E t \in Tickers : BgConfirmFill(t) \/ BgEscalate(t) \/ BgEscalationFails(t)
                          \/ BgKeepWaiting(t)
    \/ BgReconcile \/ BgSaveBegin \/ BgSaveEnd \/ BgSaveFails

EnvStep ==
    \/ Publish \/ Crash
    \/ \E t \in Tickers : HourPasses(t) \/ LimitFills(t)
    \/ \E l \in legs : LegFires(l)

Next == MainStart \/ (\E j \in Jobs : CycleStep(j)) \/ BgStep \/ EnvStep

Spec == Init /\ [][Next]_vars

-----------------------------------------------------------------------------
(* Safety *)

\* A leg id on record for a ticker, in the file or in a job's copy however
\* stale, never names a live leg of another ticker, and live legs never share an
\* id: cancelling by recorded id cannot hit another position's protection.
RecordsOwnLegs(s, live, next) ==
    \A t \in Tickers : \A i \in s.pairs[t] :
        /\ i < next
        /\ \A l \in live : l.id = i => l.ticker = t
NoForeignCancel ==
    /\ \A l \in legs : l.id < nextId /\ \A k \in legs : k.id = l.id => k = l
    /\ RecordsOwnLegs(file, legs, nextId)
    /\ \A j \in Jobs : RecordsOwnLegs(st[j], legs, nextId)

\* "Idempotency: skip if this run was already processed".
RunOnce == \A r \in Runs : execs[r] <= 1

\* The idempotency check on last_run_id: while jobs do not overlap, the state is
\* saved and no run is published during a job, no run is executed by two cycles,
\* whatever fails at TDash and the broker.
AtMostOnce == faults \subseteq {"broker", "late"} => RunOnce

\* While jobs do not overlap, the state is saved and an order that raises has not
\* reached the broker, what is bought and still on order for a ticker never exceeds
\* twice what its signals asked for: an escalation doubles an order only once.
ExposureBound ==
    faults \subseteq {"broker", "midpublish"} =>
        \A t \in Tickers : held[t] + resting[t] <= 2 * signalled[t]

\* Whatever fails, an escalation that reached the broker late or whose record was
\* lost included: orders are escalated again only while less than 90% is held, so
\* that no more is held and on order than three times what signals asked for.
EscalationsStop == \A t \in Tickers : held[t] + resting[t] <= 3 * signalled[t]

\* The "no double order" rule: nothing is ordered beyond what signals asked for.
NoDoubleOrder == \A t \in Tickers : held[t] + resting[t] <= signalled[t]

\* max_positions, the hard cap on the number of positions.
HardCap == Cardinality({t \in Tickers : held[t] > 0}) <= MaxPositions

\* "SELL/TRIM skip checks 2-6 and are always executed": while the broker answers,
\* a run with an exit that is on record as processed has been through an
\* execution.  (An account that cannot be fetched in a triggered cycle breaks it.)
ExitsNotSkipped ==
    (/\ "broker" \notin faults
     /\ \A j \in Jobs : pc[j] = "idle"
     /\ latest # 0 /\ file.last_run = latest /\ Exits(sigs) # {})
    => execs[latest] > 0

\* Between jobs every live leg is on record for its ticker, so that it can be
\* cancelled when the other leg of its pair fills.
LegsRecorded ==
    (\A j \in Jobs : pc[j] = "idle") => \A l \in legs : l.id \in file.pairs[l.ticker]

\* While no run is published during a job, the recorded run never goes back to an
\* earlier one.  (The guard of background_check can put back the run it peeked.)
StampNeverRegresses ==
    [][{"midpublish", "overlap"} \cap faults = {} => file'.last_run >= file.last_run]_vars

\* The legs a background check placed for an order it resolved are not cancelled
\* by its own reconciliation while the position is held, the broker answers and jobs do
\* not overlap.  (With an overlap, what the file has pending need not be an order that
\* this check resolved.)
FreshLegsKept ==
    [][\A t \in Tickers :
         (/\ {"broker", "overlap"} \cap faults = {}
          /\ pc["bg"] = "scan" /\ scan = {} /\ pc'["bg"] = "bgSave"
          /\ file.pending[t].qty > 0 /\ st["bg"].pending[t].qty = 0 /\ held[t] > 0)
         => \A l \in legs : l.id \in st["bg"].pairs[t] => l \in legs']_vars

-----------------------------------------------------------------------------
(* Liveness *)

\* background_check is started again and again (every 5 minutes, while run_once
\* runs four times a day) and the handlers finish; TDash and the broker answer
\* again and again; hours pass.
Fairness ==
    /\ SF_vars(BgTrigger) /\ SF_vars(BgLoad) /\ WF_vars(BgStamp)
    /\ SF_vars(BgAccount) /\ WF_vars(BgReconcile)
    /\ WF_vars(BgSaveBegin) /\ WF_vars(BgSaveEnd)
    /\ \A j \in Jobs : WF_vars(CycleStep(j))
    /\ \A t \in Tickers :
          /\ WF_vars(BgConfirmFill(t)) /\ WF_vars(BgKeepWaiting(t)) /\ SF_vars(BgEscalate(t))
          /\ WF_vars(HourPasses(t))
LiveSpec == Spec /\ Fairness

\* Every limit BUY that is noted as pending is eventually confirmed or escalated.
PendingResolved ==
    \A t \in Tickers : file.pending[t].qty > 0 ~> file.pending[t].qty = 0

\* "When one fills, cancel other": a recorded pair does not keep one leg live
\* for ever after the other has gone.
Lone(t) == \E l, k \in file.pairs[t] : /\ \E live \in legs : live.id = l
                                       /\ \A live \in legs : live.id # k
OneCancelsOther == \A t \in Tickers : Lone(t) ~> ~Lone(t)

\* Every run that stays the newest is eventually on record as processed.
RunPickedUp == \A r \in Runs : latest = r ~> (file.last_run = r \/ latest > r)

=============================================================================
