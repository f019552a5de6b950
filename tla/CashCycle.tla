------------------------------- MODULE CashCycle -------------------------------
(***************************************************************************)
(* Where the money of decision_engine.py goes: run_cycle picks the signals *)
(* it can take, sells QQQ and SPY to pay for them, executes the plans,     *)
(* invests what cash is left over, and tells TDash, in the portfolio file, *)
(* how much there is to spend.  TDash sizes its next run by that file.     *)
(*                                                                         *)
(* Money is counted in whole dollars; a position is what it is worth, and  *)
(* prices do not move.  DecisionEngine has the same cycle without money,   *)
(* with the state file, the legs and the races between jobs.               *)
(***************************************************************************)
EXTENDS Integers, Sequences, FiniteSetsExt

CONSTANTS
    Stocks,       \* what signals are about (never QQQ or SPY)
    RunSets,      \* the runs TDash may publish: sequences of signals
    Accounts,     \* the accounts to begin with
    Threshold,    \* trading.free_cash_threshold
    MinPosition,  \* trading.min_position_dollars
    MinInvest,    \* the 100 dollars below which nothing is invested
    MinComposite, \* trading.composite_threshold, in per cent
    MaxPositions, \* trading.max_positions
    MaxNew,       \* trading.max_new_per_cycle
    MaxRuns,      \* bound: runs published
    FaultSets     \* the sets of faults to consider, see FaultKinds

\* "limit": a stock trades above its entry price, so that the order is a limit order.
\* "slow": a market order is filled after later reads of the account.
\* "legs": take-profits and stop-losses fire.
\* "broker": a call fails.
FaultKinds == {"limit", "slow", "legs", "broker"}

ETFs == {"QQQ", "SPY"}
Assets == Stocks \cup ETFs

\* A signal of a run: what to do with a stock, for how many dollars, and its composite.
Signal == [ticker : Stocks, action : {"ADD", "NEW", "TRIM", "SELL"}, dollars : Nat,
           composite : Nat]
Account == [cash : Int, pos : [Assets -> Nat]]
Plan == [ticker : Stocks, buy : BOOLEAN, dollars : Nat]

ASSUME StocksAssumption == IsFiniteSet(Stocks) /\ Stocks \cap ETFs = {}
ASSUME RunSetsAssumption == \A r \in RunSets :
    /\ r \in Seq(Signal)
    /\ \A i, j \in DOMAIN r : r[i].ticker = r[j].ticker => i = j
ASSUME AccountsAssumption == \A a \in Accounts : a.cash \in Nat /\ a \in Account
ASSUME LimitsAssumption == {Threshold, MinPosition, MinInvest, MinComposite, MaxPositions,
                            MaxNew, MaxRuns} \subseteq Nat
ASSUME FaultSetsAssumption == \A f \in FaultSets : f \subseteq FaultKinds

VARIABLES
    faults,    \* fixed: one of FaultSets
    monitor,   \* fixed: the ETF monitor is running
    cash, pos, \* the broker: money, and what each position is worth
    resting,   \* the broker: dollars of unfilled limit BUYs, by stock
    due,       \* the broker: dollars of market orders not yet filled, SELLs negative
    run,       \* TDash: the signals of the newest run
    runs,      \* TDash: how many it has published
    isNew,     \* last_run_id is not that run
    file,      \* portfolio_us.json: holdings and budget
    pc,        \* where run_cycle is
    acct,      \* the account it fetched
    chosen,    \* the signals it selected
    plans,     \* what is left of them to execute
    needed,    \* the cash to raise
    raised     \* the cash raised

brokerVars == <<cash, pos, resting, due>>
tdashVars == <<run, runs>>
cycleVars == <<acct, chosen, plans, needed, raised>>
fixed == <<faults, monitor>>
vars == <<fixed, brokerVars, tdashVars, isNew, file, pc, cycleVars>>

ETFValue(a) == SumFunctionOnSet(a.pos, ETFs)

\* What _sync_portfolio_to_tdash writes of an account: the ETFs are cash to TDash.
Synced(a) == [holdings |-> {s \in Stocks : a.pos[s] > 0}, budget |-> a.cash + ETFValue(a)]

NoOne == [cash |-> 0, pos |-> [a \in Assets |-> 0]]
Now == [cash |-> cash, pos |-> pos]

Init ==
    /\ faults \in FaultSets /\ monitor \in BOOLEAN
    /\ \E a \in Accounts : cash = a.cash /\ pos = a.pos /\ file = Synced(a)
    /\ resting = [s \in Stocks |-> 0] /\ due = [a \in Assets |-> 0]
    /\ run = <<>> /\ runs = 0 /\ isNew = FALSE
    /\ pc = "idle" /\ acct = NoOne /\ chosen = {} /\ plans = {} /\ needed = 0 /\ raised = 0

-----------------------------------------------------------------------------
(* Selection *)

IsExit(s) == s.action \in {"SELL", "TRIM"}
IsEntry(s) == ~IsExit(s)

\* _filter_signals: exits are never blocked by a score.  Runs are not stale here.
Actionable(r) == {i \in DOMAIN r : IsExit(r[i]) \/ r[i].composite >= MinComposite}

\* Entries are looked at best composite first; equals keep the order of the run.
Before_Mutant(r, j, i) == j < i
Before(r, j, i) == \/ r[j].composite > r[i].composite
                   \/ r[j].composite = r[i].composite /\ j < i

\* A pending limit BUY, or a position that would be too small.
Refused(s) == resting[s.ticker] > 0 \/ s.dollars < MinPosition

\* The positions, ETFs included, less one for every SELL of the run.
EffectiveCount(r, a) == Cardinality({x \in Assets : a.pos[x] > 0})
                        - Cardinality({i \in DOMAIN r : r[i].action = "SELL"})

\* _select_signals: exits pass; then the entries one by one, NEW names within the caps,
\* so that the selection sel takes one by the NEW names it took before.
Room_Mutant(r, a, n) == EffectiveCount(r, a) + n <= MaxPositions /\ n < MaxNew
Room(r, a, n) == EffectiveCount(r, a) + n < MaxPositions /\ n < MaxNew
News(r, sel) == {i \in sel : r[i].action = "NEW"}
Takes(r, a, sel, i) ==
    \/ IsExit(r[i])
    \/ /\ ~Refused(r[i])
       /\ r[i].action = "NEW" =>
             Room(r, a, Cardinality({j \in News(r, sel) : Before(r, j, i)}))
Selection(r, a, sel) == sel = {i \in Actionable(r) : Takes(r, a, sel, i)}

\* _signal_to_plan: a SELL is for all that is held, a TRIM for no more than that; no
\* position, no plan.
Planned(s, a) == IF IsEntry(s) THEN s.dollars
                 ELSE IF s.action = "SELL" \/ s.dollars > a.pos[s.ticker] THEN a.pos[s.ticker]
                 ELSE s.dollars
PlanOf(s, a) == [ticker |-> s.ticker, buy |-> IsEntry(s), dollars |-> Planned(s, a)]
Plans(r, sel, a) == {p \in {PlanOf(r[i], a) : i \in sel} : p.dollars > 0}

-----------------------------------------------------------------------------
(* Orders *)

\* A market order for d dollars of x, d negative for a SELL, is filled at once, or
\* owed by a slow broker.
Market(x, d) ==
    /\ \/ cash' = cash - d /\ pos' = [pos EXCEPT ![x] = @ + d] /\ due' = due
       \/ /\ "slow" \in faults
          /\ due' = [due EXCEPT ![x] = @ + d] /\ UNCHANGED <<cash, pos>>
    /\ resting' = resting

\* place_order raises, or the broker rejects: a SELL of what is no longer there.
Fails(x, d) == (pos[x] + d < 0 \/ "broker" \in faults) /\ UNCHANGED brokerVars
Order(x, d) == Fails(x, d) \/ (pos[x] + d >= 0 /\ Market(x, d))

-----------------------------------------------------------------------------
(* run_cycle *)

\* A slow order is filled before the next cycle, which is hours away.
AtRest == pc = "idle" /\ \A x \in Assets : due[x] = 0

Goes(from, to) == pc = from /\ pc' = to
Done == acct' = NoOne /\ chosen' = {} /\ plans' = {} /\ needed' = 0 /\ raised' = 0

\* No new run, or no signal of it selected: only idle cash is looked after, and the
\* run is not put on record.
NothingToDo_Mutant == FALSE
NothingToDo ==
    /\ AtRest /\ pc' = "investOnly"
    /\ ~isNew \/ Selection(run, Now, {})
    /\ UNCHANGED <<fixed, brokerVars, tdashVars, isNew, file, cycleVars>>

Select ==
    /\ AtRest /\ pc' = "raise" /\ isNew
    /\ chosen' \in (SUBSET DOMAIN run) \ {{}} /\ Selection(run, Now, chosen')
    /\ acct' = Now /\ plans' = Plans(run, chosen', Now)
    /\ UNCHANGED <<fixed, brokerVars, tdashVars, isNew, file, needed, raised>>

\* The shortfall, with a buffer of two per cent.  The proceeds of the SELLs ought to
\* be subtracted, but their plans carry no price.
Required == SumFunctionOnSet([p \in plans |-> p.dollars], {p \in plans : p.buy})
Shortfall == (Required * 102) \div 100 - acct.cash
Raise ==
    /\ pc = "raise"
    /\ IF Shortfall > 0 THEN needed' = Shortfall /\ pc' = "QQQ"
                        ELSE needed' = 0 /\ pc' = "execute"
    /\ UNCHANGED <<fixed, brokerVars, tdashVars, isNew, file, acct, chosen, plans, raised>>

\* _liquidate_etf_for_cash: QQQ first, then SPY; as much as is still needed and two per
\* cent more, or all there was.
Sale_Mutant(e) == ((needed - raised) * 102) \div 100
Sale(e) == Min({((needed - raised) * 102) \div 100, acct.pos[e]})
LiquidateFrom(e, next) ==
    /\ Goes(e, next)
    /\ \/ /\ raised >= needed \/ acct.pos[e] = 0 \/ "broker" \in faults
          /\ UNCHANGED <<brokerVars, raised>>
       \/ /\ raised < needed /\ acct.pos[e] > 0
          /\ Market(e, -Sale(e)) /\ raised' = raised + Sale(e)
    /\ UNCHANGED <<fixed, tdashVars, isNew, file, acct, chosen, plans, needed>>
Liquidate_Mutant == LiquidateFrom("QQQ", "execute")
Liquidate == LiquidateFrom("QQQ", "SPY") \/ LiquidateFrom("SPY", "execute")

\* _execute_one: exits before entries; a BUY at market or, above its entry price, as
\* a limit order.
Execute(p) ==
    /\ pc = "execute" /\ p \in plans
    /\ p.buy => \A q \in plans : q.buy
    /\ IF p.buy
       THEN \/ Order(p.ticker, p.dollars)
            \/ /\ "limit" \in faults
               /\ resting' = [resting EXCEPT ![p.ticker] = @ + p.dollars]
               /\ UNCHANGED <<cash, pos, due>>
       ELSE Order(p.ticker, -p.dollars)
    /\ plans' = plans \ {p}
    /\ UNCHANGED <<fixed, tdashVars, isNew, file, pc, acct, chosen, needed, raised>>

Executed ==
    /\ Goes("execute", "invest") /\ plans = {}
    /\ UNCHANGED <<fixed, brokerVars, tdashVars, isNew, file, cycleVars>>

\* _manage_free_cash: what exceeds the threshold goes into the ETF that MCDA prefers,
\* or into the other one, unless the monitor is in charge, or no price or account can
\* be had.  Then the run is on record, or the cycle was over before.
Excess == cash - Threshold
Buys(e) == ~monitor /\ Excess > 0 /\ Excess >= MinInvest /\ Order(e, Excess)
Skips == (monitor \/ Excess <= 0 \/ Excess < MinInvest \/ "broker" \in faults)
         /\ UNCHANGED brokerVars
Invest ==
    /\ \/ Goes("invest", "sync") /\ isNew' = FALSE /\ UNCHANGED cycleVars
       \/ Goes("investOnly", "idle") /\ Done /\ UNCHANGED isNew
    /\ Skips \/ \E e \in ETFs : Buys(e)
    /\ UNCHANGED <<fixed, tdashVars, file>>

\* The account is fetched again and written to the portfolio file; a failure is logged.
Sync ==
    /\ Goes("sync", "idle") /\ Done
    /\ \/ file' = Synced(Now)
       \/ "broker" \in faults /\ file' = file
    /\ UNCHANGED <<fixed, brokerVars, tdashVars, isNew>>

Cycle ==
    \/ NothingToDo \/ Select \/ Raise \/ Liquidate \/ (\E p \in plans : Execute(p)) \/ Executed \/ Invest
    \/ Sync

-----------------------------------------------------------------------------
(* TDash and the broker *)

\* A run that fits the file: its purchases the budget, and its NEW names and the others
\* the holdings.  It is published between cycles.
Spent(r) == SumFunctionOnSet([i \in DOMAIN r |-> IF IsEntry(r[i]) THEN r[i].dollars ELSE 0],
                             DOMAIN r)
Publish(r) ==
    /\ runs < MaxRuns /\ pc = "idle"
    /\ Spent(r) <= file.budget
    /\ \A i \in DOMAIN r : r[i].action = "NEW" <=> r[i].ticker \notin file.holdings
    /\ run' = r /\ runs' = runs + 1 /\ isNew' = TRUE
    /\ UNCHANGED <<fixed, brokerVars, file, pc, cycleVars>>

\* A limit BUY is filled; background_check then takes it off the pending ones.
Fill(s) ==
    /\ resting[s] > 0
    /\ cash' = cash - resting[s] /\ pos' = [pos EXCEPT ![s] = @ + resting[s]]
    /\ resting' = [resting EXCEPT ![s] = 0]
    /\ UNCHANGED <<fixed, due, tdashVars, isNew, file, pc, cycleVars>>

\* The take-profit or stop-loss of a stock fires.
LegFires(s) ==
    /\ "legs" \in faults /\ pos[s] > 0
    /\ cash' = cash + pos[s] /\ pos' = [pos EXCEPT ![s] = 0]
    /\ UNCHANGED <<fixed, resting, due, tdashVars, isNew, file, pc, cycleVars>>

\* The slow broker fills what it owes, or as much as there is to sell.
Settle(x) ==
    LET d == Max({due[x], -pos[x]}) IN
    /\ due[x] # 0
    /\ cash' = cash - d /\ pos' = [pos EXCEPT ![x] = @ + d]
    /\ due' = [due EXCEPT ![x] = 0]
    /\ UNCHANGED <<fixed, resting, tdashVars, isNew, file, pc, cycleVars>>

Next ==
    \/ Cycle \/ (\E r \in RunSets : Publish(r))
    \/ (\E s \in Stocks : Fill(s) \/ LegFires(s)) \/ (\E x \in Assets : Settle(x))

Spec == Init /\ [][Next]_vars

\* The scheduler starts cycle after cycle, orders are filled, and calls do not fail
\* for ever.
FairSpec ==
    /\ Spec /\ WF_vars(Cycle) /\ \A x \in Assets : WF_vars(Settle(x))
    /\ SF_vars(Invest /\ ~UNCHANGED brokerVars)

-----------------------------------------------------------------------------
(* What is claimed *)

TypeOK ==
    /\ faults \in FaultSets /\ monitor \in BOOLEAN
    /\ cash \in Int /\ pos \in [Assets -> Nat]
    /\ resting \in [Stocks -> Nat] /\ due \in [Assets -> Int]
    /\ run \in RunSets \cup {<<>>} /\ runs \in 0..MaxRuns /\ isNew \in BOOLEAN
    /\ file.holdings \subseteq Stocks /\ file.budget \in Int
    /\ pc \in {"idle", "raise", "QQQ", "SPY", "execute", "invest", "investOnly", "sync"}
    /\ acct \in Account /\ chosen \subseteq DOMAIN run /\ plans \subseteq Plan
    /\ needed \in Nat /\ raised \in Nat

\* The account is not overdrawn by runs that fit the budget it was last reported with,
\* as long as every order is filled when it is placed: what is not cash is in ETFs that
\* are sold in time (decision_engine.py 282-303), although the rest was invested after
\* every cycle.  A limit order is filled from cash that was raised for it and invested
\* again meanwhile, and TDash may spend it a second time.
NoOverdraft == faults = {} => cash >= 0

\* What is liquidated is what a shortfall asks for, within the buffer, unless both ETFs
\* are sold out ("Sells only the portion needed", decision_engine.py 940).
LiquidationFits ==
    (pc = "execute" /\ "broker" \notin faults) =>
        /\ raised * 100 <= needed * 102
        /\ raised >= needed \/ raised = ETFValue(acct)

\* The selection is the best one: an entry that was passed over was refused, or is a NEW
\* name when the caps are used up by NEW names with composites at least as good.
BestSelected == [][
    pc = "idle" /\ pc' = "raise" =>
        \A i \in Actionable(run) \ chosen' :
            IsEntry(run[i]) /\ ~Refused(run[i]) =>
                /\ run[i].action = "NEW"
                /\ ~Room(run, Now, Cardinality(News(run, chosen')))
                /\ \A c \in News(run, chosen') : run[c].composite >= run[i].composite]_vars

\* max_positions holds for the stocks: no step takes their number above it, as long as
\* every order is filled when it is placed and nothing but the cycle sells them.  A SELL
\* frees its slot in advance, and a run is selected by the account and published by the
\* file.
Names == Cardinality({x \in Stocks : pos[x] > 0})
CapKept == [][faults = {} => Names' <= Names \/ Names' <= MaxPositions]_vars

\* Cash for the BUYs of a run is raised net of what its SELLs bring ("so we don't
\* over-liquidate ETFs", decision_engine.py 283).
ProceedsCounted ==
    pc = "QQQ" =>
        LET brings == SumFunctionOnSet([p \in plans |-> p.dollars], {p \in plans : ~p.buy})
        IN  acct.cash * 100 < (Required - brings) * 102

\* Idle cash is invested again and again, while the monitor does not run.
CashInvested == ~monitor => []<>(cash < Threshold + MinInvest)
=============================================================================
