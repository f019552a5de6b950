----------------------------- MODULE NewsExecutor -----------------------------
(***************************************************************************)
(* One trade of news_quant/executor.py, from its pre-trade guards to the   *)
(* exit in the ledger, with the broker and the ledger it works on.  execute *)
(* is cut at every call to the broker, where orders fill, brackets fire and *)
(* calls fail.  NewsDaemon calls it for the events it lets through.        *)
(*                                                                         *)
(* A trade is named by its event (one event, one cycle_id).  Prices are    *)
(* left out; what the account is worth after a trade is a choice.  The     *)
(* broker is Alpaca, or the dry run of kaigora.py, which reports fills and *)
(* sends nothing.                                                          *)
(*                                                                         *)
(* A definition named ..._Mutant is a plausible bug in the definition that *)
(* follows it; no other definition uses it.                                *)
(***************************************************************************)
EXTENDS Integers, FiniteSets

CONSTANTS
    Events,       \* the news events
    NoEvent,      \* none of them
    Tickers,
    TickerOf,     \* the ticker each event is about
    Lot,          \* shares in an entry order
    Levels,       \* what the account may be worth
    MaxDrawdown,  \* budget.hard_stop_drawdown_pct
    Ledgers,      \* <<latest, largest>> equity row the ledger may begin with
    FaultSets     \* the sets of faults to consider, see FaultKinds

\* "blind": get_account_info fails, which the gate and the equity row survive, and
\*     _size_qty does not.
\* "late": the broker's answers lag: a fill or a position is not seen yet, or a
\*     cancellation fails or comes too late.
\* "close": close_position fails.
\* "raise": a call of execute raises.
\* "llm": the scorer cannot be used, or its answer cannot, once it is paid for.
\* "crawler": rss_crawler.py works on the same store.
\* "dayend": the session ends while a trade is on.
\* "stop": the daemon is asked to stop, or dies, and is started again.
FaultKinds == {"blind", "late", "close", "raise", "llm", "crawler", "dayend", "stop"}

ASSUME EventsAssumption == IsFiniteSet(Events) /\ NoEvent \notin Events
ASSUME TickersAssumption == TickerOf \in [Events -> Tickers]
ASSUME LotAssumption == Lot \in Nat \ {0}
ASSUME LevelsAssumption == Levels \subseteq Nat \ {0} /\ MaxDrawdown \in Nat
ASSUME LedgersAssumption == Ledgers \subseteq (Levels \cup {0}) \X (Levels \cup {0})
ASSUME FaultsAssumption == \A f \in FaultSets : f \subseteq FaultKinds

VARIABLES
    faults,    \* fixed: the faults this behaviour may have
    dryRun,    \* fixed: broker.is_dry_run
    \* the broker
    order,     \* the entry order of each event
    got,       \* the shares it has bought or sold short
    side,      \* 1 for a long trade, -1 for a short one, 0 for none
    legs,      \* the shares its take-profit and stop-loss will close
    net,       \* the position in each ticker
    \* the ledger (ledger.sqlite)
    entered,   \* the quantity recorded at the entry of each trade
    exited,    \* the quantity recorded at its exit
    recorded,  \* the latest equity row, 0 when there is none
    peak,      \* the largest equity row
    halted,    \* the sticky halt
    \* the executor
    pc,        \* where execute is
    cur        \* the event in hand

orderVars == <<order, got, side, legs, net>>
tradeVars == <<entered, exited>>
equityVars == <<recorded, peak, halted>>
execVars == <<faults, dryRun, orderVars, tradeVars, equityVars, pc, cur>>

OrderStates == {"none", "working", "filled", "dead"}
ExecPCs == {"guard", "size", "place", "wait", "cancel", "enter", "hold", "close",
            "book", "equity"}

ExecTypeOK ==
    /\ faults \in FaultSets /\ dryRun \in BOOLEAN
    /\ order \in [Events -> OrderStates]
    /\ got \in [Events -> 0..Lot] /\ side \in [Events -> {-1, 0, 1}]
    /\ legs \in [Events -> 0..Lot] /\ net \in [Tickers -> Int]
    /\ entered \in [Events -> 0..Lot] /\ exited \in [Events -> 0..Lot]
    /\ recorded \in Levels \cup {0} /\ peak \in Levels \cup {0} /\ halted \in BOOLEAN
    /\ pc \in ExecPCs \cup {"off", "returned", "raised"}
    /\ cur \in Events \cup {NoEvent}

ExecInit ==
    /\ faults \in FaultSets /\ dryRun \in BOOLEAN
    /\ order = [e \in Events |-> "none"]
    /\ got = [e \in Events |-> 0] /\ side = [e \in Events |-> 0]
    /\ legs = [e \in Events |-> 0] /\ net = [t \in Tickers |-> 0]
    /\ entered = [e \in Events |-> 0] /\ exited = [e \in Events |-> 0]
    /\ \E rows \in Ledgers : recorded = rows[1] /\ peak = rows[2]
    /\ halted = FALSE
    /\ pc = "off" /\ cur = NoEvent

-----------------------------------------------------------------------------
(* Helpers *)

At(from, to) == pc = from /\ pc' = to
Ticker == TickerOf[cur]

\* ledger.drawdown_pct() >= max_dd_pct, of the latest row below the largest one.
Breached_Mutant == (peak - recorded) * 100 > MaxDrawdown * peak
Breached == peak > 0 /\ (peak - recorded) * 100 >= MaxDrawdown * peak

\* get_position finds nothing.  The dry run looks at the positions of an account
\* that others trade.
SeenGone == net[Ticker] = 0 \/ dryRun \/ "late" \in faults

\* place_order has taken the entry: it works, or, in the dry run, is "filled".
Taken == IF dryRun THEN "filled" ELSE "working"
Submit(s) ==
    /\ order' = [order EXCEPT ![cur] = Taken]
    /\ side' = [side EXCEPT ![cur] = s]

\* record_equity.
NewRow(w) == recorded' = w /\ peak' = IF w > peak THEN w ELSE peak

\* The events whose entry order still works in a ticker.
Working(t) == {e \in Events : TickerOf[e] = t /\ order[e] = "working"}

-----------------------------------------------------------------------------
(* execute *)

\* _ok_to_trade: the sticky halt, the day's LLM costs (overCap), the drawdown,
\* which sets the halt.
Halts(overCap) == ~halted /\ ~overCap /\ Breached
Guard(overCap) ==
    /\ pc = "guard"
    /\ pc' = IF halted \/ overCap \/ Breached THEN "returned" ELSE "size"
    /\ halted' = (halted \/ Halts(overCap))
    /\ UNCHANGED <<faults, dryRun, orderVars, tradeVars, recorded, peak, cur>>

\* _size_qty: too little cash, or no quote, is a rejection.
Size ==
    /\ \/ At("size", "place")
       \/ At("size", "returned")
    /\ UNCHANGED <<faults, dryRun, orderVars, tradeVars, equityVars, cur>>

\* The entry, a market order with a bracket, is accepted, or refused ("error").
Place(s) ==
    /\ \/ At("place", "wait") /\ Submit(s)
       \/ At("place", "returned") /\ ~dryRun /\ UNCHANGED <<order, side>>
    /\ UNCHANGED <<faults, dryRun, got, legs, net, tradeVars, equityVars, cur>>

\* wait_for_fill reports a fill: the order is filled, or partly filled when the time
\* is up, or was over with the day ("done_for_day", which _map_status takes for a
\* fill).  What expired, or has not begun to fill, is reported as not filled.
Filled == order[cur] = "filled" \/ (order[cur] = "working" /\ got[cur] > 0)
WaitEnds ==
    /\ \/ At("wait", "enter") /\ (Filled \/ order[cur] = "dead")
       \/ At("wait", "cancel") /\ (~Filled \/ ("late" \in faults /\ ~dryRun))
    /\ UNCHANGED <<faults, dryRun, orderVars, tradeVars, equityVars, cur>>

\* cancel_order, whose answer is not looked at: the trade is over ("no_fill").
Cancel_Mutant ==
    /\ At("cancel", "returned")
    /\ UNCHANGED <<faults, dryRun, orderVars, tradeVars, equityVars, cur>>
Cancel ==
    /\ At("cancel", "returned")
    /\ order' = IF order[cur] = "working" THEN [order EXCEPT ![cur] = "dead"] ELSE order
    /\ UNCHANGED <<faults, dryRun, got, side, legs, net, tradeVars, equityVars, cur>>
CancelFails ==
    /\ "late" \in faults /\ At("cancel", "returned")
    /\ UNCHANGED <<faults, dryRun, orderVars, tradeVars, equityVars, cur>>

\* The entry goes into the ledger at the full quantity of the order, also when it
\* filled in part: Alpaca's adapter leaves filled_qty at zero.
RecordEntry_Mutant ==
    /\ At("enter", "hold")
    /\ entered' = [entered EXCEPT ![cur] = got[cur]]
    /\ UNCHANGED <<faults, dryRun, orderVars, exited, equityVars, cur>>
RecordEntry ==
    /\ At("enter", "hold")
    /\ entered' = [entered EXCEPT ![cur] = Lot]
    /\ UNCHANGED <<faults, dryRun, orderVars, exited, equityVars, cur>>

\* The hold loop: the position is found gone, or the time is up and it is there.
HoldEnds_Mutant ==
    /\ At("hold", "book") /\ SeenGone
    /\ UNCHANGED <<faults, dryRun, orderVars, tradeVars, equityVars, cur>>
HoldEnds ==
    /\ \/ At("hold", "book") /\ SeenGone
       \/ At("hold", "close") /\ (net[Ticker] # 0 \/ dryRun)
    /\ UNCHANGED <<faults, dryRun, orderVars, tradeVars, equityVars, cur>>

\* close_position: the ticker's open orders are cancelled, each of which may
\* fail, then what is held is sold, unless that fails, too, or has to wait for the
\* next session.  A leg that could not be cancelled keeps its shares, so nothing is
\* sold.  The answer is only logged.  The dry run does nothing.
Close ==
    LET mine == {e \in Events : TickerOf[e] = Ticker}
    IN  \E kept \in IF "close" \in faults THEN SUBSET mine ELSE {{}} :
           /\ At("close", "book")
           /\ legs' = [e \in Events |-> IF e \in mine \ kept THEN 0 ELSE legs[e]]
           /\ order' = [e \in Events |->
                 IF e \in Working(Ticker) \ kept THEN "dead" ELSE order[e]]
           /\ \/ /\ \A e \in kept : legs[e] = 0
                 /\ net' = [net EXCEPT ![Ticker] = 0]
              \/ faults \cap {"close", "dayend"} # {} /\ net' = net
           /\ UNCHANGED <<faults, dryRun, got, side, tradeVars, equityVars, cur>>

\* The exit goes into the ledger with the quantity of the entry.
RecordExit ==
    /\ At("book", "equity")
    /\ exited' = [exited EXCEPT ![cur] = entered[cur]]
    /\ UNCHANGED <<faults, dryRun, orderVars, entered, equityVars, cur>>

\* The account is fetched again and its equity recorded; a failure is logged.
RecordEquity ==
    /\ At("equity", "returned")
    /\ \/ \E w \in Levels : NewRow(w)
       \/ "blind" \in faults /\ UNCHANGED <<recorded, peak>>
    /\ UNCHANGED <<faults, dryRun, orderVars, tradeVars, halted, cur>>

\* A call raises.  place_order may have taken effect before it did.
Raises ==
    /\ "raise" \in faults \/ ("blind" \in faults /\ pc = "size")
    /\ pc \in ExecPCs \ {"equity"}
    /\ pc' = "raised"
    /\ \/ UNCHANGED <<order, side>>
       \/ pc = "place" /\ ~dryRun /\ \E s \in {-1, 1} : Submit(s)
    /\ UNCHANGED <<faults, dryRun, got, legs, net, tradeVars, equityVars, cur>>

Execute(overCap) ==
    \/ Guard(overCap) \/ Size \/ (\E s \in {-1, 1} : Place(s)) \/ WaitEnds
    \/ Cancel \/ CancelFails \/ RecordEntry \/ HoldEnds \/ Close \/ RecordExit
    \/ RecordEquity \/ Raises

-----------------------------------------------------------------------------
(* The broker's side, at any time *)

\* Shares of a working order are bought or sold short; the bracket's legs become
\* live when it has filled whole.  Only a lagging broker fills an order that the
\* executor is about to give up.
Fills_Mutant(e) ==
    /\ order[e] = "working"
    /\ \E q \in 1..Lot :
          /\ got' = [got EXCEPT ![e] = @ + q]
          /\ net' = [net EXCEPT ![TickerOf[e]] = @ + q * side[e]]
    /\ UNCHANGED <<faults, dryRun, order, side, legs, tradeVars, equityVars, pc, cur>>
Fills(e) ==
    /\ order[e] = "working"
    /\ cur = e /\ pc = "cancel" => "late" \in faults
    /\ \E q \in 1..(Lot - got[e]) :
          /\ got' = [got EXCEPT ![e] = @ + q]
          /\ net' = [net EXCEPT ![TickerOf[e]] = @ + q * side[e]]
          /\ order' = IF got[e] + q = Lot THEN [order EXCEPT ![e] = "filled"] ELSE order
          /\ legs' = IF got[e] + q = Lot THEN [legs EXCEPT ![e] = Lot] ELSE legs
    /\ UNCHANGED <<faults, dryRun, side, tradeVars, equityVars, pc, cur>>

\* The take-profit or stop-loss closes its shares, if they are still there.
LegFires(e) ==
    /\ legs[e] > 0
    /\ legs' = [legs EXCEPT ![e] = 0]
    /\ LET p == net[TickerOf[e]] IN
       net' = IF p * side[e] >= legs[e]
              THEN [net EXCEPT ![TickerOf[e]] = @ - legs[e] * side[e]] ELSE net
    /\ UNCHANGED <<faults, dryRun, order, got, side, tradeVars, equityVars, pc, cur>>

\* Day orders end with the session: entries that did not fill, and the legs.
SessionEnds ==
    /\ "dayend" \in faults
    /\ order' = [e \in Events |-> IF order[e] = "working" THEN "dead" ELSE order[e]]
    /\ legs' = [e \in Events |-> 0]
    /\ <<order', legs'>> # <<order, legs>>
    /\ UNCHANGED <<faults, dryRun, got, side, net, tradeVars, equityVars, pc, cur>>

Market == (\E e \in Events : Fills(e) \/ LegFires(e)) \/ SessionEnds
=============================================================================
